------------------------------ MODULE Messages ------------------------------
(***************************************************************************)
(* What workers, brokers and their sessions send each other, as the Parts  *)
(* that toPart() makes and fromPart() reads: topics, events, operations,   *)
(* uuids and configurations.                                               *)
(***************************************************************************)
EXTENDS Packing

CONSTANT NameCapacity   \* bytes of a topic name, for 255

ASSUME MessagesAssumption == NameCapacity \in Nat \ {0}

SeqNMod == Word(SeqNSize)

\* fromPart() ends the process on a number that is not of an enumeration.
Asserted(r, first, count, i) ==
    IF r.res = "value" /\ r.val[i] \notin first .. first + count - 1 THEN Aborts ELSE r

\* Topic::Name of a longer string keeps its front.
Name(str) == SubSeq(str, 1, IF Len(str) < NameCapacity THEN Len(str) ELSE NameCapacity)

\* Topic: toPart(), fromPart() and withSeqNum().
State == 0
TopicTypes == <<Integral(SeqNSize), Integral(1), CharArray(UuidSize), CharArray(UuidSize), String, String>>

TopicToPart(t) == Pack(TopicTypes, <<t.seqNum, t.type, t.broker, t.worker, t.name, t.data>>)

TopicFromPart(pm) ==
    OnValue(Asserted(Unpack(TopicTypes, pm), State, 2, 2), LAMBDA v : Value(
        [seqNum |-> v[1], type |-> v[2], broker |-> v[3], worker |-> v[4],
         name |-> Name(v[5]), data |-> v[6]]))

\* Variant: the number is written after the first byte.
WithSeqNum_Shifted(pm, n) ==
    IF Len(pm) < SeqNSize THEN Throws
    ELSE Value([i \in DOMAIN pm |-> IF i \in 2 .. SeqNSize + 1 THEN PartOf(n, SeqNSize)[i - 1] ELSE pm[i]])

WithSeqNum(pm, n) ==
    IF Len(pm) < SeqNSize THEN Throws
    ELSE Value([i \in DOMAIN pm |-> IF i <= SeqNSize THEN PartOf(n, SeqNSize)[i] ELSE pm[i]])

\* Event and Operation: a type, a notification and a payload.
EventCount == 13
EventNotifications == 3
OperationCount == 5
OperationNotifications == 2
TaggedTypes == <<Integral(1), Integral(1), String>>

TaggedToPart(e) == Pack(TaggedTypes, <<e.type, e.notif, e.payload>>)
EventToPart(e) == TaggedToPart(e)
OperationToPart(o) == TaggedToPart(o)

TaggedFromPart(count, notifs, pm) ==
    OnValue(Asserted(Asserted(Unpack(TaggedTypes, pm), 0, count, 1), 0, notifs, 2), LAMBDA v : Value(
        [type |-> v[1], notif |-> v[2], payload |-> v[3]]))

EventFromPart(pm) == TaggedFromPart(EventCount, EventNotifications, pm)
OperationFromPart(pm) == TaggedFromPart(OperationCount, OperationNotifications, pm)

\* Uuid, as the worker behind the gRPC service answers GetUuid.
UuidToPart(u) == Pack(<<CharArray(UuidSize)>>, <<u>>)
UuidFromPart(pm) == OnValue(Unpack(<<CharArray(UuidSize)>>, pm), LAMBDA v : Value(v[1]))

\* WorkerConfig and BrokerConfig: names and endpoints are packed on their own.
All(rs) == IF \E i \in DOMAIN rs : rs[i].res # "value" THEN Throws
           ELSE Value([i \in DOMAIN rs |-> rs[i].val])

WorkerConfigTypes == <<CharArray(UuidSize), Integral(SeqNSize), Integral(1)>> \o Repeat(String, 4)

WorkerConfigToPart(c) ==
    OnValue(All([i \in 1 .. 4 |-> PackAll(String, IF i = 1 THEN c.topicsNames ELSE c.endpoints[i - 1])]),
            LAMBDA lists : Pack(WorkerConfigTypes, <<c.uuid, c.seqNum, IF c.topicsAll THEN 1 ELSE 0>> \o lists))

WorkerConfigFromPart(pm) ==
    OnValue(Unpack(WorkerConfigTypes, pm), LAMBDA v :
        OnValue(All([i \in 1 .. 4 |-> UnpackAll(String, v[i + 3])]), LAMBDA lists : Value(
            [uuid |-> v[1], seqNum |-> v[2], topicsAll |-> v[3] # 0,
             topicsNames |-> [i \in DOMAIN lists[1] |-> Name(lists[1][i])], endpoints |-> Tail(lists)])))

BrokerConfigTypes == <<CharArray(UuidSize)>> \o Repeat(String, 3)

BrokerConfigToPart(c) ==
    OnValue(All([i \in 1 .. 3 |-> PackAll(String, c.endpoints[i])]),
            LAMBDA lists : Pack(BrokerConfigTypes, <<c.uuid>> \o lists))

BrokerConfigFromPart(pm) ==
    OnValue(Unpack(BrokerConfigTypes, pm), LAMBDA v :
        OnValue(All([i \in 1 .. 3 |-> UnpackAll(String, v[i + 1])]), LAMBDA lists : Value(
            [uuid |-> v[1], endpoints |-> lists])))
=============================================================================
