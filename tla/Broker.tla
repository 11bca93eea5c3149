-------------------------------- MODULE Broker --------------------------------
(***************************************************************************)
(* The storage of a BrokerSession: storTopic_, a cache of caches with the  *)
(* last topic of each worker for each name, and storWorker_, the last      *)
(* sequence number seen of each worker.                                    *)
(***************************************************************************)
EXTENDS LruCache

CONSTANTS
    Workers, Names,
    TopicCap,    \* capacity of storTopic_, 1024 in the code
    UuidCap,     \* of the caches in it, 8
    WorkerCap,   \* of storWorker_, 64
    MaxSeq       \* bound on the sequence numbers

ASSUME BrokerAssumption ==
    /\ TopicCap \in Nat \ {0} /\ UuidCap \in Nat \ {0} /\ WorkerCap \in Nat \ {0}
    /\ MaxSeq \in Nat

VARIABLES storTopic, storWorker

store == <<storTopic, storWorker>>

BrInit == storTopic = <<>> /\ storWorker = <<>>

LastSeqNum(w) == IF w \in KeysOf(storWorker) THEN Find(storWorker, w) ELSE 0

\* Variant: a repeated number passes.
Accepts_Equal(t) == t.seqNum >= LastSeqNum(t.worker)

\* What storeTopic() returns.
Accepts(t) == t.seqNum > LastSeqNum(t.worker)

\* The entry of the name is made before the topic is looked at.
WithName(n) ==
    IF n \in KeysOf(storTopic) THEN storTopic ELSE Put(storTopic, TopicCap, n, <<>>)

StoreTopic(t) ==
    IF Accepts(t)
    THEN /\ storWorker' = Put(storWorker, WorkerCap, t.worker, t.seqNum)
         /\ storTopic' = LET s == WithName(t.name) IN
                         Update(s, t.name, Put(Find(s, t.name), UuidCap, t.worker, t))
    ELSE storTopic' = WithName(t.name) /\ UNCHANGED storWorker

\* The topics replySnapshot() sends, in its order, for the names the worker is
\* subscribed to: of each name only the last of list().
Back(c) == c[Len(c)].val

Sendable(names) ==
    {i \in DOMAIN storTopic : LET t == Back(storTopic[i].val) IN
                              t.type # "Event" /\ t.name \in names}

Snapshot(names) ==
    LET chosen == Selected(storTopic, Sendable(names))
    IN  [i \in DOMAIN chosen |-> Back(chosen[i].val)]
=============================================================================
