------------------------------ MODULE Exchange ------------------------------
(***************************************************************************)
(* One message from the one who packs it to the one who reads it, with the *)
(* sequence number a session writes into a topic on its way.  A Part that  *)
(* arrives in the place of a topic may also be none that toPart() made.    *)
(***************************************************************************)
EXTENDS Messages
LOCAL INSTANCE SequencesExt

CONSTANTS
    Sent,     \* messages: records of a kind and of the message itself
    Foreign   \* Parts that no toPart() made

VARIABLES
    stage,    \* "idle", "sent", "foreign", "refused" or "read"
    msg,      \* the message, as it should be read
    part,     \* the Part under way
    got       \* what fromPart() gave

xvars == <<stage, msg, part, got>>

ToPart(m) ==
    CASE m.kind = "topic"        -> TopicToPart(m.body)
      [] m.kind = "workerConfig" -> WorkerConfigToPart(m.body)
      [] m.kind = "brokerConfig" -> BrokerConfigToPart(m.body)
      [] m.kind = "event"        -> EventToPart(m.body)
      [] m.kind = "operation"    -> OperationToPart(m.body)
      [] m.kind = "uuid"         -> UuidToPart(m.body)

FromPart(kind, pm) ==
    CASE kind = "topic"        -> TopicFromPart(pm)
      [] kind = "workerConfig" -> WorkerConfigFromPart(pm)
      [] kind = "brokerConfig" -> BrokerConfigFromPart(pm)
      [] kind = "event"        -> EventFromPart(pm)
      [] kind = "operation"    -> OperationFromPart(pm)
      [] kind = "uuid"         -> UuidFromPart(pm)

Nothing == [kind |-> "none"]

XInit == stage = "idle" /\ msg = Nothing /\ part = <<>> /\ got = Throws

Send ==
    /\ stage = "idle"
    /\ \E m \in Sent : \E r \in {ToPart(m)} :
         /\ msg' = m
         /\ stage' = IF r.res = "value" THEN "sent" ELSE "refused"
         /\ part' = r.val
    /\ UNCHANGED got

Arrive ==
    /\ stage = "idle"
    /\ stage' = "foreign" /\ part' \in Foreign
    /\ UNCHANGED <<msg, got>>

\* Operation::Dispatch in the session: withSeqNum() on the packed topic.
Renumber ==
    /\ stage = "sent" /\ msg.kind = "topic"
    /\ \E n \in {0, ByteSize - 1, SeqNMod - 1} :
         /\ msg' = [msg EXCEPT !.body.seqNum = n]
         /\ part' = WithSeqNum(part, n).val
    /\ UNCHANGED <<stage, got>>

Read ==
    /\ \/ stage = "sent" /\ got' = FromPart(msg.kind, part)
       \/ stage = "foreign" /\ got' = TopicFromPart(part)
    /\ stage' = "read"
    /\ UNCHANGED <<msg, part>>

XNext == Send \/ Arrive \/ Renumber \/ Read

XSpec == XInit /\ [][XNext]_xvars

-----------------------------------------------------------------------------
\* The lengths a message has to store: of its strings, and in a configuration
\* of its containers with their headers.
Lengths(m) ==
    CASE m.kind = "topic"        -> {Len(m.body.name), Len(m.body.data)}
      [] m.kind = "workerConfig" -> {ContainerSize(String, m.body.topicsNames)} \cup {ContainerSize(String, m.body.endpoints[i]) : i \in 1 .. 3}
      [] m.kind = "brokerConfig" -> {ContainerSize(String, m.body.endpoints[i]) : i \in 1 .. 3}
      [] m.kind = "uuid"         -> {}
      [] OTHER                   -> {Len(m.body.payload)}

\* What is read is what was sent, for topics with their number rewritten on
\* the way, events, operations and the configurations with the containers
\* nested in them; and pack() throws for exactly the messages with a string,
\* or a container, of more bytes than a length can say.
RoundTrips ==
    /\ stage = "read" /\ msg # Nothing => got.res = "value" /\ got.val = msg.body
    /\ stage = "refused" => \E n \in Lengths(msg) : n > MaxLength
    /\ stage = "sent" => \A n \in Lengths(msg) : n <= MaxLength

\* The bytes of a topic, one field after the other.
Layout(t) ==
    PartOf(t.seqNum, SeqNSize) \o PartOf(t.type, 1) \o t.broker \o t.worker
    \o PartOf(Len(t.name), LengthSize) \o t.name \o PartOf(Len(t.data), LengthSize) \o t.data

\* Nothing is read past the end of a Part, whatever it holds: the Part begins
\* with the bytes of the topic that was read from it, if its name was not cut.
ReadsWithin ==
    stage = "read" /\ got.res = "value" /\ msg = Nothing /\ Len(got.val.name) < NameCapacity
    => IsPrefix(Layout(got.val), part)
=============================================================================
