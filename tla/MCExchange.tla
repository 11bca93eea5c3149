------------------------------ MODULE MCExchange ------------------------------
(* Messages with strings and containers of every size around the limits of
   their lengths, numbers with bytes of both halves, and any short Parts. *)
EXTENDS Exchange
LOCAL INSTANCE SequencesExt

Low == 1
High == ByteSize - 1
Uuid(b) == Repeat(b, UuidSize)
Texts == {<<>>, <<High>>, <<High, Low>>, Repeat(High, MaxLength), Repeat(Low, MaxLength + 1)}

Names == {<<>>, <<High>>, <<High, Low>>}

\* The last two take MaxLength bytes and one more.
Containers ==
    {<<>>, <<<<>>>>, <<<<High>>, <<>>>>, <<<<Low, High>>, <<High>>, <<>>>>}
    \cup {<<Repeat(Low, n)>> : n \in {MaxLength - 3 * LengthSize, MaxLength - 3 * LengthSize + 1}}

NameLists ==
    {<<>>, <<<<High>>, <<>>>>, <<<<Low, High>>, <<High>>, <<>>>>}
    \cup {Repeat(<<Low, High>>, 4) \o <<last>> : last \in {<<>>, <<Low>>}}

TopicsSent ==
    [seqNum : {0, ByteSize \div 2, ByteSize}, type : {State, State + 1}, broker : {Uuid(Low)},
     worker : {Uuid(High)}, name : Names, data : Texts]

OperationsSent == [type : 0 .. OperationCount - 1, notif : 0 .. OperationNotifications - 1, payload : Texts]

EventsSent == [type : 0 .. EventCount - 1, notif : 0 .. EventNotifications - 1, payload : Texts]

BrokerConfigsSent ==
    {[uuid |-> Uuid(High), endpoints |-> <<a, b, <<<<Low>>>>>>] : a \in Containers, b \in Containers}

WorkerConfigsSent ==
    {[uuid |-> Uuid(High), seqNum |-> n, topicsAll |-> names = <<>>, topicsNames |-> names,
      endpoints |-> <<a, <<>>, <<<<Low>>>>>>] :
        n \in {ByteSize \div 2, SeqNMod - 1}, names \in NameLists, a \in Containers}

OfKind(k, bodies) == {[kind |-> k, body |-> b] : b \in bodies}

AllKinds ==
    OfKind("topic", TopicsSent) \cup OfKind("operation", OperationsSent) \cup OfKind("event", EventsSent)
    \cup OfKind("uuid", {Uuid(High)}) \cup OfKind("brokerConfig", BrokerConfigsSent) \cup OfKind("workerConfig", WorkerConfigsSent)

ShortParts == BoundedSeq({0, Low, NameCapacity + 1}, 10)
=============================================================================
