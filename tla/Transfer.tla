------------------------------- MODULE Transfer -------------------------------
(***************************************************************************)
(* zmq::Part and the messages of several Parts that zmq::Socket sends and  *)
(* receives, as an operation goes from Runner to Session: its token first, *)
(* then the operation.  A Part owns the content of its ZeroMQ message; a   *)
(* sent Part gives it away, a receiving one lets go of what it had.  The   *)
(* content is a buffer with a value in it, which the owner may overwrite.  *)
(***************************************************************************)
EXTENDS Naturals, Sequences, FiniteSets

CONSTANTS
    Buffers,
    Values,       \* what a buffer may hold
    HighWater,    \* messages that the pipe between the sockets takes
    NoBuffer

ASSUME TransferAssumption == HighWater \in Nat /\ NoBuffer \notin Buffers

\* The Parts of the sending thread, in the order in which send() is given them,
\* and those of the receiving one.
Out == <<"token", "operation">>
In == <<"tok", "oper">>
Parts == {Out[1], Out[2], In[1], In[2]}
SameThread(v, u) == {v, u} \subseteq {Out[1], Out[2]} \/ {v, u} \subseteq {In[1], In[2]}

VARIABLES
    msg,       \* the buffer of a Part, or none
    content,   \* what is in a buffer
    unsent,    \* frames of a message whose last one was not sent yet
    pipe,      \* frames that the receiver can read
    sent,      \* how many Parts the send() at work has gone through
    rcvd,      \* the same for recv()
    calls,     \* ghost: what the calls of send() not received yet were given
    got,       \* ghost: what the last recv() gave, and what it should have
    wanted

fvars == <<msg, content, unsent, pipe, sent, rcvd, calls, got, wanted>>

Blank == CHOOSE x \in Values : TRUE

FInit ==
    /\ msg = [v \in Parts |-> NoBuffer]
    /\ content = [b \in Buffers |-> Blank]
    /\ unsent = <<>> /\ pipe = <<>> /\ sent = 0 /\ rcvd = 0
    /\ calls = <<>> /\ got = <<>> /\ wanted = <<>>

Frames == unsent \o pipe
Owners(b) ==
    Cardinality({v \in Parts : msg[v] = b}) + Cardinality({i \in DOMAIN Frames : Frames[i].buf = b})
Unowned == {b \in Buffers : Owners(b) = 0}

\* The buffer of a new message; which of the free ones it is does not matter.
Fresh == IF Unowned = {} THEN {} ELSE {CHOOSE b \in Unowned : TRUE}

\* What buffers hold after a step: one that nobody owns any more was closed.
Holds(now) == content' = [b \in Buffers |-> IF Owners(b)' = 0 THEN Blank ELSE now[b]]

Has(v) == msg[v] # NoBuffer

\* A thread is inside send() or recv().
Calling(v) == IF v \in {Out[1], Out[2]} THEN sent > 0 ELSE rcvd > 0

-----------------------------------------------------------------------------
(* Part.                                                                   *)

\* A Part made from data, in place of an earlier one.
Make(v, b, x) ==
    /\ ~Calling(v)
    /\ msg' = [msg EXCEPT ![v] = b]
    /\ UNCHANGED <<unsent, pipe, sent, rcvd, calls, got, wanted>>
    /\ Holds([content EXCEPT ![b] = x])

\* Variant: the ZeroMQ message is copied, not its content.
CopyOf_Shallow(v, u, b) ==
    /\ msg' = [msg EXCEPT ![v] = msg[u]]
    /\ UNCHANGED <<unsent, pipe>>
    /\ Holds(content)

\* A message of its own with the same content.
CopyOf(v, u, b) ==
    /\ msg' = [msg EXCEPT ![v] = b]
    /\ UNCHANGED <<unsent, pipe>>
    /\ Holds([content EXCEPT ![b] = content[msg[u]]])

\* The copy constructor.
Duplicate(v, u, b) ==
    /\ ~Calling(v) /\ SameThread(v, u) /\ Has(u)
    /\ ~Has(v)
    /\ CopyOf(v, u, b)
    /\ UNCHANGED <<sent, rcvd, calls, got, wanted>>

\* operator=, to itself too: the copy is made before the old message is closed.
AssignPart(v, u, b) ==
    /\ ~Calling(v) /\ SameThread(v, u) /\ Has(u)
    /\ Has(v)
    /\ CopyOf(v, u, b)
    /\ UNCHANGED <<sent, rcvd, calls, got, wanted>>

\* move() and the move constructor.
MovePart(v, u) ==
    /\ ~Calling(v) /\ SameThread(v, u) /\ v # u
    /\ msg' = [msg EXCEPT ![v] = msg[u], ![u] = NoBuffer]
    /\ UNCHANGED <<unsent, pipe, sent, rcvd, calls, got, wanted>>
    /\ Holds(content)

\* data() is written to, as by Topic::withSeqNum().
Overwrite(v, x) ==
    /\ ~Calling(v) /\ Has(v)
    /\ content' = [content EXCEPT ![msg[v]] = x]
    /\ UNCHANGED <<msg, unsent, pipe, sent, rcvd, calls, got, wanted>>

-----------------------------------------------------------------------------
(* Socket.                                                                 *)

\* External: ZeroMQ takes the first frame of a message when there is room, the
\* others always, and delivers them together.
Room == Len(SelectSeq(pipe, LAMBDA f : ~f.more)) < HighWater

\* sendMessageMore() for all Parts but the last, which lets the message go.
SendMessagePart(k) ==
    LET frame == [buf |-> msg[Out[k]], more |-> k < Len(Out)] IN
    /\ IF frame.more THEN unsent' = Append(unsent, frame) /\ pipe' = pipe
       ELSE unsent' = <<>> /\ pipe' = pipe \o unsent \o <<frame>>
    /\ msg' = [msg EXCEPT ![Out[k]] = NoBuffer]

\* send(token, operation), and trySend(), which gives up without room; no
\* other Part is sent then, and all are kept.
Send ==
    /\ sent = 0 => Room /\ Has(Out[1]) /\ Has(Out[2])
    /\ SendMessagePart(sent + 1)
    /\ sent' = (sent + 1) % Len(Out)
    /\ calls' = IF sent = 0 THEN Append(calls, <<content[msg[Out[1]]], content[msg[Out[2]]]>>) ELSE calls
    /\ UNCHANGED <<content, rcvd, got, wanted>>

\* The next frame replaces what the Part had.
RecvMessagePart(k) ==
    /\ msg' = [msg EXCEPT ![In[k]] = Head(pipe).buf]
    /\ pipe' = Tail(pipe)

\* recv(&tok, &oper), and tryRecv() when there is a message.
Recv ==
    /\ pipe # <<>>
    /\ RecvMessagePart(rcvd + 1)
    /\ LET buf == Head(pipe).buf
           last == rcvd + 1 = Len(In)
       IN  /\ got' = IF last THEN <<content[msg[In[1]]], content[buf]>> ELSE <<>>
           /\ wanted' = IF last THEN Head(calls) ELSE <<>>
           /\ calls' = IF last THEN Tail(calls) ELSE calls
    /\ rcvd' = (rcvd + 1) % Len(In)
    /\ UNCHANGED <<unsent, sent>>
    /\ Holds(content)

FNext ==
    \/ \E v \in Parts, b \in Fresh, x \in Values : Make(v, b, x)
    \/ \E v, u \in Parts, b \in Fresh : Duplicate(v, u, b) \/ AssignPart(v, u, b)
    \/ \E v, u \in Parts : MovePart(v, u)
    \/ \E v \in Parts, x \in Values : Overwrite(v, x)
    \/ Send
    \/ Recv

FSpec == FInit /\ [][FNext]_fvars

-----------------------------------------------------------------------------
\* What recv() gives are the Parts of one message, in order, as they were when
\* send() was called, whatever the sender did to its Parts since: a token never
\* goes with another operation, and Parts never share what they hold.
MessagesWhole == got = wanted /\ \A b \in Buffers : Owners(b) <= 1
=============================================================================
