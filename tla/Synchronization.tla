---------------------------- MODULE Synchronization ----------------------------
(***************************************************************************)
(* A SyncMachine against the brokers behind its sockets.  A broker answers *)
(* a request with a beginning, the elements of its snapshot and a          *)
(* completion, and gives up in the middle when a send would block; a       *)
(* request may get lost.  Closing a socket drops what it holds and what    *)
(* was still to come to it.  The session has one thread, which a timeout   *)
(* may send into a receive from the socket it has just closed.             *)
(***************************************************************************)
EXTENDS SyncMachine, Sequences

CONSTANT MaxElems   \* bound on the elements of a snapshot

ASSUME SynchronizationAssumption == MaxElems \in Nat

VARIABLES
    pend,     \* requests that reached the broker of each index
    flight,   \* its replies on their way to the worker, FIFO
    got,      \* ghost: what was received of the answer to the last request
    thread    \* of the session: in its "loop", waiting in a receive from the
              \* "snapshot" or the "delivery" socket, or "thrown"

netVars == <<pend, flight, got, thread>>
svars == <<vars, netVars>>

(* The field current is a ghost: the message belongs to the last request.  *)
Requests == [seqn : 0 .. SeqMod - 1, current : BOOLEAN]
Replies == [seqn : 0 .. SeqMod - 1, current : BOOLEAN,
            type : {"Begin", "Snapshot", "Complete"}, size : 0 .. MaxElems]

SInit ==
    /\ Init
    /\ pend = [i \in Indexes |-> <<>>]
    /\ flight = [i \in Indexes |-> <<>>]
    /\ got = 0
    /\ thread = "loop"

\* Messages of an earlier request, once there is a new one.
Aged(q) == [k \in DOMAIN q |-> [q[k] EXCEPT !.current = FALSE]]

\* What is left on socket i after the step's doClose_ and doSync_.
Left(i, q) == IF i \in closed' THEN <<>> ELSE IF asked' THEN Aged(q) ELSE q

\* The request of sendSync(), which a failed trySend() loses unnoticed.
Effects ==
    /\ flight' = [i \in Indexes |-> Left(i, flight[i])]
    /\ \E sent \in {FALSE, asked'} :
         pend' = [i \in Indexes |->
                    Left(i, pend[i]) \o IF sent /\ i = indexCurr'
                                        THEN <<[seqn |-> seqNum', current |-> TRUE]>>
                                        ELSE <<>>]
    /\ got' = IF asked' THEN 0 ELSE got

\* A handler that the loop calls and that returns.
Served == Effects /\ thread = "loop" /\ thread' = "loop"

Request == OnSync /\ Served
Halt == OnHalt /\ Served
ChooseIndex == \E i \in Indexes : SetNextIndex(i) /\ Served

\* A socket that has a reply may be in the batch too, after the timer: if it was
\* closed and opened again the thread waits there, if only closed recv() throws.
TimeoutFired ==
    /\ thread = "loop"
    /\ OnTimerTimeoutFired /\ Effects
    /\ \/ thread' = "loop"
       \/ \E i \in closed' :
            /\ flight[i] # <<>>
            /\ thread' = IF i \in open' THEN "snapshot" ELSE "thrown"

Expiry == TimeoutExpires /\ Effects /\ UNCHANGED thread

\* The same for zdelivery_, which the connection's timeout closes and opens
\* (module Connection).
DeliveryBlocks == thread = "loop" /\ thread' = "delivery" /\ UNCHANGED <<vars, pend, flight, got>>
DeliveryReturns == thread = "delivery" /\ thread' = "loop" /\ UNCHANGED <<vars, pend, flight, got>>

\* replySnapshot(), all of it or up to the send that would block.
ReplySnapshot(i) ==
    /\ pend[i] # <<>>
    /\ pend' = [pend EXCEPT ![i] = Tail(@)]
    /\ \E n \in 0 .. MaxElems :
         LET reply(t) == [seqn |-> Head(pend[i]).seqn, current |-> Head(pend[i]).current,
                          type |-> t, size |-> n]
             all == [k \in 1 .. n + 2 |-> reply(IF k = 1 THEN "Begin"
                                               ELSE IF k <= n + 1 THEN "Snapshot" ELSE "Complete")]
         IN  \E k \in 0 .. n + 2 : flight' = [flight EXCEPT ![i] = @ \o SubSeq(all, 1, k)]
    /\ UNCHANGED <<vars, got, thread>>

\* recvBrokerSnapshot(), which hands the machine all but the beginning.
Receive(i) ==
    /\ flight[i] # <<>>
    /\ thread \in {"loop", "snapshot"} /\ thread' = "loop"
    /\ flight' = [flight EXCEPT ![i] = Tail(@)]
    /\ LET m == Head(flight[i]) IN
         /\ IF m.type = "Begin" THEN UNCHANGED vars ELSE OnReply(i, m.seqn, m.type)
         /\ got' = IF Accepts(i, m.seqn) /\ m.type # "Complete" THEN got + 1 ELSE got
    /\ pend' = pend

SNext ==
    \/ Request \/ Halt \/ TimeoutFired \/ Expiry \/ ChooseIndex
    \/ DeliveryBlocks \/ DeliveryReturns
    \/ \E i \in Indexes : ReplySnapshot(i) \/ Receive(i)

SSpec == SInit /\ [][SNext]_svars

\* The worker's session runs and time passes; no broker is obliged to answer.  The
\* fairness of the session's steps is strong, since whatever is ready when its thread
\* comes back from a receive is in the next batch.
SFairSpec ==
    /\ SSpec
    /\ SF_svars(TimeoutFired) /\ WF_svars(Expiry)
    /\ SF_svars(\E i \in Indexes : Receive(i))

-----------------------------------------------------------------------------
\* SyncMachine and the queues of its sockets hold what the code can put there;
\* in particular retryCurr_ never passes retryMax_.
STypeOK ==
    /\ TypeOK
    /\ pend \in [Indexes -> Seq(Requests)]
    /\ flight \in [Indexes -> Seq(Replies)]
    /\ got \in 0 .. MaxElems + 1
    /\ thread \in {"loop", "snapshot", "delivery", "thrown"}

\* A reply that arrives is to the current request and is accepted: retries,
\* failures and halts close the socket an earlier answer could come from, so
\* sequence numbers that come round, or start over, mix up nothing.
OnlyCurrentReplies ==
    \A i \in Indexes : \A k \in DOMAIN flight[i] :
        flight[i][k].current /\ Accepts(i, flight[i][k].seqn)

\* Synced means that the beginning and every element of the broker's snapshot were
\* received, by this request and none before it.
WholeSnapshot ==
    \A i \in Indexes :
        flight[i] # <<>> /\ Head(flight[i]).type = "Complete"
            /\ Accepts(i, Head(flight[i]).seqn)
        => got = Head(flight[i]).size + 1

\* A synchronization ends: complete, failed after the last retry, halted, or with
\* its session, whose recv() throws.  It does not only while the thread waits for
\* ever in a receive from a socket that a timeout of the same batch reopened.
DownloadEnds ==
    state = "Download" ~>
        \/ state # "Download" \/ thread = "thrown"
        \/ [](thread \in {"snapshot", "delivery"})
=============================================================================
