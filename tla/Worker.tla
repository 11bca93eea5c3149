------------------------------- MODULE Worker -------------------------------
(***************************************************************************)
(* Worker over Runner: the life of a worker's sequence number across the   *)
(* restarts of its session.  Every dispatched topic gets the next number   *)
(* of the session, which reports it over zseqs_/zseqr_ (PUSH/PULL with     *)
(* ZMQ_CONFLATE); start() hands the last reported one to the next session, *)
(* in the configuration that it packs into the Start operation.            *)
(***************************************************************************)
EXTENDS Runner, Messages

CONSTANTS
    InitSequence,   \* the number the worker is constructed with
    MaxSeq          \* bound on the sequence numbers: the session dispatches up to it

ASSUME WorkerAssumption == {InitSequence, MaxSeq} \subseteq 0 .. SeqNMod - 1

VARIABLES
    seqNum,       \* Worker::seqNum_
    slot,         \* the conflated message in zseqr_, or NoSeq
    confPart,     \* WorkerConfig::seqNum as packed in the last Start operation
    sessionSeq,   \* WorkerSession::seqNum_ of the last session to be started
    lastSent      \* ghost: the number of the last topic sent to the broker

NoSeq == -1
seqVars == <<seqNum, slot, confPart, sessionSeq, lastSent>>
wvars == <<vars, seqVars>>

\* What the worker reads when the session reports n: it is sent as Part{n} and
\* taken by toUint64().
Reported == [n \in 0 .. SeqNMod - 1 |-> ToUint(PartOf(n, SeqNSize), SeqNSize)]

\* seqNumber(): the last reported number, if any, replaces the known one.
SeqNumber == IF slot = NoSeq THEN seqNum ELSE Reported[slot]

WInit ==
    /\ Init
    /\ seqNum = InitSequence /\ slot = NoSeq
    /\ confPart = PartOf(InitSequence, SeqNSize) /\ sessionSeq = InitSequence
    /\ lastSent = InitSequence

\* prepareConfiguration() as start() calls it, before it sends Start.
PrepareConfiguration ==
    /\ StartSends
    /\ seqNum' = SeqNumber
    /\ slot' = NoSeq
    /\ confPart' = PartOf(SeqNumber, SeqNSize)
    /\ UNCHANGED <<sessionSeq, lastSent>>

\* seqNumber() called by the user of the worker.
ReadSeqNumber ==
    /\ main = "idle" /\ slot # NoSeq
    /\ seqNum' = SeqNumber
    /\ slot' = NoSeq
    /\ UNCHANGED <<vars, confPart, sessionSeq, lastSent>>

\* Variant: every session counts from the beginning.
SaveConfiguration_Restarts ==
    /\ sessionSeq' = InitSequence
    /\ UNCHANGED <<seqNum, slot, confPart, lastSent>>

\* saveConfiguration() in the session, on Start.
SaveConfiguration ==
    /\ sessionSeq' = Number(confPart)
    /\ UNCHANGED <<seqNum, slot, confPart, lastSent>>

\* operationReady() on Dispatch: ++seqNum_, notifySequenceNumber(), then the
\* topic is sent, unless the socket throws.
Dispatch ==
    /\ sessionSeq # MaxSeq
    /\ sessionSeq' = (sessionSeq + 1) % SeqNMod
    /\ slot' = sessionSeq'
    /\ lastSent' \in {lastSent, sessionSeq'}
    /\ UNCHANGED <<seqNum, confPart>>

\* The other operations, and the discarded ones, leave the number alone.
OperationReady(s) ==
    IF ~IsMine(s, Head(ops)) THEN UNCHANGED seqVars ELSE
    CASE Head(ops).type = "Start" -> SaveConfiguration
      [] Head(ops).type = "Work"  -> Dispatch \/ UNCHANGED seqVars
      [] OTHER                    -> UNCHANGED seqVars

WExecute(s) == Execute(s) /\ OperationReady(s)

\* acceptTopic() on a topic of this worker, delivered or in a snapshot, with
\* a number ahead of the session's: an earlier process with the same uuid
\* used it.
OwnTopic(s) ==
    /\ s \in loops \ stuck /\ started = s
    /\ \E n \in sessionSeq + 1 .. MaxSeq :
         /\ sessionSeq' = n
         /\ slot' = n
    /\ UNCHANGED <<vars, seqNum, confPart, lastSent>>

WLoop == \E s \in loops : WExecute(s)
WFinish == \E s \in ending : SendFin(s) /\ UNCHANGED seqVars
WSession == WLoop \/ WFinish \/ \E s \in loops : Dies(s) /\ UNCHANGED seqVars

WNext ==
    \/ PrepareConfiguration \/ ReadSeqNumber \/ WSession
    \/ \E s \in loops : OwnTopic(s)
    \/ /\ Start \/ Query \/ StartThrows \/ Stop \/ Work \/ ReleaseFuture
          \/ WaitForStarted \/ ObserverTakes \/ ObserverStores
          \/ \E s \in loops : RecvBlocks(s) \/ RecvReturns(s)
       /\ UNCHANGED seqVars

WSpec == WInit /\ [][WNext]_wvars

\* The fairness of Runner, for the same steps.
WFairSpec ==
    WSpec /\ WF_wvars(PrepareConfiguration) /\ SF_wvars(WLoop) /\ WF_wvars(WFinish)

-----------------------------------------------------------------------------
\* Numbers go to the broker strictly increasing, over all the sessions.
SentIncreases == [][lastSent' # lastSent => lastSent' > lastSent]_wvars
=============================================================================
