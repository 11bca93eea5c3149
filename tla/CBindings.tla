------------------------------ MODULE CBindings ------------------------------
(***************************************************************************)
(* The C bindings of a worker and of a broker: a CWorkerD or a CBrokerD    *)
(* keeps the object and the future of its last session, which C++ callers  *)
(* keep themselves.  The functions are those of Runner, and of Worker for  *)
(* a worker; what they add is the life of that future, from start() to     *)
(* wait() or delete().  A broker has no numbers and sends no events.       *)
(***************************************************************************)
EXTENDS Worker

VARIABLES
    kind,      \* which of the two the object is
    cobj       \* the object: "alive", "deleting" or "gone"

bvars == <<wvars, kind, cobj>>

BInit == WInit /\ kind \in {"worker", "broker"} /\ cobj = "alive"

\* Another thread in isRunning(), of either.
Observers == (ObserverTakes \/ ObserverStores) /\ UNCHANGED seqVars

-----------------------------------------------------------------------------
(* A worker.                                                               *)

\* start(), which is nothing when running and lets its exception through; the
\* future before it, if any, makes start() throw, so there is none to wait for.
CWorker_start == (Start \/ StartThrows) /\ UNCHANGED seqVars
CWorker_stop == Stop /\ UNCHANGED seqVars
CWorker_wait == ReleaseFuture /\ UNCHANGED seqVars
CWorker_isRunning == Query /\ UNCHANGED seqVars
CWorker_seqNum == ReadSeqNumber
CWorker_dispatch == Work /\ UNCHANGED seqVars
CWorker_waitForStarted == WaitForStarted /\ UNCHANGED seqVars

CWorker ==
    \/ CWorker_start \/ PrepareConfiguration \/ CWorker_stop \/ CWorker_wait
    \/ CWorker_isRunning \/ CWorker_seqNum \/ CWorker_dispatch \/ CWorker_waitForStarted

-----------------------------------------------------------------------------
(* A broker.                                                               *)

CBroker_start == Start \/ StartThrows
CBroker_stop == Stop
CBroker_wait == ReleaseFuture
CBroker_isRunning == Query

\* Broker::prepareConfiguration() has no number to read.
CBroker ==
    /\ CBroker_start \/ StartSends \/ CBroker_stop \/ CBroker_wait \/ CBroker_isRunning
    /\ UNCHANGED seqVars

\* The loop of run() over BrokerSession::operationReady(): saveConfiguration()
\* and openSockets() on Start, which may throw, closeSockets() on Stop.
BrokerExecute(s) ==
    /\ s \in loops /\ ops # <<>>
    /\ ops' = Tail(ops)
    /\ IF IsMine(s, Head(ops))
       THEN /\ started' = IF Head(ops).type = "Start" THEN s ELSE started
            /\ \/ Head(ops).type # "Stop" /\ UNCHANGED <<loops, ending>>
               \/ loops' = loops \ {s} /\ ending' = ending \cup {s}
       ELSE UNCHANGED <<started, loops, ending>>
    /\ UNCHANGED <<gen, token, running, main, evs, fin, taken, held, stuck>>

BrokerLoop == (\E s \in loops : BrokerExecute(s)) /\ UNCHANGED seqVars
BrokerThread == BrokerLoop \/ WFinish \/ \E s \in loops : Dies(s) /\ UNCHANGED seqVars

-----------------------------------------------------------------------------
(* Either.                                                                 *)

\* The session's thread knows nothing of the bindings.
Thread == IF kind = "worker" THEN WSession ELSE BrokerThread

\* A worker's session held up in a receive.  A broker never opens its sockets again,
\* so that what is ready in a batch stays so.
Receives == \E s \in loops : RecvBlocks(s) \/ RecvReturns(s)

\* Members are destroyed from the last to the first: the event of a worker, the
\* future, which waits for the session, then the object, whose stop() finds it
\* ended.  Nobody else uses it any more.
CObject_delete ==
    /\ cobj = "alive"
    /\ main = "idle" /\ taken = NoId
    /\ cobj' = "deleting"
    /\ UNCHANGED <<wvars, kind>>

\* Variant: the future does not wait, as one that is not of std::async().
MembersDestroyed_NoWait ==
    /\ cobj = "deleting"
    /\ cobj' = "gone"
    /\ held' = {}
    /\ PollFin
    /\ ops' = IF IsRunning THEN Append(ops, [id |-> Me, type |-> "Stop"]) ELSE ops
    /\ UNCHANGED <<gen, token, main, evs, taken, loops, ending, started, stuck, seqVars, kind>>

MembersDestroyed ==
    /\ cobj = "deleting"
    /\ held \cap Live = {}
    /\ cobj' = "gone"
    /\ held' = {}
    /\ PollFin
    /\ ops' = IF IsRunning THEN Append(ops, [id |-> Me, type |-> "Stop"]) ELSE ops
    /\ UNCHANGED <<gen, token, main, evs, taken, loops, ending, started, stuck, seqVars, kind>>

\* With sockets and counters of its own.
New ==
    /\ cobj = "gone"
    /\ cobj' = "alive"
    /\ gen' = 0 /\ token' = 0 /\ running' = FALSE /\ main' = "idle"
    /\ ops' = <<>> /\ evs' = <<>> /\ fin' = NoId /\ taken' = NoId
    /\ loops' = {} /\ ending' = {} /\ held' = {} /\ started' = NoId /\ stuck' = {}
    /\ seqNum' = InitSequence /\ slot' = NoSeq
    /\ confPart' = PartOf(InitSequence, SeqNSize) /\ sessionSeq' = InitSequence
    /\ lastSent' = InitSequence

CWorker_new == New /\ kind' = "worker"
CBroker_new == New /\ kind' = "broker"

BNext ==
    \/ /\ cobj = "alive"
       /\ Observers \/ (kind = "worker" /\ CWorker) \/ (kind = "broker" /\ CBroker)
       /\ UNCHANGED <<kind, cobj>>
    \/ Thread /\ UNCHANGED <<kind, cobj>>
    \/ kind = "worker" /\ (\E s \in loops : OwnTopic(s)) /\ UNCHANGED <<kind, cobj>>
    \/ kind = "worker" /\ Receives /\ UNCHANGED <<seqVars, kind, cobj>>
    \/ CObject_delete
    \/ MembersDestroyed
    \/ CWorker_new \/ CBroker_new

BSpec == BInit /\ [][BNext]_bvars

\* start() goes on once it has spawned the thread.
Prepared == IF kind = "worker" THEN PrepareConfiguration ELSE StartSends /\ UNCHANGED seqVars

\* A turn of the loop of either session.
Loop == IF kind = "worker" THEN WLoop ELSE BrokerLoop

\* As in Worker, and the thread inside delete() goes on.
BFairSpec ==
    /\ BSpec
    /\ WF_bvars(Prepared /\ UNCHANGED <<kind, cobj>>)
    /\ SF_bvars(Loop /\ UNCHANGED <<kind, cobj>>)
    /\ WF_bvars(WFinish /\ UNCHANGED <<kind, cobj>>)
    /\ WF_bvars(MembersDestroyed)

-----------------------------------------------------------------------------
\* The Stop operation of the current session is on its way.
StopPending == \E i \in DOMAIN ops : ops[i] = [id |-> Me, type |-> "Stop"]

\* CWorker_delete() and CBroker_delete() return when stop() came before them or
\* the session ended by itself, and leave no session behind.  They do not stop
\* a session by themselves: the future goes before the object.  What they wait for
\* is the session, so that one in a receive that never returns is waited for
\* for ever.
DeleteReturns ==
    /\ cobj = "deleting" /\ (loops = {} \/ StopPending)
           ~> (cobj # "deleting" \/ [](stuck # {}))
    /\ [](cobj = "gone" => Live = {} /\ ~running)

\* Numbers go to the broker strictly increasing over the sessions of a worker,
\* whichever session sent them and however it ended: nothing dispatched is
\* discarded there as already seen.
NumbersIncrease == [][cobj = "alive" /\ lastSent' # lastSent => lastSent' > lastSent]_bvars
=============================================================================
