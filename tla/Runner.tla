------------------------------- MODULE Runner -------------------------------
(***************************************************************************)
(* Runner and Session: a caller starts and stops a background session      *)
(* thread and talks to it over inproc sockets that outlive every session.  *)
(*                                                                         *)
(*   zops_/zopr_    PAIR, operations, FIFO                     -> ops      *)
(*   zevs_/zevr_    RADIO/DISH, events, FIFO                   -> evs      *)
(*   zfins_/zfinr_  PUSH/PULL with ZMQ_CONFLATE, completion    -> fin      *)
(*                                                                         *)
(* Every session carries the 8 bit token_ that was current when it was     *)
(* created, and whatever crosses the sockets carries it too: that is the   *)
(* only thing which tells the traffic of two sessions apart.  The field    *)
(* gen is a ghost, the number of the start() call, never read by the code. *)
(***************************************************************************)
EXTENDS Naturals, Sequences

CONSTANTS
    TokenMod,      \* 2^8 in the code, SessionEnv::token_t is an uint8_t
    MaxStarts,     \* bound on the calls of start() that get to ++token_
    MaxOps,        \* bound on the operations waiting in zopr_ before a call
    FailingStarts  \* which calls of start() may fail: the caller still holds
                   \* the last future, or the session cannot create its poller

ASSUME RunnerAssumption ==
    /\ TokenMod \in Nat /\ TokenMod >= 2
    /\ MaxStarts \in Nat
    /\ MaxOps \in Nat
    /\ FailingStarts \subseteq Nat

VARIABLES
    gen,       \* ghost: how many sessions start() tried to create
    token,     \* Runner::token_
    running,   \* Runner::running_
    main,      \* where the caller is: idle, or inside start() ("spawned")
    ops,       \* operations in flight
    evs,       \* events not yet read by the caller
    fin,       \* the conflated completion message, or NoId
    taken,     \* the completion another thread is looking at, or NoId
    loops,     \* session threads inside the loop of Session::run()
    ending,    \* session threads that left it and have not sent completion
    held,      \* sessions kept alive by the future start() returned
    started,   \* ghost: the last session that executed its Start operation
    stuck      \* sessions whose thread is in a receive with nothing to receive

vars == <<gen, token, running, main, ops, evs, fin, taken, loops, ending,
          held, started, stuck>>

Tokens == 0 .. TokenMod - 1
Ids == [gen : Nat, tok : Tokens]
NoId == [gen |-> 0, tok |-> TokenMod]
OpTypes == {"Start", "Stop", "Work"}
EvTypes == {"Started", "Stopped"}
Ops == [id : Ids, type : OpTypes]
Evs == [id : Ids, type : EvTypes]

Me == [gen |-> gen, tok |-> token]
Live == loops \cup ending

-----------------------------------------------------------------------------
(* The caller's thread.                                                    *)

\* ++token_ on an uint8_t.
NextToken == IF token = TokenMod - 1 THEN 0 ELSE token + 1

\* What isRunning() returns: a completion with the current token clears running_.
IsRunning == running /\ fin.tok # token

\* The effect of a call of isRunning(): the completion is taken off zfinr_.
PollFin ==
    /\ fin' = NoId
    /\ running' = IsRunning

Init ==
    /\ gen = 0 /\ token = 0 /\ running = FALSE /\ main = "idle"
    /\ ops = <<>> /\ evs = <<>> /\ fin = NoId /\ taken = NoId
    /\ loops = {} /\ ending = {} /\ held = {} /\ started = NoId /\ stuck = {}

\* start() up to std::async: the session is created and its thread runs.
Start ==
    /\ main = "idle" /\ ~IsRunning /\ gen < MaxStarts
    /\ held = {} /\ Len(ops) < MaxOps
    /\ gen' = gen + 1
    /\ token' = NextToken
    /\ running' = TRUE
    /\ fin' = NoId
    /\ main' = "spawned"
    /\ loops' = loops \cup {Me'}
    /\ held' = {Me'}
    /\ UNCHANGED <<ops, evs, taken, ending, started, stuck>>

\* isRunning(), or start() when it returns an empty future because of it.
Query ==
    /\ main = "idle"
    /\ PollFin
    /\ UNCHANGED <<gen, token, main, ops, evs, taken, loops, ending, held,
                   started, stuck>>

\* createSession() throws: the timers of a session the caller still holds the
\* future of keep their inproc names bound.  The scope exit clears running_.
StartThrows ==
    /\ gen + 1 \in FailingStarts
    /\ main = "idle" /\ ~IsRunning /\ gen < MaxStarts
    /\ held # {}
    /\ gen' = gen + 1
    /\ token' = NextToken
    /\ running' = FALSE
    /\ fin' = NoId
    /\ UNCHANGED <<main, ops, evs, taken, loops, ending, held, started, stuck>>

\* sendOperation() puts an operation marked with the current token in zops_.
SendOperation(type) == ops' = Append(ops, [id |-> Me, type |-> type])

\* start() after std::async: the configuration is sent to the new session.
StartSends ==
    /\ main = "spawned"
    /\ main' = "idle"
    /\ SendOperation("Start")
    /\ UNCHANGED <<gen, token, running, evs, fin, taken, loops, ending, held,
                   started, stuck>>

\* stop(), Worker::dispatch() and Worker::sync(): nothing unless isRunning().
Request(type) ==
    /\ main = "idle"
    /\ PollFin
    /\ IF IsRunning THEN Len(ops) < MaxOps /\ SendOperation(type)
                    ELSE ops' = ops
    /\ UNCHANGED <<gen, token, main, evs, taken, loops, ending, held,
                   started, stuck>>

Stop == Request("Stop")
Work == Request("Work")

\* The future is read or dropped, either waits for the thread; its session
\* is destroyed with it.
ReleaseFuture ==
    /\ main = "idle"
    /\ held # {} /\ held \cap Live = {}
    /\ held' = {}
    /\ UNCHANGED <<gen, token, running, main, ops, evs, fin, taken, loops,
                   ending, started, stuck>>

\* Worker::waitForStarted(): events are dropped up to the first Started one,
\* whatever notification recvEvent() gave it.
WaitForStarted ==
    /\ main = "idle"
    /\ \E i \in 1 .. Len(evs) :
         /\ evs[i].type = "Started"
         /\ \A j \in 1 .. i - 1 : evs[j].type # "Started"
         /\ evs' = SubSeq(evs, i + 1, Len(evs))
    /\ UNCHANGED <<gen, token, running, main, ops, fin, taken, loops, ending,
                   held, started, stuck>>

-----------------------------------------------------------------------------
(* Another thread calling isRunning(), documented as thread-safe: it takes *)
(* the completion, and compares it and clears running_ in a later step.    *)

ObserverTakes ==
    /\ taken = NoId /\ fin # NoId
    /\ taken' = fin
    /\ fin' = NoId
    /\ UNCHANGED <<gen, token, running, main, ops, evs, loops, ending, held,
                   started, stuck>>

ObserverStores ==
    /\ taken # NoId
    /\ taken' = NoId
    /\ running' = IF taken.tok = token THEN FALSE ELSE running
    /\ UNCHANGED <<gen, token, main, ops, evs, fin, loops, ending, held,
                   started, stuck>>

-----------------------------------------------------------------------------
(* The session's thread.                                                   *)

\* sendEvent() of the events a WorkerSession sends on Start and on Stop.
EventOf(s, type) ==
    CASE type = "Start" -> Append(evs, [id |-> s, type |-> "Started"])
      [] type = "Stop"  -> Append(evs, [id |-> s, type |-> "Stopped"])
      [] OTHER          -> evs

\* Variant: operations are not filtered.
IsMine_Any(s, op) == TRUE

\* recvOperation() compares the token that came with the operation.
IsMine(s, op) == op.id.tok = s.tok

\* Variant: Stop does not leave the loop.
Execute_NoBreak(s) ==
    /\ s \in loops \ stuck /\ ops # <<>>
    /\ ops' = Tail(ops)
    /\ IF IsMine(s, Head(ops))
       THEN /\ started' = IF Head(ops).type = "Start" THEN s ELSE started
            /\ evs' = EventOf(s, Head(ops).type)
       ELSE UNCHANGED <<started, evs>>
    /\ UNCHANGED <<gen, token, running, main, fin, taken, loops, ending, held, stuck>>

\* One turn of the loop of run() on zopr_.  operationReady() may throw, and
\* Stop leaves the loop; an operation with another token is only discarded.
Execute(s) ==
    /\ s \in loops \ stuck /\ ops # <<>>
    /\ ops' = Tail(ops)
    /\ IF IsMine(s, Head(ops))
       THEN /\ started' = IF Head(ops).type = "Start" THEN s ELSE started
            /\ \/ /\ evs' = EventOf(s, Head(ops).type)
                  /\ IF Head(ops).type = "Stop"
                     THEN loops' = loops \ {s} /\ ending' = ending \cup {s}
                     ELSE UNCHANGED <<loops, ending>>
               \/ /\ evs' \in {evs, EventOf(s, Head(ops).type)}
                  /\ loops' = loops \ {s} /\ ending' = ending \cup {s}
       ELSE UNCHANGED <<started, evs, loops, ending>>
    /\ UNCHANGED <<gen, token, running, main, fin, taken, held, stuck>>

\* socketReady() throws, which needs an open socket or an active timer, that
\* is a started session; createPoller() may throw earlier.
Dies(s) ==
    /\ s \in loops \ stuck
    /\ started = s \/ s.gen \in FailingStarts
    /\ loops' = loops \ {s}
    /\ ending' = ending \cup {s}
    /\ UNCHANGED <<gen, token, running, main, ops, evs, fin, taken, held,
                   started, stuck>>

\* WorkerSession::socketReady() receives from a network socket that was ready
\* when the batch was polled, and that a timeout of the same batch has closed and
\* opened again since: the receive waits (module WorkerSession shows when) ...
RecvBlocks(s) ==
    /\ s \in loops \ stuck
    /\ started = s
    /\ stuck' = stuck \cup {s}
    /\ UNCHANGED <<gen, token, running, main, ops, evs, fin, taken, loops, ending,
                   held, started>>

\* ... until the broker sends something to it, if it ever does.
RecvReturns(s) ==
    /\ s \in stuck
    /\ stuck' = stuck \ {s}
    /\ UNCHANGED <<gen, token, running, main, ops, evs, fin, taken, loops, ending,
                   held, started>>

\* Variant: the completion is sent when the thread has still work to do.
SendFin_Early(s) ==
    /\ s \in ending
    /\ fin' = s
    /\ UNCHANGED <<gen, token, running, main, ops, evs, taken, loops, ending, held,
                   started, stuck>>

\* The scope exit of run(), after the poller is destroyed.
SendFin(s) ==
    /\ s \in ending
    /\ ending' = ending \ {s}
    /\ fin' = s
    /\ UNCHANGED <<gen, token, running, main, ops, evs, taken, loops, held,
                   started, stuck>>

-----------------------------------------------------------------------------
Session == \/ \E s \in loops : Execute(s) \/ Dies(s)
           \/ \E s \in ending : SendFin(s)

Next ==
    \/ Start \/ Query \/ StartThrows \/ StartSends \/ Stop \/ Work
    \/ ReleaseFuture \/ WaitForStarted
    \/ ObserverTakes \/ ObserverStores
    \/ Session
    \/ \E s \in loops : RecvBlocks(s) \/ RecvReturns(s)

Spec == Init /\ [][Next]_vars

\* A thread that can run does: the caller inside start(), and the session's one
\* when it is not in a receive that waits.  Its loop has strong fairness: however
\* often a receive held the thread up, the batch it polls next has zopr_ in it if
\* an operation is there.  Nothing obliges a caller to make any call, a session to
\* fail, nor a broker to send what a receive waits for.
Fairness ==
    /\ WF_vars(StartSends)
    /\ SF_vars(\E s \in loops : Execute(s))
    /\ WF_vars(\E s \in ending : SendFin(s))

FairSpec == Spec /\ Fairness

-----------------------------------------------------------------------------
\* The members of Runner, its session thread and the messages between them are
\* what the code can put there.
TypeOK ==
    /\ gen \in Nat /\ token \in Tokens
    /\ running \in BOOLEAN /\ main \in {"idle", "spawned"}
    /\ ops \in Seq(Ops) /\ evs \in Seq(Evs)
    /\ fin \in Ids \cup {NoId} /\ taken \in Ids \cup {NoId}
    /\ loops \in SUBSET Ids /\ ending \in SUBSET Ids
    /\ held \in SUBSET Ids /\ started \in Ids \cup {NoId}
    /\ stuck \in SUBSET Ids

\* At most one session thread exists, the one of the last start(), and as long
\* as it exists isRunning() is true: start() never runs two sessions over the
\* shared sockets, even while another thread is inside isRunning().
ExclusiveSession ==
    /\ Live \subseteq {Me}
    /\ Live # {} => IsRunning

\* recvOperation() lets through only operations sent to this very session: a
\* token match is never with the leftover of an earlier session.
OwnOperations ==
    \A s \in loops :
        ops # <<>> /\ IsMine(s, Head(ops)) => Head(ops).id = s

\* A session executes its Start, which carries the configuration, before any
\* other operation sent to it.
StartFirst ==
    \A s \in loops :
        ops # <<>> /\ Head(ops).id = s /\ Head(ops).type # "Start"
            => started = s

\* Events reach the caller in the order of the sessions, at most one Started
\* for each, and nothing from a session follows its Stopped.
EventOrder ==
    \A i, j \in 1 .. Len(evs) : i < j =>
        \/ evs[i].id.gen < evs[j].id.gen
        \/ evs[i].id = evs[j].id /\ evs[i].type = "Started"
                                 /\ evs[j].type = "Stopped"

\* Once stop() has sent its operation the session thread ends, whatever is in the
\* queue before it and however often receives hold the thread up; only a receive
\* that never returns keeps it from that.
StopEndsSession ==
    (\E i \in DOMAIN ops : ops[i] = [id |-> Me, type |-> "Stop"])
        ~> (Live = {} \/ [](stuck # {}))
=============================================================================
