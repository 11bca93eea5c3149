-------------------------------- MODULE Timer --------------------------------
(***************************************************************************)
(* zmq::Timer over IOSteadyTimer: the owner's thread posts handlers to the *)
(* thread that runs the ASIO context, and deletes the IOSteadyTimer once   *)
(* the promise in it is fulfilled.  start() and stop() block in two steps, *)
(* on the acknowledge of the cancel and on that promise.                   *)
(***************************************************************************)
EXTENDS Naturals, Sequences

CONSTANT MaxObjects   \* the IOSteadyTimer objects told apart, then reused

ASSUME TimerAssumption == MaxObjects \in Nat \ {0}

VARIABLES
    pc,        \* the owner: idle, or waiting in stop() ("acking", "joining")
    again,     \* whether stop() was called by start()
    obj,       \* ghost: which IOSteadyTimer was created last
    alive,     \* timer_ is not null
    once,      \* its singleshot, copied from Timer::singleshot_
    expiry,    \* its deadline: not set, in the future or past, or min()
    waiting,   \* the object with an async_wait() outstanding, or 0
    kept,      \* how often cancelPromise was fulfilled
    acked,     \* ackPromise is fulfilled
    io,        \* handlers queued in the ASIO context, FIFO
    tick       \* receiver_ is readable (ZMQ_CONFLATE keeps one message)

timerVars == <<pc, again, obj, alive, once, expiry, waiting, kept, acked, io, tick>>

Handlers == {"timerStart", "timerCancel", "timerFired", "timerAborted"}
Post(what) == io' = Append(io, [obj |-> obj, what |-> what])

TimerInit ==
    /\ pc = "idle" /\ again = FALSE /\ obj = 0 /\ alive = FALSE
    /\ once = FALSE
    /\ expiry = "unset" /\ waiting = 0 /\ kept = 0 /\ acked = FALSE
    /\ io = <<>> /\ tick = FALSE

-----------------------------------------------------------------------------
(* The owner's thread.                                                     *)

NextObj == IF obj = MaxObjects THEN 1 ELSE obj + 1

\* start() after its stop(): a new IOSteadyTimer, as the last setSingleShot()
\* wanted it, and postTimerStart().
Create ==
    /\ obj' = NextObj
    /\ alive' = TRUE
    /\ once' \in BOOLEAN
    /\ expiry' = "unset"
    /\ kept' = 0
    /\ io' = Append(io, [obj |-> NextObj, what |-> "timerStart"])
    /\ pc' = "idle"
    /\ UNCHANGED <<again, waiting, acked, tick>>

\* stop() up to the wait in postTimerCancel().
Cancel(byStart) ==
    /\ alive
    /\ Post("timerCancel")
    /\ pc' = "acking"
    /\ again' = byStart
    /\ acked' = FALSE
    /\ UNCHANGED <<obj, alive, once, expiry, waiting, kept, tick>>

Start ==
    /\ pc = "idle"
    /\ IF alive THEN Cancel(TRUE) ELSE Create

Stop == pc = "idle" /\ Cancel(FALSE)

Acked ==
    /\ pc = "acking" /\ acked
    /\ pc' = "joining"
    /\ UNCHANGED <<again, obj, alive, once, expiry, waiting, kept, acked, io, tick>>

\* Variant: the object is deleted without waiting for its promise.
Join_NoWait ==
    /\ pc = "joining"
    /\ IF again THEN Create
       ELSE /\ alive' = FALSE
            /\ pc' = "idle"
            /\ UNCHANGED <<again, obj, once, expiry, waiting, kept, acked, io, tick>>

\* cancelFuture_.get() and timer_.reset(), which deletes the object.
Join ==
    /\ pc = "joining" /\ kept > 0
    /\ IF again THEN Create
       ELSE /\ alive' = FALSE
            /\ pc' = "idle"
            /\ UNCHANGED <<again, obj, once, expiry, waiting, kept, acked, io, tick>>

\* consume(), which the owner calls when the timer is readable.
Consume ==
    /\ pc = "idle" /\ tick
    /\ tick' = FALSE
    /\ UNCHANGED <<pc, again, obj, alive, once, expiry, waiting, kept, acked, io>>

-----------------------------------------------------------------------------
(* The thread of the ASIO context.                                         *)

\* The deadline passes: the wait completes and its handler is queued.
Expire ==
    /\ waiting # 0
    /\ waiting' = 0
    /\ Post("timerFired")
    /\ UNCHANGED <<pc, again, obj, alive, once, expiry, kept, acked, tick>>

\* Variant: there is no async_wait().
TimerStart_NoWait(h) ==
    /\ expiry' = "set"
    /\ io' = Tail(io)
    /\ UNCHANGED <<waiting, kept, acked, tick>>

TimerStart(h) ==
    /\ expiry' = "set"
    /\ waiting' = h.obj
    /\ io' = Tail(io)
    /\ UNCHANGED <<kept, acked, tick>>

\* Setting the deadline aborts an outstanding wait; a handler that was queued
\* already is not recalled.
TimerCancel(h) ==
    /\ expiry' = "min"
    /\ acked' = TRUE
    /\ waiting' = 0
    /\ io' = IF waiting = 0 THEN Tail(io)
             ELSE Append(Tail(io), [obj |-> waiting, what |-> "timerAborted"])
    /\ UNCHANGED <<kept, tick>>

\* timerFired() with an error code: only the promise is fulfilled.
TimerAborted(h) ==
    /\ kept' = kept + 1
    /\ io' = Tail(io)
    /\ UNCHANGED <<expiry, waiting, acked, tick>>

\* Variant: a cancel that overtook the expiry is not noticed.
TimerFired_Late(h) ==
    /\ io' = Tail(io)
    /\ tick' = TRUE
    /\ IF once \/ expiry = "min"
       THEN kept' = kept + 1 /\ UNCHANGED <<expiry, waiting>>
       ELSE expiry' = "set" /\ waiting' = h.obj /\ UNCHANGED kept
    /\ UNCHANGED acked

\* timerFired() without one.
TimerFired(h) ==
    /\ io' = Tail(io)
    /\ IF expiry = "min"
       THEN kept' = kept + 1 /\ UNCHANGED <<expiry, waiting, tick>>
       ELSE /\ tick' = TRUE
            /\ IF once
               THEN kept' = kept + 1 /\ UNCHANGED <<expiry, waiting>>
               ELSE expiry' = "set" /\ waiting' = h.obj /\ UNCHANGED kept
    /\ UNCHANGED acked

RunHandler ==
    /\ io # <<>>
    /\ LET h == Head(io) IN
         \/ h.what = "timerStart" /\ TimerStart(h)
         \/ h.what = "timerCancel" /\ TimerCancel(h)
         \/ h.what = "timerAborted" /\ TimerAborted(h)
         \/ h.what = "timerFired" /\ TimerFired(h)
    /\ UNCHANGED <<pc, again, obj, alive, once>>

-----------------------------------------------------------------------------
\* isActive(): there is a future and it is not ready.
IsActive == alive /\ kept = 0

\* The timer can still expire: it is to be started, it waits, or its handler
\* is queued and has not been overtaken by a cancel.
Armed ==
    \/ \E i \in DOMAIN io : io[i].what = "timerStart"
    \/ waiting # 0
    \/ expiry # "min" /\ \E i \in DOMAIN io : io[i].what = "timerFired"

\* No handler and no wait refers to a deleted IOSteadyTimer: timer_.reset()
\* comes after the last access from the other thread; and set_value(), which
\* throws when the promise is kept already, is called once in an object.
NoDangling ==
    /\ kept <= 1
    /\ \A i \in DOMAIN io : alive /\ io[i].obj = obj
    /\ waiting # 0 => alive /\ waiting = obj

\* stop(), and start() that begins with one, return; and a timer that its owner
\* sees active expires, unless it is stopped or started again: the broker, which
\* starts zhugz_ only when it is not active, is never left without it.
TimerProgress ==
    /\ pc # "idle" ~> pc = "idle"
    /\ pc = "idle" /\ IsActive ~> tick \/ pc # "idle"

Abstract == INSTANCE TimerSpec WITH armed <- Armed

\* The two threads implement the abstract timer: no expiry after stop(), one
\* expiry for each start() of a single shot timer, and none is taken back.
Implements == Abstract!TSpec
=============================================================================
