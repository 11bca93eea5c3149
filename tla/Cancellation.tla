----------------------------- MODULE Cancellation -----------------------------
(***************************************************************************)
(* zmq::Cancellation, the second user of IOSteadyTimer: a single shot      *)
(* timer whose expiry is never read, so that a canceled object is readable *)
(* until its destruction.  The io thread, its handlers and the way an      *)
(* IOSteadyTimer is deleted are the ones of Timer, which is run besides.   *)
(* A deadline is set once in an object, as by every caller in the code:    *)
(* the IOSteadyTimer of another one still pending would be deleted while   *)
(* its handlers are queued.                                                *)
(***************************************************************************)
EXTENDS Timer

VARIABLE owner   \* what uses the IOSteadyTimer: a "Timer" or a "Cancellation"

lvars == <<timerVars, owner>>

LInit == TimerInit /\ owner \in {"Timer", "Cancellation"}

\* isCanceled(): the receiver is polled and not read.
IsCanceled == tick

\* setDeadline() or cancel(), that is start(): nothing once it is canceled.
SetDeadline ==
    /\ pc = "idle" /\ ~IsCanceled
    /\ Create
    /\ once'

\* ~Cancellation() with a timer: stop() up to its first wait.
CancDestroy == pc = "idle" /\ Cancel(FALSE)

\* The promise is kept; the sockets go with the object, and what follows is a
\* new one of the same name.
CancDestroyed ==
    /\ pc = "joining" /\ kept > 0
    /\ alive' = FALSE
    /\ pc' = "idle"
    /\ tick' = FALSE
    /\ UNCHANGED <<again, obj, once, expiry, waiting, kept, acked, io>>

LNext ==
    /\ UNCHANGED owner
    /\ \/ owner = "Timer" /\ (Start \/ Stop \/ Join \/ Consume)
       \/ owner = "Cancellation" /\ ((~alive /\ SetDeadline) \/ CancDestroy \/ CancDestroyed)
       \/ Acked
       \/ Expire
       \/ RunHandler

LSpec == LInit /\ [][LNext]_lvars

\* Both threads run whenever they can, and time passes; nobody is obliged to
\* start, stop or read the timer.
LFairness ==
    /\ WF_lvars(Acked /\ UNCHANGED owner)
    /\ WF_lvars(UNCHANGED owner /\ (IF owner = "Timer" THEN Join ELSE CancDestroyed))
    /\ WF_lvars(Expire /\ UNCHANGED owner)
    /\ WF_lvars(RunHandler /\ UNCHANGED owner)

LFairSpec == LSpec /\ LFairness
=============================================================================
