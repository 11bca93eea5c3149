------------------------------ MODULE TimerSpec ------------------------------
(***************************************************************************)
(* What a zmq::Timer promises to the thread that owns it, and what the     *)
(* state machines rely on.  An armed timer may expire, which makes it      *)
(* readable, once or, when periodic, until it is stopped.  Stopping only   *)
(* prevents further expiries: one that was not consumed stays readable,    *)
(* also across a restart.                                                  *)
(***************************************************************************)
VARIABLES
    once,    \* the timer is single shot
    armed,   \* it may expire
    tick     \* it is readable

tvars == <<armed, tick>>

TInit == armed = FALSE /\ tick = FALSE

TStart == armed' = TRUE /\ tick' = tick

TStop == armed' = FALSE /\ tick' = tick

TFire == armed /\ tick' = TRUE /\ armed' = ~once

TConsume == tick /\ tick' = FALSE /\ armed' = armed

TNext == TStart \/ TStop \/ TFire \/ TConsume

TSpec == TInit /\ [][TNext]_tvars
=============================================================================
