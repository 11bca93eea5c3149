----------------------------- MODULE ConnMachine -----------------------------
(***************************************************************************)
(* The state machine that keeps a worker connected.  Its two timers behave *)
(* as TimerSpec says; its callbacks close and open the sockets, send an    *)
(* announce (doPong_) and report a change of state (onChange_).            *)
(***************************************************************************)
EXTENDS Sequences

VARIABLES
    state,      \* state_
    sock,       \* whether the sockets behind doOpen_ and doClose_ are open
    tryArmed, tryTick,   \* timerTry_, periodic
    tmoArmed, tmoTick,   \* timerTmo_, single shot
    calls       \* the callbacks made by the last step, in order

vars == <<state, sock, tryArmed, tryTick, tmoArmed, tmoTick, calls>>

Try == INSTANCE TimerSpec WITH once <- FALSE, armed <- tryArmed, tick <- tryTick
Tmo == INSTANCE TimerSpec WITH once <- TRUE, armed <- tmoArmed, tick <- tmoTick

States == {"Halted", "Trying", "Stable"}
Callbacks == {"close", "open", "pong", "change"}

\* change(): onChange_ is called only when the state differs.
Change(s) == IF state = s THEN <<>> ELSE <<"change">>

\* The constructor ends in halt(), which closes the sockets.
Init ==
    /\ state = "Halted" /\ sock = FALSE
    /\ Try!TInit /\ Tmo!TInit
    /\ calls = <<"close">>

\* Variant: the timeout is not started.
Trigger_NoTimeout ==
    /\ state' = "Trying"
    /\ sock' = TRUE
    /\ Try!TStart
    /\ tmoArmed' = tmoArmed
    /\ calls' = Change("Trying") \o <<"close", "open", "pong">>

\* trigger(), from onStart() and onTimerTimeoutFired(); the latter has just
\* consumed the expiry of timerTmo_.
Trigger ==
    /\ state' = "Trying"
    /\ sock' = TRUE
    /\ Try!TStart
    /\ tmoArmed' = TRUE
    /\ calls' = Change("Trying") \o <<"close", "open", "pong">>

OnStart ==
    /\ state = "Halted"
    /\ Trigger
    /\ tmoTick' = tmoTick

\* halt() as onStop() calls it: the sockets are closed, then change().
Halt ==
    /\ state' = "Halted"
    /\ sock' = FALSE
    /\ Try!TStop /\ Tmo!TStop
    /\ calls' = <<"close", "change">>

OnStop == state # "Halted" /\ Halt

OnPing ==
    /\ state # "Halted"
    /\ state' = "Stable"
    /\ Try!TStop /\ Tmo!TStart
    /\ calls' = Change("Stable") \o <<"pong">>
    /\ UNCHANGED sock

\* The pollers call it when the timer is readable.
OnTimerRetryFired ==
    /\ Try!TConsume
    /\ calls' = IF state = "Trying" THEN <<"pong">> ELSE <<>>
    /\ UNCHANGED <<state, sock, tmoArmed, tmoTick>>

\* Variant: the timeout is consumed, and forgotten in Stable.
OnTimerTimeoutFired_Forgets ==
    /\ tmoTick /\ tmoTick' = FALSE
    /\ IF state # "Trying"
       THEN calls' = <<>> /\ UNCHANGED <<state, sock, tryArmed, tryTick, tmoArmed>>
       ELSE Trigger

OnTimerTimeoutFired ==
    /\ tmoTick /\ tmoTick' = FALSE
    /\ IF state = "Halted"
       THEN calls' = <<>> /\ UNCHANGED <<state, sock, tryArmed, tryTick, tmoArmed>>
       ELSE Trigger

\* The timers expire in the ASIO thread.
RetryExpires ==
    /\ Try!TFire
    /\ calls' = <<>>
    /\ UNCHANGED <<state, sock, tmoArmed, tmoTick>>

TimeoutExpires ==
    /\ Tmo!TFire
    /\ calls' = <<>>
    /\ UNCHANGED <<state, sock, tryArmed, tryTick>>

Next ==
    \/ OnStart \/ OnStop \/ OnPing \/ OnTimerRetryFired \/ OnTimerTimeoutFired
    \/ RetryExpires \/ TimeoutExpires

Spec == Init /\ [][Next]_vars

-----------------------------------------------------------------------------
\* The state, the sockets, both timers and the callbacks of ConnMachine are
\* what its members can hold.
TypeOK ==
    /\ state \in States /\ sock \in BOOLEAN
    /\ tryArmed \in BOOLEAN /\ tryTick \in BOOLEAN
    /\ tmoArmed \in BOOLEAN /\ tmoTick \in BOOLEAN
    /\ calls \in Seq(Callbacks)

\* The sockets are open exactly when the machine is not halted, so doPong_
\* never sends on a closed socket, whichever stale expiry is handled when.
SocketsFollow ==
    /\ sock <=> state # "Halted"
    /\ (\E i \in DOMAIN calls : calls[i] = "pong") => sock

\* timerRetry() is active exactly in Trying.  Not halted, there is always a
\* timeout to come or to be handled: a silent peer cannot go unnoticed.
\* Halted, nothing is going to expire.
TimersFollow ==
    /\ tryArmed <=> state = "Trying"
    /\ IF state = "Halted" THEN ~tmoArmed ELSE tmoArmed \/ tmoTick
=============================================================================
