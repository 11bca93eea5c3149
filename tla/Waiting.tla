------------------------------- MODULE Waiting -------------------------------
(***************************************************************************)
(* Runner::waitForEvent() and the waitFor functions of Worker, called by   *)
(* several threads at once.  With a timeout each call makes a Cancellation *)
(* of its own, whose inproc name is the same in every call; without one    *)
(* the caller brings a Pollable.  The threads poll the one socket of the   *)
(* runner's events.                                                        *)
(***************************************************************************)
EXTENDS Naturals, Sequences

CONSTANTS
    Callers,    \* threads that call waitForEvent()
    Types,      \* types of events
    Matches,    \* the sets of types a call may wait for
    MaxQueue    \* bound: the events queued at once

ASSUME WaitingAssumption ==
    /\ Matches \subseteq SUBSET Types
    /\ Types \cap {"none", "throws", "Timeout"} = {}
    /\ MaxQueue \in Nat

VARIABLES
    queue,     \* the events in zevr_
    at,        \* where a thread is: "idle", "binding", "polling", "serving"
    match,     \* the types it waits for
    limit,     \* its "own" deadline or none ("endless"), or a "given" Pollable
    due,       \* its Cancellation is readable
    batch,     \* the ready items of PollerWaiter still to be looked at
    result,    \* what its last call gave: an event, "Timeout" or "throws"
    name       \* of the Cancellation: "free", "bound", or "closing"

nvars == <<queue, at, match, limit, due, batch, result, name>>

NInit ==
    /\ queue = <<>>
    /\ at = [t \in Callers |-> "idle"]
    /\ match = [t \in Callers |-> {}]
    /\ limit = [t \in Callers |-> "none"]
    /\ due = [t \in Callers |-> FALSE]
    /\ batch = [t \in Callers |-> <<>>]
    /\ result = [t \in Callers |-> "none"]
    /\ name = "free"

\* The session sends an event.
Notify(e) ==
    /\ Len(queue) < MaxQueue
    /\ queue' = Append(queue, e)
    /\ UNCHANGED <<at, match, limit, due, batch, result, name>>

-----------------------------------------------------------------------------
\* waitForEvent(timeout), negative or not, or waitForEvent(pollable).
Call(t, m, l) ==
    /\ at[t] = "idle"
    /\ match' = [match EXCEPT ![t] = m]
    /\ limit' = [limit EXCEPT ![t] = l]
    /\ at' = [at EXCEPT ![t] = IF l = "given" THEN "polling" ELSE "binding"]
    /\ result' = [result EXCEPT ![t] = "none"]
    /\ UNCHANGED <<queue, due, batch, name>>

\* The constructor of Cancellation binds its name, or gives up when the name
\* is in use for as long as bind() tries, five seconds.
Bind(t) ==
    /\ at[t] = "binding" /\ name = "free"
    /\ name' = "bound"
    /\ at' = [at EXCEPT ![t] = "polling"]
    /\ UNCHANGED <<queue, match, limit, due, batch, result>>

BindFails(t) ==
    /\ at[t] = "binding" /\ name # "free"
    /\ result' = [result EXCEPT ![t] = "throws"]
    /\ at' = [at EXCEPT ![t] = "idle"]
    /\ limit' = [limit EXCEPT ![t] = "none"]
    /\ match' = [match EXCEPT ![t] = {}]
    /\ UNCHANGED <<queue, due, batch, name>>

\* The deadline passes, or the caller's Pollable is canceled.
Elapse(t) ==
    /\ at[t] \in {"polling", "serving"}
    /\ limit[t] # "endless" /\ ~due[t]
    /\ due' = [due EXCEPT ![t] = TRUE]
    /\ UNCHANGED <<queue, at, match, limit, batch, result, name>>

\* pw.wait(): the ready items, in the order of the poller.
Poll(t) ==
    /\ at[t] = "polling"
    /\ queue # <<>> \/ due[t]
    /\ batch' = [batch EXCEPT ![t] = (IF queue # <<>> THEN <<"events">> ELSE <<>>)
                                  \o (IF due[t] THEN <<"canc">> ELSE <<>>)]
    /\ at' = [at EXCEPT ![t] = "serving"]
    /\ UNCHANGED <<queue, match, limit, due, result, name>>

\* A call returns, and its own Cancellation is destroyed.
Return(t, r) ==
    /\ result' = [result EXCEPT ![t] = r]
    /\ at' = [at EXCEPT ![t] = "idle"]
    /\ batch' = [batch EXCEPT ![t] = <<>>]
    /\ due' = [due EXCEPT ![t] = FALSE]
    /\ limit' = [limit EXCEPT ![t] = "none"]
    /\ match' = [match EXCEPT ![t] = {}]
    /\ name' = IF limit[t] = "given" THEN name ELSE "closing"

\* Variants of "continue": the next item is polled for, not taken.
Continue_Polls(t) ==
    /\ batch' = [batch EXCEPT ![t] = <<>>]
    /\ at' = [at EXCEPT ![t] = "polling"]
    /\ UNCHANGED <<match, limit, due, result, name>>

Continue(t) ==
    /\ batch' = [batch EXCEPT ![t] = Tail(@)]
    /\ at' = [at EXCEPT ![t] = IF Len(batch[t]) = 1 THEN "polling" ELSE "serving"]
    /\ UNCHANGED <<match, limit, due, result, name>>

\* Variant: an event that another thread took ends the wait.
ServeEvents_Empty(t) ==
    /\ at[t] = "serving" /\ Head(batch[t]) = "events"
    /\ IF queue = <<>> THEN queue' = queue /\ Return(t, "Timeout")
       ELSE queue' = Tail(queue) /\ (IF Head(queue) \in match[t] THEN Return(t, Head(queue)) ELSE Continue(t))

\* recvEvent(), which finds nothing if another thread was faster; an event
\* that is not waited for is dropped.
ServeEvents(t) ==
    /\ at[t] = "serving" /\ Head(batch[t]) = "events"
    /\ \/ queue = <<>> /\ queue' = queue /\ Continue(t)
       \/ /\ queue # <<>> /\ queue' = Tail(queue)
          /\ IF Head(queue) \in match[t] THEN Return(t, Head(queue)) ELSE Continue(t)

ServeCanc(t) ==
    /\ at[t] = "serving" /\ Head(batch[t]) = "canc"
    /\ queue' = queue
    /\ Return(t, "Timeout")

\* External: ZeroMQ releases the name of a closed socket.
Unbound ==
    /\ name = "closing"
    /\ name' = "free"
    /\ UNCHANGED <<queue, at, match, limit, due, batch, result>>

-----------------------------------------------------------------------------
Waits(t) == Bind(t) \/ BindFails(t) \/ Poll(t) \/ ServeEvents(t) \/ ServeCanc(t)

NNext ==
    \/ \E e \in Types : Notify(e)
    \/ \E t \in Callers :
         \/ \E m \in Matches, l \in {"own", "given", "endless"} : Call(t, m, l)
         \/ Elapse(t)
         \/ Waits(t)
    \/ Unbound

NSpec == NInit /\ [][NNext]_nvars

\* Threads run and time passes; nothing obliges a session to send events.
NFairness == \A t \in Callers : WF_nvars(Waits(t)) /\ WF_nvars(Elapse(t))

NFairSpec == NSpec /\ NFairness

-----------------------------------------------------------------------------
\* waitForEvent() tells a timeout only when its deadline has passed, not when
\* the event it saw was taken by another thread.
TimeoutIsTrue ==
    [][\A t \in Callers : result'[t] = "Timeout" /\ result[t] # "Timeout" => due[t]]_nvars

\* A call with a deadline returns, however many events come that are not the
\* ones it waits for, and whoever else is waiting.
WaitEnds ==
    \A t \in Callers : at[t] # "idle" /\ limit[t] # "endless" ~> at[t] = "idle"
=============================================================================
