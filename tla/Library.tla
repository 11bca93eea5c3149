------------------------------- MODULE Library -------------------------------
(***************************************************************************)
(* The classes that runners, sessions and the service are built from.      *)
(* They share no state with one another, so a behaviour is one of one of   *)
(* them, chosen at the beginning, while the others rest.                   *)
(***************************************************************************)
EXTENDS Cancellation, Sockets, Args, Waiting, TokenPool, Transfer,
        Subscriptions, Uuids

\* Two sockets and the pollers of a thread, and the socket of another.
CONSTANTS s1, s2, s3, a, b
ThreadOf == [x \in Socks \cup Pollers |-> IF x = s3 THEN 2 ELSE 1]
Ways == [x \in Socks |-> CASE x = s1 -> {<<"bind", <<a, b>>>>, <<"connect", <<a>>>>}
                          [] x = s2 -> {<<"bind", <<>>>>, <<"bind", <<b>>>>}
                          [] x = s3 -> {<<"bind", <<a, b>>>>}]
TwiceOrBoth == {<<s1, s1>>, <<s1, s2>>}

\* A wait for one type of events, and for any.
OneOrAny == {{"Started"}, {"Started", "Delivery"}}

\* Two threads, the first with two Uuids and the second with none.
CONSTANTS t1
FirstOwns == [x \in Uuids |-> t1]

VARIABLE class

PInit ==
    /\ class \in {"timers", "sockets", "args", "waiting", "tokens", "parts",
                  "subscriptions", "uuids"}
    /\ LInit /\ (class # "timers" => owner = "Timer")
    /\ KInit /\ AInit /\ NInit /\ OInit /\ FInit
    /\ UInit /\ (class # "subscriptions" => role = "worker")
    /\ IInit /\ (class # "uuids" => \A x \in Uuids : srepr[x] = [i \in 1 .. 2 |-> NullUuid])

PNext ==
    /\ UNCHANGED class
    /\ \/ class = "timers" /\ LNext
          /\ UNCHANGED <<kvars, avars, nvars, ovars, fvars, uvars, ivars>>
       \/ class = "sockets" /\ KNext
          /\ UNCHANGED <<lvars, avars, nvars, ovars, fvars, uvars, ivars>>
       \/ class = "args" /\ ANext
          /\ UNCHANGED <<lvars, kvars, nvars, ovars, fvars, uvars, ivars>>
       \/ class = "waiting" /\ NNext
          /\ UNCHANGED <<lvars, kvars, avars, ovars, fvars, uvars, ivars>>
       \/ class = "tokens" /\ ONext
          /\ UNCHANGED <<lvars, kvars, avars, nvars, fvars, uvars, ivars>>
       \/ class = "parts" /\ FNext
          /\ UNCHANGED <<lvars, kvars, avars, nvars, ovars, uvars, ivars>>
       \/ class = "subscriptions" /\ UNext
          /\ UNCHANGED <<lvars, kvars, avars, nvars, ovars, fvars, ivars>>
       \/ class = "uuids" /\ INext
          /\ UNCHANGED <<lvars, kvars, avars, nvars, ovars, fvars, uvars>>

pvars == <<lvars, kvars, avars, nvars, ovars, fvars, uvars, ivars, class>>

\* Nothing of a class that rests is ever enabled by the fairness of the class.
PFairSpec == PInit /\ [][PNext]_pvars /\ LFairness /\ KFairness /\ NFairness
=============================================================================
