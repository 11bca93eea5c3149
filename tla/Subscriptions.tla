---------------------------- MODULE Subscriptions ----------------------------
(***************************************************************************)
(* How the endpoints and the topics that an application sets reach the     *)
(* sockets of a session and decide what is delivered to it.  The settings  *)
(* of a Worker or a Broker are plain members, which the application may    *)
(* change at any time; start() packs them in the Start operation and the   *)
(* session works with the copy it unpacks from there, for as long as it    *)
(* runs and over every connection and synchronization it makes.            *)
(* Names stand as sets: neither std::set nor the LRU cache that the names  *)
(* go to tells apart their order or a repetition.                          *)
(***************************************************************************)
EXTENDS Naturals, Sequences

CONSTANTS
    Topics,     \* names of topics
    HUGZ, UPDT, \* the groups of SessionEnv, which are names as well
    Addrs,      \* endpoints an application may add
    Default,    \* the endpoint of each kind of a new object
    MaxEndp     \* bound: endpoints of a kind

ASSUME SubscriptionsAssumption ==
    /\ HUGZ # UPDT /\ HUGZ \notin Topics
    /\ MaxEndp \in Nat

VARIABLES
    role,       \* "worker" or "broker"
    endp,       \* endpDelivery_, endpDispatch_ and endpSnapshot_
    subscr,     \* subscrAll_ and subscrNames_
    phase,      \* "idle", "starting" (the Start operation is on its way), "running"
    oper,       \* the configuration in that operation
    conf,       \* conf_ of the session, with subscrTopic_
    zdelivery,  \* endpoints and groups of the socket
    zdispatch,  \* endpoints
    request,    \* the snapshot requested last: where, and its parameters
    asked       \* history: the settings when start() was called

uvars == <<role, endp, subscr, phase, oper, conf, zdelivery, zdispatch, request, asked>>
session == <<phase, oper, conf, zdelivery, zdispatch, request, asked>>

Kinds == {"delivery", "dispatch", "snapshot"}
Each(s) == [k \in Kinds |-> s]
None == [endp |-> Each(<<>>), all |-> FALSE, names |-> {}]
Closed == [endp |-> <<>>, groups |-> {}]

UInit ==
    /\ role \in {"worker", "broker"}
    /\ endp = Each(<<Default>>)
    /\ subscr = [all |-> TRUE, names |-> {}]
    /\ phase = "idle"
    /\ oper = None /\ conf = None /\ asked = None
    /\ zdelivery = Closed /\ zdispatch = <<>>
    /\ request = [endp |-> <<>>, params |-> None]

-----------------------------------------------------------------------------
SetEndpoints(e) == endp' = e /\ UNCHANGED <<role, subscr, session>>

AddEndpoints(e) ==
    /\ Len(endp["delivery"]) < MaxEndp
    /\ SetEndpoints([k \in Kinds |-> Append(endp[k], e)])

CWorker_addEndpoints(e) == role = "worker" /\ AddEndpoints(e)
CBroker_addEndpoints(e) == role = "broker" /\ AddEndpoints(e)

CWorker_clearEndpoints == role = "worker" /\ SetEndpoints(Each(<<>>))
CBroker_clearEndpoints == role = "broker" /\ SetEndpoints(Each(<<>>))

\* The service takes all the endpoints of the request, even if it has none.
ApplyEndpoints(e) == role = "worker" /\ SetEndpoints(e)

\* The arguments of a program replace the endpoints when any is given.
ApplyArgsEndpoints(e) ==
    /\ \E k \in Kinds : e[k] # <<>>
    /\ SetEndpoints(e)

SetTopicsAll ==
    /\ role = "worker"
    /\ subscr' = [all |-> TRUE, names |-> {}]
    /\ UNCHANGED <<role, endp, session>>

SetTopicsNames(ns) ==
    /\ role = "worker"
    /\ subscr' = [all |-> FALSE, names |-> ns]
    /\ UNCHANGED <<role, endp, session>>

AddTopicsNames(n) == SetTopicsNames(subscr.names \cup {n})

ClearTopicsNames == SetTopicsNames({})

\* The service takes the wildcard or the names of the request, not both.
ApplySubscriptions(wildcard, ns) == IF wildcard THEN SetTopicsAll ELSE SetTopicsNames(ns)

-----------------------------------------------------------------------------
PrepareConfiguration == [endp |-> endp, all |-> subscr.all, names |-> subscr.names]

StartSession ==
    /\ phase = "idle"
    /\ phase' = "starting"
    /\ oper' = PrepareConfiguration
    /\ asked' = [endp |-> endp, all |-> subscr.all, names |-> subscr.names]
    /\ UNCHANGED <<role, endp, subscr, conf, zdelivery, zdispatch, request>>

\* The session is over and its sockets are destroyed.
Over ==
    /\ phase' = "idle"
    /\ oper' = None /\ conf' = None /\ asked' = None
    /\ zdelivery' = Closed /\ zdispatch' = <<>>
    /\ request' = [endp |-> <<>>, params |-> None]

\* connOpen() with the configuration c, when it does not throw.
ConnOpen(c) ==
    /\ c.all \/ UPDT \notin c.names
    /\ zdelivery' = [endp |-> c.endp["delivery"],
                     groups |-> {HUGZ} \cup (IF c.all THEN {UPDT} ELSE c.names)]
    /\ zdispatch' = c.endp["dispatch"]

\* A session of the broker receives where its workers dispatch.
OpenSockets(c) ==
    /\ zdelivery' = [endp |-> c.endp["dispatch"], groups |-> {HUGZ, UPDT}]
    /\ zdispatch' = c.endp["delivery"]

\* The Start operation: saveConfiguration(), then the sockets.
Configure ==
    /\ phase = "starting"
    /\ phase' = "running"
    /\ conf' = oper
    /\ oper' = None
    /\ IF role = "worker" THEN ConnOpen(oper) ELSE OpenSockets(oper)
    /\ UNCHANGED <<role, endp, subscr, request, asked>>

\* A reserved name is refused: the exception ends the session.
ExecuteThrows ==
    /\ phase = "starting" /\ role = "worker"
    /\ ~oper.all /\ UPDT \in oper.names
    /\ Over
    /\ UNCHANGED <<role, endp, subscr>>

\* Variant: the connection is opened again with the settings of now.
Reconnect_Now ==
    /\ phase = "running" /\ role = "worker"
    /\ ConnOpen(PrepareConfiguration)
    /\ UNCHANGED <<role, endp, subscr, phase, oper, conf, request, asked>>

\* The broker was lost: the connection is closed and opened again.
Reconnect ==
    /\ phase = "running" /\ role = "worker"
    /\ ConnOpen(conf)
    /\ UNCHANGED <<role, endp, subscr, phase, oper, conf, request, asked>>

\* snapOpen() and sendSync(), with the configuration as parameters.
SendSync ==
    /\ phase = "running" /\ role = "worker"
    /\ request' = [endp |-> conf.endp["snapshot"], params |-> conf]
    /\ UNCHANGED <<role, endp, subscr, phase, oper, conf, zdelivery, zdispatch, asked>>

StopSession ==
    /\ phase = "running"
    /\ Over
    /\ UNCHANGED <<role, endp, subscr>>

-----------------------------------------------------------------------------
\* The groups that the broker sends a topic to, and what a session makes of one.
Relayed(n) == {n, UPDT}
Collected(g) == g # HUGZ /\ (g = UPDT \/ g \in conf.names)

Delivered(n) == \E g \in Relayed(n) \cap zdelivery.groups : Collected(g)

\* replySnapshot() sends the state of a topic for these parameters.
Replied(c, n) == c.all \/ n \in c.names

UNext ==
    \/ \E e \in Addrs : CWorker_addEndpoints(e) \/ CBroker_addEndpoints(e)
    \/ CWorker_clearEndpoints \/ CBroker_clearEndpoints
    \/ \E s \in {<<>>} \cup {<<e>> : e \in Addrs} : LET given == [Each(<<>>) EXCEPT !["delivery"] = s]
         IN  ApplyEndpoints(given) \/ ApplyArgsEndpoints(given)
    \/ \E n \in Topics : AddTopicsNames(n)
    \/ ClearTopicsNames
    \/ \E n \in Topics, wildcard \in BOOLEAN : ApplySubscriptions(wildcard, {n})
    \/ StartSession \/ Configure \/ ExecuteThrows \/ Reconnect \/ SendSync \/ StopSession

USpec == UInit /\ [][UNext]_uvars

-----------------------------------------------------------------------------
Subscribed(n) == asked.all \/ n \in asked.names

\* Whatever the application sets in the meantime, a running session has the
\* endpoints and the topics that were set when its start() was called, at every
\* connection and synchronization it makes: a topic is delivered exactly if it
\* was subscribed, on line and by a snapshot alike, and a worker's sockets meet
\* those of a broker with the same settings.
SettingsOfStart ==
    phase = "running" =>
        /\ role = "worker" =>
            /\ \A n \in Topics : Delivered(n) <=> Subscribed(n)
            /\ zdelivery.endp = asked.endp["delivery"] /\ zdispatch = asked.endp["dispatch"]
            /\ request.endp # <<>> =>
                /\ \A n \in Topics : Replied(request.params, n) <=> Subscribed(n)
                /\ request.endp = asked.endp["snapshot"]
        /\ role = "broker" =>
            zdelivery.endp = asked.endp["dispatch"] /\ zdispatch = asked.endp["delivery"]
=============================================================================
