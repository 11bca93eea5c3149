------------------------------- MODULE Sockets -------------------------------
(***************************************************************************)
(* zmq::Socket, zmq::Poller and zmq::PollerAuto.  A socket is opened over  *)
(* a list of endpoints, one after the other; any step may throw and then   *)
(* close() takes back what was done.  A PollerAuto registers itself with   *)
(* its sockets, which tell it when they open and close.  The objects are   *)
(* not thread safe: each is used by one thread, and the threads meet on    *)
(* the names that their ZeroMQ sockets are bound to.                       *)
(***************************************************************************)
EXTENDS Naturals, Sequences

CONSTANTS
    Socks, Pollers, Names,
    Thread,    \* the thread that uses a socket or a poller
    Opens,     \* the ways a socket is opened: bound or connected, and where
    Arrays     \* the arrays of sockets pollers are made for

ASSUME SocketsAssumption ==
    /\ Opens \in [Socks -> SUBSET ({"bind", "connect"} \X Seq(Names))]
    /\ Arrays \subseteq Seq(Socks)
    /\ Socks \cap Pollers = {}

VARIABLES
    ptr,             \* ptr_: "closed" when null; "opening" inside open()
    action,          \* open()'s action: bind or connect
    endpoints,       \* endpoints_
    openEndpoints,   \* openEndpoints_
    observers,       \* observers_, the pollers registered with a socket
    bound,           \* the names that the ZeroMQ socket is bound to
    closing,         \* names of closed ZeroMQ sockets not released yet
    stage,           \* of a poller: none, "making" in its constructor, ready
    auto,            \* whether it is a PollerAuto
    array,           \* array_
    made,            \* how many of array_ createPoller() has gone through
    items            \* the sockets that the ZeroMQ poller polls

sockVars == <<ptr, action, endpoints, openEndpoints, observers, bound, closing>>
pollVars == <<stage, auto, array, made, items>>
kvars == <<sockVars, pollVars>>

Elements(seq) == {seq[i] : i \in DOMAIN seq}

KInit ==
    /\ ptr = [s \in Socks |-> "closed"]
    /\ action = [s \in Socks |-> "connect"]
    /\ endpoints = [s \in Socks |-> <<>>]
    /\ openEndpoints = [s \in Socks |-> <<>>]
    /\ observers = [s \in Socks |-> {}]
    /\ bound = [s \in Socks |-> {}]
    /\ closing = {}
    /\ stage = [p \in Pollers |-> "none"]
    /\ auto = [p \in Pollers |-> FALSE]
    /\ array = [p \in Pollers |-> <<>>]
    /\ made = [p \in Pollers |-> 0]
    /\ items = [p \in Pollers |-> {}]

\* A thread is in one call at a time.
Idle(t) ==
    /\ \A s \in Socks : ptr[s] = "opening" => Thread[s] # t
    /\ \A p \in Pollers : stage[p] = "making" => Thread[p] # t

\* The observers of a socket with a poller registered, once, or unregistered.
RegisterPoller(s, p) == observers[s] \cup {p}
UnregisterPoller(s, p) == observers[s] \ {p}

\* Every observer stops polling a socket; one that did not poll it is no error.
UpdateOnClose(s) == [p \in Pollers |-> IF p \in observers[s] THEN items[p] \ {s} ELSE items[p]]

-----------------------------------------------------------------------------
(* Socket.                                                                 *)

\* Variants: the pollers are not told; the ZeroMQ socket is left alone.
Shut_Silent(s) ==
    /\ closing' = closing \cup bound[s]
    /\ bound' = [bound EXCEPT ![s] = {}]
    /\ openEndpoints' = [openEndpoints EXCEPT ![s] = <<>>]
    /\ ptr' = [ptr EXCEPT ![s] = "closed"]
    /\ UNCHANGED <<action, endpoints, observers, stage, auto, array, made, items>>

Shut_Leaks(s) ==
    /\ items' = UpdateOnClose(s)
    /\ openEndpoints' = [openEndpoints EXCEPT ![s] = <<>>]
    /\ ptr' = [ptr EXCEPT ![s] = "closed"]
    /\ UNCHANGED <<action, endpoints, observers, bound, closing, stage, auto, array, made>>

\* close() of an open socket: every observer's updateOnClose(), then zmq_close(),
\* which releases the names later.
Shut(s) ==
    /\ items' = UpdateOnClose(s)
    /\ closing' = closing \cup bound[s]
    /\ bound' = [bound EXCEPT ![s] = {}]
    /\ openEndpoints' = [openEndpoints EXCEPT ![s] = <<>>]
    /\ ptr' = [ptr EXCEPT ![s] = "closed"]
    /\ UNCHANGED <<action, endpoints, observers, stage, auto, array, made>>

\* setEndpoints(), then bind() or connect() up to the first endpoint.
Open(s, how, list) ==
    /\ ptr[s] = "closed" /\ Idle(Thread[s])
    /\ ptr' = [ptr EXCEPT ![s] = "opening"]
    /\ action' = [action EXCEPT ![s] = how]
    /\ endpoints' = [endpoints EXCEPT ![s] = list]
    /\ UNCHANGED <<openEndpoints, observers, bound, closing, pollVars>>

Pending(s) == Len(openEndpoints[s]) < Len(endpoints[s])
NextEndpoint(s) == endpoints[s][Len(openEndpoints[s]) + 1]

InUse(n) == n \in closing \/ \E s \in Socks : n \in bound[s]

\* bind(endpoint) or connect(endpoint): bind tries until the name is free.
OpenEndpoint(s) ==
    /\ ptr[s] = "opening" /\ Pending(s)
    /\ \/ action[s] = "connect" /\ UNCHANGED bound
       \/ /\ action[s] = "bind" /\ ~InUse(NextEndpoint(s))
          /\ bound' = [bound EXCEPT ![s] = @ \cup {NextEndpoint(s)}]
    /\ openEndpoints' = [openEndpoints EXCEPT ![s] = Append(@, NextEndpoint(s))]
    /\ UNCHANGED <<ptr, action, endpoints, observers, closing, pollVars>>

AllEndpoints(s) == ptr[s] = "opening" /\ endpoints[s] # <<>> /\ ~Pending(s)

\* updateOnOpen() of one observer.
UpdateOnOpen(s, p) ==
    /\ AllEndpoints(s)
    /\ p \in observers[s] /\ s \notin items[p]
    /\ items' = [items EXCEPT ![p] = @ \cup {s}]
    /\ UNCHANGED <<sockVars, stage, auto, array, made>>

Opened(s) ==
    /\ AllEndpoints(s)
    /\ \A p \in observers[s] : s \in items[p]
    /\ ptr' = [ptr EXCEPT ![s] = "open"]
    /\ UNCHANGED <<action, endpoints, openEndpoints, observers, bound, closing, pollVars>>

\* open() throws by itself: there is no endpoint, or the name of the next one
\* is in use for as long as bind() tries.  The variant tries for ever.
OpenFails_Never(s) ==
    /\ ptr[s] = "opening"
    /\ endpoints[s] = <<>>
    /\ Shut(s)

OpenFails(s) ==
    /\ ptr[s] = "opening"
    /\ \/ endpoints[s] = <<>>
       \/ Pending(s) /\ action[s] = "bind" /\ InUse(NextEndpoint(s))
    /\ Shut(s)

\* ZeroMQ fails while the new socket is configured, before any endpoint; ...
SetOptionFails(s) == openEndpoints[s] = <<>>

\* ... or an endpoint is refused for any reason but its name being in use; ...
EndpointFails(s) == Pending(s)

\* ... or the name of one just opened, listed here already, is not given; ...
GetOptionFails(s) == openEndpoints[s] # <<>>

\* ... or the next observer cannot add the socket to what it polls.
UpdateSocketFails(s) == AllEndpoints(s) /\ \E p \in observers[s] : s \notin items[p]

OpenThrows(s) ==
    /\ ptr[s] = "opening"
    /\ SetOptionFails(s) \/ EndpointFails(s) \/ GetOptionFails(s) \/ UpdateSocketFails(s)
    /\ Shut(s)

\* A plain Poller does not follow its sockets: its owner keeps them open.
Close(s) ==
    /\ ptr[s] = "open" /\ Idle(Thread[s])
    /\ \A p \in Pollers : s \in items[p] => auto[p]
    /\ Shut(s)

\* External: ZeroMQ's reaper thread.
ReleaseName(n) ==
    /\ n \in closing
    /\ closing' = closing \ {n}
    /\ UNCHANGED <<ptr, action, endpoints, openEndpoints, observers, bound, pollVars>>

-----------------------------------------------------------------------------
(* Poller and PollerAuto.                                                  *)

NewPoller(p, follows, socks) ==
    /\ stage[p] = "none" /\ Idle(Thread[p])
    /\ \A s \in Elements(socks) : Thread[s] = Thread[p]
    /\ socks # <<>>
    /\ stage' = [stage EXCEPT ![p] = "making"]
    /\ auto' = [auto EXCEPT ![p] = follows]
    /\ array' = [array EXCEPT ![p] = socks]
    /\ UNCHANGED <<sockVars, made, items>>

\* createPoller() for the next socket: registerPoller() and addSocket(), which
\* wants it open and polls no socket twice.
AddSocket(p) ==
    /\ stage[p] = "making"
    /\ LET s == array[p][made[p] + 1] IN
         /\ IF auto[p] THEN observers' = [observers EXCEPT ![s] = RegisterPoller(s, p)]
            ELSE ptr[s] = "open" /\ UNCHANGED observers
         /\ IF ptr[s] = "open"
            THEN s \notin items[p] /\ items' = [items EXCEPT ![p] = @ \cup {s}]
            ELSE UNCHANGED items
    /\ made' = [made EXCEPT ![p] = @ + 1]
    /\ stage' = [stage EXCEPT ![p] = IF made[p] + 1 = Len(array[p]) THEN "ready" ELSE "making"]
    /\ UNCHANGED <<ptr, action, endpoints, openEndpoints, bound, closing, auto, array>>

\* destroyPoller(), also for the sockets that were not gone through.
PollerDestroyed(p) ==
    /\ observers' = [s \in Socks |-> IF auto[p] /\ s \in Elements(array[p])
                                     THEN UnregisterPoller(s, p) ELSE observers[s]]
    /\ stage' = [stage EXCEPT ![p] = "none"]
    /\ array' = [array EXCEPT ![p] = <<>>]
    /\ made' = [made EXCEPT ![p] = 0]
    /\ items' = [items EXCEPT ![p] = {}]
    /\ UNCHANGED <<ptr, action, endpoints, openEndpoints, bound, closing, auto>>

\* ZeroMQ fails, or addSocket() refuses the next socket: scope exit.
PollerThrows(p) == stage[p] = "making" /\ PollerDestroyed(p)

DestroyPoller(p) == stage[p] = "ready" /\ Idle(Thread[p]) /\ PollerDestroyed(p)

-----------------------------------------------------------------------------
SocketStep(s) ==
    \/ \E o \in Opens[s] : Open(s, o[1], o[2])
    \/ OpenEndpoint(s)
    \/ \E p \in Pollers : UpdateOnOpen(s, p)
    \/ Opened(s)
    \/ OpenFails(s)
    \/ OpenThrows(s)
    \/ Close(s)

PollerStep(p) ==
    \/ \E follows \in BOOLEAN, socks \in Arrays : NewPoller(p, follows, socks)
    \/ AddSocket(p)
    \/ PollerThrows(p)
    \/ DestroyPoller(p)

KNext ==
    \/ \E s \in Socks : SocketStep(s)
    \/ \E p \in Pollers : PollerStep(p)
    \/ \E n \in Names : ReleaseName(n)

KSpec == KInit /\ [][KNext]_kvars

\* A thread inside open() goes on, and bind() gives up in time.
KFairness ==
    \A s \in Socks :
        /\ WF_kvars(OpenEndpoint(s) \/ OpenFails(s))
        /\ WF_kvars(Opened(s) \/ \E p \in Pollers : UpdateOnOpen(s, p))

KFairSpec == KSpec /\ KFairness

-----------------------------------------------------------------------------
Handled(p) == {array[p][i] : i \in 1 .. made[p]}

\* What a poller polls is what is open among its sockets, whatever opened,
\* closed, or failed half way through either; and exactly the live pollers are
\* registered with a socket, so that none is told after its destruction.
PollersFollow ==
    /\ \A p \in Pollers : stage[p] = "ready" =>
         \A s \in Elements(array[p]) : ptr[s] # "opening" => (s \in items[p] <=> ptr[s] = "open")
    /\ \A p \in Pollers, s \in Socks : p \in observers[s] <=> auto[p] /\ s \in Handled(p)

\* open() is all or nothing, as zmqsocket.h says of exceptions: an open socket
\* has all its endpoints and their names, a closed one holds none.
OpenIsWhole ==
    \A s \in Socks :
        /\ ptr[s] = "closed" => openEndpoints[s] = <<>> /\ bound[s] = {}
        /\ ptr[s] = "open" =>
             /\ openEndpoints[s] = endpoints[s]
             /\ bound[s] = IF action[s] = "bind" THEN Elements(endpoints[s]) ELSE {}

\* open() returns or throws, though a name may be in use for ever.
OpenReturns == \A s \in Socks : ptr[s] = "opening" ~> ptr[s] # "opening"
=============================================================================
