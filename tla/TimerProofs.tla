---------------------------- MODULE TimerProofs -----------------------------
(***************************************************************************)
(* Theorems about sockets and timers, and the connection that drives them. *)
(* Pollers and open sockets are true to each other whatever fails; no      *)
(* handler of IOSteadyTimer outlives its object, and its threads implement *)
(* TimerSpec; ConnMachine keeps its invariants for every sequence of calls *)
(* and expiries, and for a worker against a broker with any number of      *)
(* messages in flight.                                                     *)
(***************************************************************************)
EXTENDS Sockets, Cancellation, Connection, TLAPS

-----------------------------------------------------------------------------
(* PollersFollow and OpenIsWhole, for any number of sockets, pollers,      *)
(* names and threads. The first rests on what a poller has already gone    *)
(* through in its constructor, the second on what open() has already done; *)
(* neither on which thread uses what.                                      *)

KTypeOK ==
    /\ ptr \in [Socks -> {"closed", "opening", "open"}]
    /\ action \in [Socks -> {"bind", "connect"}]
    /\ endpoints \in [Socks -> Seq(Names)]
    /\ openEndpoints \in [Socks -> Seq(Names)]
    /\ observers \in [Socks -> SUBSET Pollers]
    /\ bound \in [Socks -> SUBSET Names]
    /\ stage \in [Pollers -> {"none", "making", "ready"}]
    /\ auto \in [Pollers -> BOOLEAN]
    /\ array \in [Pollers -> Seq(Socks)]
    /\ made \in [Pollers -> Nat]
    /\ items \in [Pollers -> SUBSET Socks]

\* How far the constructor of a poller is.
Progress ==
    \A p \in Pollers :
        /\ stage[p] = "none" => made[p] = 0 /\ items[p] = {}
        /\ stage[p] = "making" => made[p] < Len(array[p])
        /\ stage[p] = "ready" => made[p] = Len(array[p])

\* Registered and polled is what it has gone through; a plain Poller went
\* through open sockets only, and they stay open.
Following ==
    \A p \in Pollers, s \in Socks :
        /\ p \in observers[s] <=> auto[p] /\ s \in Handled(p)
        /\ s \in items[p] => s \in Handled(p)
        /\ s \in Handled(p) =>
             /\ ptr[s] = "open" => s \in items[p]
             /\ ptr[s] = "closed" => s \notin items[p]
             /\ auto[p] \/ ptr[s] = "open"

PollersInv == KTypeOK /\ Progress /\ Following

-----------------------------------------------------------------------------
LEMMA HandledFacts ==
    ASSUME KTypeOK, Progress, NEW p \in Pollers
    PROVE /\ Handled(p) \subseteq Elements(array[p])
          /\ stage[p] = "ready" => Handled(p) = Elements(array[p])
          /\ made[p] = 0 => Handled(p) = {}
<1>1. DOMAIN array[p] = 1 .. Len(array[p]) /\ Len(array[p]) \in Nat /\ made[p] \in Nat
    BY DEF KTypeOK
<1>2. made[p] <= Len(array[p])
    <2>1. stage[p] \in {"none", "making", "ready"}
        BY Zenon DEF KTypeOK
    <2> QED BY <1>1, <2>1 DEF Progress
<1> QED BY <1>1, <1>2 DEF Handled, Elements, Progress

LEMMA PollersInit == KInit => PollersInv
<1> SUFFICES ASSUME KInit PROVE PollersInv
    BY Zenon
<1>1. KTypeOK
    BY DEF KInit, KTypeOK
<1>2. Progress
    BY Zenon DEF KInit, Progress
<1>3. \A p \in Pollers : Handled(p) = {}
    BY DEF KInit, Handled
<1> QED BY <1>1, <1>2, <1>3, Zenon DEF KInit, PollersInv, Following

\* Steps of a socket leave what a poller has gone through alone.
LEMMA SameHandled ==
    ASSUME UNCHANGED <<array, made>>
    PROVE \A p \in Pollers : Handled(p)' = Handled(p)
BY Zenon DEF Handled

\* Every way a socket is closed.
LEMMA ShutFollows ==
    ASSUME PollersInv, NEW s \in Socks, Shut(s), \A p \in Pollers : s \in Handled(p) => auto[p]
    PROVE PollersInv'
<1> USE DEF PollersInv
<1>1. KTypeOK'
    <2>1. items' \in [Pollers -> SUBSET Socks]
        BY Zenon DEF Shut, UpdateOnClose, KTypeOK
    <2>2. openEndpoints' \in [Socks -> Seq(Names)]
        BY DEF Shut, KTypeOK
    <2> QED BY <2>1, <2>2, Zenon DEF Shut, KTypeOK
<1>2. \A p \in Pollers : items'[p] = IF p \in observers[s] THEN items[p] \ {s} ELSE items[p]
    BY Zenon DEF Shut, UpdateOnClose
<1>3. Progress'
    BY <1>2, Zenon DEF Shut, Progress
<1>4. \A p \in Pollers : Handled(p)' = Handled(p)
    BY SameHandled, Zenon DEF Shut
<1>5. ptr' = [ptr EXCEPT ![s] = "closed"] /\ UNCHANGED <<observers, auto>>
    BY Zenon DEF Shut
<1>6. Following'
    <2> SUFFICES ASSUME NEW p \in Pollers, NEW x \in Socks
                 PROVE /\ p \in observers[x] <=> auto[p] /\ x \in Handled(p)
                       /\ x \in items'[p] => x \in Handled(p)
                       /\ x \in Handled(p) =>
                            /\ ptr'[x] = "open" => x \in items'[p]
                            /\ ptr'[x] = "closed" => x \notin items'[p]
                            /\ auto[p] \/ ptr'[x] = "open"
        BY <1>4, <1>5 DEF Following
    <2>1. ptr'[x] = IF x = s THEN "closed" ELSE ptr[x]
        BY <1>5, Zenon DEF KTypeOK
    <2>2. items'[p] \subseteq items[p] /\ (x # s => (x \in items'[p] <=> x \in items[p]))
        BY <1>2, Zenon
    <2>3. CASE x = s
        <3>1. x \in Handled(p) => p \in observers[s] /\ auto[p]
            BY <2>3, Zenon DEF Following
        <3> QED BY <1>2, <2>1, <2>2, <2>3, <3>1, Zenon DEF Following
    <2>4. CASE x # s
        BY <2>1, <2>2, <2>4, Zenon DEF Following
    <2> QED BY <2>3, <2>4, Zenon
<1> QED BY <1>1, <1>3, <1>6, Zenon

\* open(), close(), and their steps in between.
LEMMA SocketFollows ==
    ASSUME PollersInv, NEW s \in Socks, SocketStep(s)
    PROVE PollersInv'
<1> USE DEF PollersInv
<1>1. ASSUME NEW o \in Opens[s], Open(s, o[1], o[2]) PROVE PollersInv'
    <2>1. o[1] \in {"bind", "connect"} /\ o[2] \in Seq(Names)
        BY SocketsAssumption
    <2>2. KTypeOK' /\ Progress'
        BY <1>1, <2>1, Zenon DEF Open, pollVars, KTypeOK, Progress
    <2>3. \A p \in Pollers : Handled(p)' = Handled(p)
        BY <1>1, SameHandled, Zenon DEF Open, pollVars
    <2>4. ptr[s] = "closed" /\ ptr' = [ptr EXCEPT ![s] = "opening"] /\ UNCHANGED <<observers, auto, items>>
        BY <1>1, Zenon DEF Open, pollVars
    <2>5. Following'
        BY <2>3, <2>4 DEF KTypeOK, Following
    <2> QED BY <2>2, <2>5, Zenon
<1>2. CASE OpenEndpoint(s)
    <2>1. Len(openEndpoints[s]) \in Nat /\ Len(endpoints[s]) \in Nat
        BY DEF KTypeOK
    <2>2. NextEndpoint(s) \in Names
        BY <1>2, <2>1 DEF OpenEndpoint, Pending, NextEndpoint, KTypeOK
    <2>3. Append(openEndpoints[s], NextEndpoint(s)) \in Seq(Names)
        BY <2>2 DEF KTypeOK
    <2>4. KTypeOK'
        <3>1. bound' \in [Socks -> SUBSET Names]
            <4>1. bound[s] \cup {NextEndpoint(s)} \in SUBSET Names /\ bound \in [Socks -> SUBSET Names]
                BY <2>2, Zenon DEF KTypeOK
            <4>2. bound' = bound \/ bound' = [bound EXCEPT ![s] = bound[s] \cup {NextEndpoint(s)}]
                BY <1>2, Zenon DEF OpenEndpoint
            <4> QED BY <4>1, <4>2, Zenon
        <3>2. openEndpoints' \in [Socks -> Seq(Names)]
            BY <1>2, <2>3, Zenon DEF OpenEndpoint, KTypeOK
        <3> QED BY <1>2, <3>1, <3>2, Zenon DEF OpenEndpoint, pollVars, KTypeOK
    <2>5. UNCHANGED <<ptr, observers, pollVars>>
        BY <1>2, Zenon DEF OpenEndpoint
    <2>6. \A p \in Pollers : Handled(p)' = Handled(p)
        BY <2>5, SameHandled, Zenon DEF pollVars
    <2> QED BY <2>4, <2>5, <2>6 DEF pollVars, Progress, Following
<1>3. ASSUME NEW p \in Pollers, UpdateOnOpen(s, p) PROVE PollersInv'
    <2>1. KTypeOK'
        BY <1>3, Zenon DEF UpdateOnOpen, sockVars, KTypeOK
    <2>2. \A q \in Pollers : Handled(q)' = Handled(q)
        BY <1>3, SameHandled, Zenon DEF UpdateOnOpen
    <2>3. ptr[s] = "opening" /\ p \in observers[s] /\ items' = [items EXCEPT ![p] = @ \cup {s}]
          /\ UNCHANGED <<ptr, observers, stage, auto, array, made>>
        BY <1>3, Zenon DEF UpdateOnOpen, AllEndpoints, sockVars
    <2>4. s \in Handled(p)
        BY <2>3, Zenon DEF Following
    <2>5. stage[p] # "none"
        BY <2>4, HandledFacts, Zenon DEF Progress
    <2>6. Progress'
        BY <2>3, <2>5, Zenon DEF Progress, KTypeOK
    <2>7. Following'
        BY <2>2, <2>3, <2>4 DEF Following, KTypeOK
    <2> QED BY <2>1, <2>6, <2>7, Zenon
<1>4. CASE Opened(s)
    <2>1. /\ ptr' = [ptr EXCEPT ![s] = "open"] /\ ptr[s] = "opening"
          /\ UNCHANGED <<action, endpoints, openEndpoints, observers, bound, pollVars>>
          /\ \A p \in Pollers : p \in observers[s] => s \in items[p]
        BY <1>4, Zenon DEF Opened, AllEndpoints
    <2>2. KTypeOK' /\ Progress'
        BY <2>1, Zenon DEF pollVars, KTypeOK, Progress
    <2>3. \A p \in Pollers : Handled(p)' = Handled(p)
        BY <2>1, SameHandled, Zenon DEF pollVars
    <2>4. \A p \in Pollers : s \in Handled(p) => s \in items[p]
        BY <2>1, Zenon DEF Following
    <2>5. Following'
        BY <2>1, <2>3, <2>4 DEF pollVars, KTypeOK, Following
    <2> QED BY <2>2, <2>5, Zenon
<1>5. CASE OpenFails(s) \/ OpenThrows(s)
    <2>1. ptr[s] = "opening" /\ Shut(s)
        BY <1>5, Zenon DEF OpenFails, OpenThrows
    <2>2. \A p \in Pollers : s \in Handled(p) => auto[p]
        BY <2>1, Zenon DEF Following
    <2> QED BY <2>1, <2>2, ShutFollows, Zenon
<1>6. CASE Close(s)
    <2>1. \A p \in Pollers : s \in Handled(p) => auto[p]
        BY <1>6, Zenon DEF Close, Following
    <2> QED BY <1>6, <2>1, ShutFollows, Zenon DEF Close
<1> QED BY <1>1, <1>2, <1>3, <1>4, <1>5, <1>6, Zenon DEF SocketStep

\* The constructors and destructors of Poller and PollerAuto.
LEMMA PollerFollows ==
    ASSUME PollersInv, NEW p \in Pollers, PollerStep(p)
    PROVE PollersInv'
<1> USE DEF PollersInv
<1>1. ASSUME NEW follows \in BOOLEAN, NEW socks \in Arrays, NewPoller(p, follows, socks) PROVE PollersInv'
    <2>1. socks \in Seq(Socks) /\ socks # <<>> /\ Len(socks) > 0
        BY <1>1, SocketsAssumption DEF NewPoller
    <2>2. KTypeOK'
        BY <1>1, <2>1, Zenon DEF NewPoller, sockVars, KTypeOK
    <2>3. /\ stage[p] = "none" /\ made' = made /\ items' = items
          /\ stage' = [stage EXCEPT ![p] = "making"] /\ auto' = [auto EXCEPT ![p] = follows]
          /\ array' = [array EXCEPT ![p] = socks]
          /\ UNCHANGED <<ptr, observers>>
        BY <1>1, Zenon DEF NewPoller, sockVars
    <2>4. made[p] = 0 /\ items[p] = {}
        BY <2>3, Zenon DEF Progress
    <2>5. Progress'
        BY <2>1, <2>3, <2>4, Zenon DEF Progress, KTypeOK
    <2>6. Handled(p) = {} /\ Handled(p)' = {}
        BY <2>3, <2>4 DEF Handled
    <2>7. \A q \in Pollers : q # p => Handled(q)' = Handled(q) /\ auto'[q] = auto[q]
        BY <2>3, Zenon DEF Handled, KTypeOK
    <2>8. Following'
        BY <2>3, <2>4, <2>6, <2>7 DEF Following
    <2> QED BY <2>2, <2>5, <2>8, Zenon
<1>2. CASE AddSocket(p)
    <2>1. stage[p] = "making" /\ made[p] < Len(array[p]) /\ made[p] \in Nat /\ Len(array[p]) \in Nat
        BY <1>2 DEF AddSocket, Progress, KTypeOK
    <2>2. PICK s \in Socks : s = array[p][made[p] + 1]
        BY <2>1 DEF KTypeOK
    <2>3. /\ made' = [made EXCEPT ![p] = @ + 1]
          /\ stage' = [stage EXCEPT ![p] = IF made[p] + 1 = Len(array[p]) THEN "ready" ELSE "making"]
          /\ UNCHANGED <<ptr, action, endpoints, openEndpoints, bound, auto, array>>
        BY <1>2, Zenon DEF AddSocket
    <2>4. /\ auto[p] => observers' = [observers EXCEPT ![s] = @ \cup {p}]
          /\ ~auto[p] => ptr[s] = "open" /\ observers' = observers
          /\ ptr[s] = "open" => items' = [items EXCEPT ![p] = @ \cup {s}]
          /\ ptr[s] # "open" => items' = items
        BY <1>2, <2>2, Zenon DEF AddSocket, RegisterPoller
    <2>5. KTypeOK'
        <3>1. observers' \in [Socks -> SUBSET Pollers]
            <4>1. CASE auto[p]
                <5>1. observers' = [observers EXCEPT ![s] = observers[s] \cup {p}]
                    BY <2>4, <4>1, Zenon
                <5>2. observers[s] \cup {p} \in SUBSET Pollers /\ observers \in [Socks -> SUBSET Pollers]
                    BY Zenon DEF KTypeOK
                <5> QED BY <5>1, <5>2, Zenon
            <4>2. CASE ~auto[p]
                BY <2>4, <4>2, Zenon DEF KTypeOK
            <4> QED BY <4>1, <4>2, Zenon
        <3>2. items' \in [Pollers -> SUBSET Socks]
            <4>1. items' = items \/ items' = [items EXCEPT ![p] = items[p] \cup {s}]
                BY <2>4, Zenon
            <4>2. items[p] \cup {s} \in SUBSET Socks /\ items \in [Pollers -> SUBSET Socks]
                BY Zenon DEF KTypeOK
            <4> QED BY <4>1, <4>2, Zenon
        <3>3. made' \in [Pollers -> Nat] /\ stage' \in [Pollers -> {"none", "making", "ready"}]
            <4>1. PICK st \in {"ready", "making"} : stage' = [stage EXCEPT ![p] = st]
                BY <2>3, Zenon
            <4> QED BY <2>1, <2>3, <4>1 DEF KTypeOK
        <3> QED BY <2>3, <3>1, <3>2, <3>3, Zenon DEF KTypeOK
    <2>6. Progress'
        <3>1. made'[p] = made[p] + 1 /\ stage'[p] = (IF made[p] + 1 = Len(array[p]) THEN "ready" ELSE "making")
              /\ array' = array
            BY <2>3, Zenon DEF KTypeOK
        <3>2. \A q \in Pollers : q # p => made'[q] = made[q] /\ stage'[q] = stage[q] /\ items'[q] = items[q]
            BY <2>3, <2>4, Zenon DEF KTypeOK
        <3> QED BY <2>1, <3>1, <3>2 DEF Progress
    <2>7. Handled(p)' = Handled(p) \cup {s}
        <3>1. made'[p] = made[p] + 1 /\ array' = array
            BY <2>3, Zenon DEF KTypeOK
        <3>2. 1 .. (made[p] + 1) = (1 .. made[p]) \cup {made[p] + 1}
            BY <2>1
        <3> QED BY <2>2, <3>1, <3>2, Zenon DEF Handled
    <2>8. \A q \in Pollers : q # p => Handled(q)' = Handled(q) /\ items'[q] = items[q]
        BY <2>3, <2>4 DEF Handled, KTypeOK
    <2>9. \A q \in Pollers, x \in Socks : q \in observers'[x] <=> q \in observers[x] \/ (q = p /\ x = s /\ auto[p])
        BY <2>4 DEF KTypeOK
    <2>10. \A x \in Socks : x \in items'[p] <=> x \in items[p] \/ (x = s /\ ptr[s] = "open")
        BY <2>4 DEF KTypeOK
    <2>11. Following'
        <3> SUFFICES ASSUME NEW q \in Pollers, NEW x \in Socks
                     PROVE /\ q \in observers'[x] <=> auto[q] /\ x \in Handled(q)'
                           /\ x \in items'[q] => x \in Handled(q)'
                           /\ x \in Handled(q)' =>
                                /\ ptr[x] = "open" => x \in items'[q]
                                /\ ptr[x] = "closed" => x \notin items'[q]
                                /\ auto[q] \/ ptr[x] = "open"
            BY <2>3, Zenon DEF Following
        <3>1. CASE q # p
            BY <2>8, <2>9, <3>1 DEF Following
        <3>2. CASE q = p /\ x # s
            BY <2>7, <2>9, <2>10, <3>2, Zenon DEF Following
        <3>3. CASE q = p /\ x = s
            BY <2>4, <2>7, <2>9, <2>10, <3>3, Zenon DEF Following
        <3> QED BY <3>1, <3>2, <3>3, Zenon
    <2> QED BY <2>5, <2>6, <2>11
<1>3. CASE PollerThrows(p) \/ DestroyPoller(p)
    <2>1. PollerDestroyed(p)
        BY <1>3, Zenon DEF PollerThrows, DestroyPoller
    <2>2. /\ stage' = [stage EXCEPT ![p] = "none"] /\ array' = [array EXCEPT ![p] = <<>>]
          /\ made' = [made EXCEPT ![p] = 0] /\ items' = [items EXCEPT ![p] = {}]
          /\ UNCHANGED <<ptr, action, endpoints, openEndpoints, bound, auto>>
        BY <2>1, Zenon DEF PollerDestroyed
    <2>3. \A x \in Socks : observers'[x] = IF auto[p] /\ x \in Elements(array[p])
                                           THEN observers[x] \ {p} ELSE observers[x]
        BY <2>1, Zenon DEF PollerDestroyed, UnregisterPoller
    <2>4. observers' \in [Socks -> SUBSET Pollers]
        BY <2>1, Zenon DEF PollerDestroyed, UnregisterPoller, KTypeOK
    <2>5. KTypeOK'
        BY <2>2, <2>4 DEF KTypeOK
    <2>6. Progress'
        BY <2>2, Zenon DEF Progress, KTypeOK
    <2>7. Handled(p)' = {}
        BY <2>2 DEF Handled, KTypeOK
    <2>8. \A q \in Pollers : q # p => Handled(q)' = Handled(q) /\ items'[q] = items[q]
        BY <2>2, Zenon DEF Handled, KTypeOK
    <2>9. \A x \in Socks : p \notin observers'[x] /\ \A q \in Pollers : q # p => (q \in observers'[x] <=> q \in observers[x])
        <3> SUFFICES ASSUME NEW x \in Socks
                     PROVE p \notin observers'[x] /\ \A q \in Pollers : q # p => (q \in observers'[x] <=> q \in observers[x])
            BY Zenon
        <3>1. p \in observers[x] => auto[p] /\ x \in Elements(array[p])
            BY HandledFacts, Zenon DEF Following
        <3>2. CASE auto[p] /\ x \in Elements(array[p])
            BY <2>3, <3>2, Zenon
        <3>3. CASE ~(auto[p] /\ x \in Elements(array[p]))
            BY <2>3, <3>1, <3>3, Zenon
        <3> QED BY <3>2, <3>3, Zenon
    <2>10. Following'
        BY <2>2, <2>7, <2>8, <2>9 DEF Following, KTypeOK
    <2> QED BY <2>5, <2>6, <2>10, Zenon
<1> QED BY <1>1, <1>2, <1>3, Zenon DEF PollerStep

LEMMA PollersStep ==
    ASSUME PollersInv, [KNext]_kvars
    PROVE PollersInv'
<1> USE DEF PollersInv
<1>1. CASE UNCHANGED kvars
    <2>1. \A p \in Pollers : Handled(p)' = Handled(p)
        BY <1>1, SameHandled, Zenon DEF kvars, pollVars
    <2> QED BY <1>1, <2>1 DEF kvars, sockVars, pollVars, KTypeOK, Progress, Following
<1>2. ASSUME NEW n \in Names, ReleaseName(n) PROVE PollersInv'
    <2>1. \A p \in Pollers : Handled(p)' = Handled(p)
        BY <1>2, SameHandled, Zenon DEF ReleaseName, pollVars
    <2> QED BY <1>2, <2>1 DEF ReleaseName, pollVars, KTypeOK, Progress, Following
<1> QED BY <1>1, <1>2, SocketFollows, PollerFollows, Zenon DEF KNext

\* PollerAuto polls exactly what is open among its sockets, and exactly the live
\* ones are registered, for any number of sockets and pollers.
THEOREM PollersAreTrue == KSpec => []PollersFollow
<1>1. PollersInv => PollersFollow
    <2> SUFFICES ASSUME PollersInv PROVE PollersFollow
        BY Zenon
    <2>1. \A p \in Pollers : stage[p] = "ready" => Handled(p) = Elements(array[p])
        BY HandledFacts, Zenon DEF PollersInv
    <2>2. \A p \in Pollers : Elements(array[p]) \subseteq Socks
        BY DEF PollersInv, KTypeOK, Elements
    <2>3. \A s \in Socks : ptr[s] \in {"closed", "opening", "open"}
        BY Zenon DEF PollersInv, KTypeOK
    <2> QED BY <2>1, <2>2, <2>3, Zenon DEF PollersInv, Following, PollersFollow
<1> QED BY <1>1, PollersInit, PollersStep, PTL DEF KSpec

-----------------------------------------------------------------------------
\* What open() has done so far: the endpoints it went through, and their names.
Whole(s) ==
    /\ ptr[s] = "closed" => openEndpoints[s] = <<>> /\ bound[s] = {}
    /\ Len(openEndpoints[s]) <= Len(endpoints[s]) \/ ptr[s] = "closed"
    /\ ptr[s] # "closed" =>
         /\ \A i \in 1 .. Len(openEndpoints[s]) : openEndpoints[s][i] = endpoints[s][i]
         /\ bound[s] = IF action[s] = "bind" THEN Elements(openEndpoints[s]) ELSE {}
    /\ ptr[s] = "open" => Len(openEndpoints[s]) = Len(endpoints[s])

WholeInv == PollersInv /\ \A s \in Socks : Whole(s)

LEMMA AppendElements ==
    ASSUME NEW S, NEW seq \in Seq(S), NEW e \in S
    PROVE /\ Append(seq, e) \in Seq(S) /\ Len(Append(seq, e)) = Len(seq) + 1
          /\ Append(seq, e)[Len(seq) + 1] = e
          /\ \A i \in 1 .. Len(seq) : Append(seq, e)[i] = seq[i]
          /\ Elements(Append(seq, e)) = Elements(seq) \cup {e}
<1>1. /\ Append(seq, e) \in Seq(S) /\ Len(Append(seq, e)) = Len(seq) + 1
      /\ Append(seq, e)[Len(seq) + 1] = e
      /\ \A i \in 1 .. Len(seq) : Append(seq, e)[i] = seq[i]
    OBVIOUS
<1>2. Len(seq) \in Nat /\ DOMAIN seq = 1 .. Len(seq) /\ DOMAIN Append(seq, e) = 1 .. (Len(seq) + 1)
    BY <1>1
<1> QED BY <1>1, <1>2 DEF Elements

\* The step of a socket leaves the other sockets alone.
LEMMA Others ==
    ASSUME KTypeOK, NEW s \in Socks, SocketStep(s), NEW x \in Socks, x # s, Whole(x)
    PROVE Whole(x)'
<1>1. /\ ptr'[x] = ptr[x] /\ action'[x] = action[x] /\ endpoints'[x] = endpoints[x]
      /\ openEndpoints'[x] = openEndpoints[x] /\ bound'[x] = bound[x]
    <2>1. ASSUME NEW o \in Opens[s], Open(s, o[1], o[2])
          PROVE  /\ ptr'[x] = ptr[x] /\ action'[x] = action[x] /\ endpoints'[x] = endpoints[x]
                 /\ openEndpoints'[x] = openEndpoints[x] /\ bound'[x] = bound[x]
        BY <2>1, Zenon DEF Open, KTypeOK
    <2>2. CASE OpenEndpoint(s)
        BY <2>2, Zenon DEF OpenEndpoint, KTypeOK
    <2>3. ASSUME NEW p \in Pollers, UpdateOnOpen(s, p) PROVE UNCHANGED sockVars
        BY <2>3, Zenon DEF UpdateOnOpen
    <2>4. CASE Opened(s)
        BY <2>4, Zenon DEF Opened, KTypeOK
    <2>5. CASE OpenFails(s) \/ OpenThrows(s) \/ Close(s)
        BY <2>5, Zenon DEF OpenFails, OpenThrows, Close, Shut, KTypeOK
    <2> QED BY <2>1, <2>2, <2>3, <2>4, <2>5, Zenon DEF SocketStep, sockVars
<1> QED BY <1>1, Zenon DEF Whole

LEMMA ShutWhole ==
    ASSUME KTypeOK, NEW s \in Socks, Shut(s)
    PROVE Whole(s)'
BY Zenon DEF Shut, Whole, KTypeOK

LEMMA WholeStep ==
    ASSUME PollersInv, NEW s \in Socks, Whole(s), SocketStep(s)
    PROVE Whole(s)'
<1> USE DEF PollersInv
<1>0. /\ openEndpoints[s] \in Seq(Names) /\ endpoints[s] \in Seq(Names)
      /\ Len(openEndpoints[s]) \in Nat /\ Len(endpoints[s]) \in Nat
    BY DEF KTypeOK
<1>1. ASSUME NEW o \in Opens[s], Open(s, o[1], o[2]) PROVE Whole(s)'
    <2>1. o[2] \in Seq(Names) /\ Len(o[2]) \in Nat
        BY SocketsAssumption
    <2>2. /\ ptr'[s] = "opening" /\ endpoints'[s] = o[2]
          /\ openEndpoints'[s] = <<>> /\ bound'[s] = {}
        BY <1>1, Zenon DEF Open, Whole, KTypeOK
    <2>3. Elements(<<>>) = {} /\ Len(<<>>) = 0
        BY DEF Elements
    <2> QED BY <2>1, <2>2, <2>3 DEF Whole
<1>2. CASE OpenEndpoint(s)
    <2>1. Len(openEndpoints[s]) < Len(endpoints[s]) /\ ptr[s] = "opening"
        BY <1>2, Zenon DEF OpenEndpoint, Pending
    <2>2. PICK n \in Names : n = NextEndpoint(s)
        BY <1>0, <2>1 DEF NextEndpoint
    <2>3. /\ ptr'[s] = ptr[s] /\ action'[s] = action[s] /\ endpoints'[s] = endpoints[s]
          /\ openEndpoints'[s] = Append(openEndpoints[s], n)
        BY <1>2, <2>2, Zenon DEF OpenEndpoint, KTypeOK
    <2>4. bound'[s] = IF action[s] = "bind" THEN bound[s] \cup {n} ELSE bound[s]
        BY <1>2, <2>2, Zenon DEF OpenEndpoint, KTypeOK
    <2>5. n = endpoints[s][Len(openEndpoints[s]) + 1]
        BY <2>2, Zenon DEF NextEndpoint
    <2>6. \A i \in 1 .. Len(openEndpoints[s]) + 1 : Append(openEndpoints[s], n)[i] = endpoints[s][i]
        BY <1>0, <2>1, <2>5, AppendElements DEF Whole
    <2>7. /\ Len(Append(openEndpoints[s], n)) = Len(openEndpoints[s]) + 1
          /\ Elements(Append(openEndpoints[s], n)) = Elements(openEndpoints[s]) \cup {n}
        BY <1>0, AppendElements
    <2>8. bound'[s] = IF action'[s] = "bind" THEN Elements(openEndpoints'[s]) ELSE {}
        BY <2>1, <2>3, <2>4, <2>7, Zenon DEF Whole
    <2>9. /\ Len(openEndpoints'[s]) <= Len(endpoints'[s])
          /\ \A i \in 1 .. Len(openEndpoints'[s]) : openEndpoints'[s][i] = endpoints'[s][i]
        BY <1>0, <2>1, <2>3, <2>6, <2>7
    <2> QED BY <2>1, <2>3, <2>8, <2>9, Zenon DEF Whole
<1>3. ASSUME NEW p \in Pollers, UpdateOnOpen(s, p) PROVE Whole(s)'
    BY <1>3, Zenon DEF UpdateOnOpen, sockVars, Whole
<1>4. CASE Opened(s)
    <2>1. /\ ptr[s] = "opening" /\ ptr'[s] = "open" /\ ~(Len(openEndpoints[s]) < Len(endpoints[s]))
          /\ UNCHANGED <<action, endpoints, openEndpoints, bound>>
        BY <1>4, Zenon DEF Opened, AllEndpoints, Pending, KTypeOK
    <2> QED BY <1>0, <2>1 DEF Whole
<1>5. CASE OpenFails(s) \/ OpenThrows(s) \/ Close(s)
    BY <1>5, ShutWhole, Zenon DEF OpenFails, OpenThrows, Close
<1> QED BY <1>1, <1>2, <1>3, <1>4, <1>5, Zenon DEF SocketStep

\* open() is all or nothing, wherever it throws, for any list of endpoints.
THEOREM OpensAreWhole == KSpec => []OpenIsWhole
<1>1. KInit => WholeInv
    BY PollersInit DEF KInit, WholeInv, Whole
<1>2. ASSUME WholeInv, [KNext]_kvars PROVE WholeInv'
    <2>1. PollersInv'
        BY <1>2, PollersStep, Zenon DEF WholeInv
    <2>2. ASSUME NEW s \in Socks, SocketStep(s) PROVE WholeInv'
        <3>1. Whole(s)'
            BY <1>2, <2>2, WholeStep, Zenon DEF WholeInv
        <3>2. \A x \in Socks : x # s => Whole(x)'
            BY <1>2, <2>2, Others, Zenon DEF WholeInv, PollersInv
        <3> QED BY <2>1, <3>1, <3>2, Zenon DEF WholeInv
    <2>3. CASE UNCHANGED <<ptr, action, endpoints, openEndpoints, bound>>
        BY <1>2, <2>1, <2>3, Zenon DEF WholeInv, Whole
    <2>4. ASSUME NEW p \in Pollers, PollerStep(p) PROVE WholeInv'
        BY <2>3, <2>4, Zenon DEF PollerStep, NewPoller, AddSocket, PollerThrows, DestroyPoller, PollerDestroyed, sockVars
    <2>5. ASSUME NEW n \in Names, ReleaseName(n) PROVE WholeInv'
        BY <2>3, <2>5, Zenon DEF ReleaseName
    <2>6. CASE UNCHANGED kvars
        BY <2>3, <2>6, Zenon DEF kvars, sockVars
    <2> QED BY <1>2, <2>2, <2>4, <2>5, <2>6, Zenon DEF KNext
<1>3. WholeInv => OpenIsWhole
    <2> SUFFICES ASSUME WholeInv, NEW s \in Socks, ptr[s] = "open" PROVE openEndpoints[s] = endpoints[s]
        BY Zenon DEF WholeInv, Whole, OpenIsWhole
    <2>1. openEndpoints[s] \in Seq(Names) /\ endpoints[s] \in Seq(Names)
        BY Zenon DEF WholeInv, PollersInv, KTypeOK
    <2>2. Len(openEndpoints[s]) = Len(endpoints[s])
          /\ \A i \in 1 .. Len(openEndpoints[s]) : openEndpoints[s][i] = endpoints[s][i]
        BY Zenon DEF WholeInv, Whole
    <2> QED BY <2>1, <2>2, SMTT(20)
<1> QED BY <1>1, <1>2, <1>3, PTL DEF KSpec

-----------------------------------------------------------------------------
(* The two users of IOSteadyTimer. The invariant follows the one thing     *)
(* that an object is ever waiting for, from timerStart to the promise, and *)
(* where the cancel of stop() is in the queue besides it.                  *)

Handler(w) == [obj |-> obj, what |-> w]
One(w) == <<Handler(w)>>
Two(v, w) == <<Handler(v), Handler(w)>>

\* stop() has posted its handler, which has not run, or has.
Canceling == pc = "acking" /\ ~acked
Canceled == pc = "joining" \/ (pc = "acking" /\ acked)

ToStart ==
    /\ waiting = 0 /\ kept = 0 /\ expiry = "unset" /\ ~Canceled
    /\ io = IF Canceling THEN Two("timerStart", "timerCancel") ELSE One("timerStart")

Waits ==
    /\ waiting = obj /\ kept = 0 /\ expiry = "set" /\ ~Canceled
    /\ io = IF Canceling THEN One("timerCancel") ELSE <<>>

Fired ==
    /\ waiting = 0 /\ kept = 0 /\ expiry = IF Canceled THEN "min" ELSE "set"
    /\ IF Canceling
       THEN io = Two("timerFired", "timerCancel") \/ io = Two("timerCancel", "timerFired")
       ELSE io = One("timerFired")

Aborted ==
    /\ waiting = 0 /\ kept = 0 /\ expiry = "min" /\ Canceled
    /\ io = One("timerAborted")

Kept ==
    /\ waiting = 0 /\ kept = 1
    /\ io = IF Canceling THEN One("timerCancel") ELSE <<>>

Gone == ~alive /\ pc = "idle" /\ waiting = 0 /\ kept \in {0, 1} /\ io = <<>>

TimerInv ==
    /\ obj \in Nat
    /\ alive \in BOOLEAN /\ acked \in BOOLEAN /\ tick \in BOOLEAN /\ once \in BOOLEAN
    /\ again \in BOOLEAN
    /\ pc \in {"idle", "acking", "joining"}
    /\ \/ Gone
       \/ alive /\ obj # 0 /\ (ToStart \/ Waits \/ Fired \/ Aborted \/ Kept)

-----------------------------------------------------------------------------
(* Queues of one and of two handlers.                                      *)

LEMMA SameList ==
    ASSUME NEW S, NEW s \in Seq(S), NEW r \in Seq(S), Len(s) = Len(r),
           \A i \in 1 .. Len(s) : s[i] = r[i]
    PROVE  s = r
  OBVIOUS

LEMMA ShortQueues ==
    ASSUME NEW x, NEW y
    PROVE  /\ Append(<<>>, x) = <<x>> /\ Append(<<x>>, y) = <<x, y>>
           /\ Head(<<x>>) = x /\ Tail(<<x>>) = <<>>
           /\ Head(<<x, y>>) = x /\ Tail(<<x, y>>) = <<y>>
           /\ <<x>> # <<>> /\ <<x, y>> # <<>>
<1>1. Append(<<>>, x) = <<x>>
  OBVIOUS
<1>2. Append(<<x>>, y) = <<x, y>>
  <2>1. <<x>> \in Seq({x, y}) /\ <<x, y>> \in Seq({x, y})
    OBVIOUS
  <2>2. Append(<<x>>, y) \in Seq({x, y}) /\ Len(Append(<<x>>, y)) = 2
    BY <2>1
  <2>3. Append(<<x>>, y)[1] = x /\ Append(<<x>>, y)[2] = y
    OBVIOUS
  <2>4. Len(<<x, y>>) = 2 /\ <<x, y>>[1] = x /\ <<x, y>>[2] = y
    BY Zenon
  <2>5. \A i \in 1 .. Len(Append(<<x>>, y)) : Append(<<x>>, y)[i] = <<x, y>>[i]
    BY <2>2, <2>3, <2>4
  <2>6. Len(Append(<<x>>, y)) = Len(<<x, y>>)
    BY <2>2, <2>4, Zenon
  <2> QED BY <2>1, <2>2, <2>5, <2>6, SameList, Zenon
<1>3. Head(<<x>>) = x
  OBVIOUS
<1>4. Tail(<<x>>) = <<>>
  OBVIOUS
<1>5. Head(<<x, y>>) = x
  OBVIOUS
<1>6. Tail(<<x, y>>) = <<y>>
  OBVIOUS
<1>7. <<x>> # <<>> /\ <<x, y>> # <<>>
  BY Zenon
<1> QED BY <1>1, <1>2, <1>3, <1>4, <1>5, <1>6, <1>7, Zenon

-----------------------------------------------------------------------------
(* The steps of the owner.                                                 *)

LEMMA TimerInvInit == LInit => TimerInv
<1> SUFFICES ASSUME LInit PROVE TimerInv
  BY Zenon
<1>1. Gone
  BY Zenon DEF LInit, TimerInit, Gone
<1>2. /\ obj \in Nat /\ pc \in {"idle", "acking", "joining"}
      /\ alive \in BOOLEAN /\ acked \in BOOLEAN /\ tick \in BOOLEAN /\ once \in BOOLEAN
      /\ again \in BOOLEAN
  BY Zenon DEF LInit, TimerInit
<1> QED BY <1>1, <1>2, Zenon DEF TimerInv

\* Only an object that nobody uses any more is replaced.
LEMMA CreateStep ==
    ASSUME TimerInv, Create, io = <<>>, waiting = 0
    PROVE  TimerInv'
<1>1. NextObj \in Nat /\ NextObj # 0
  BY TimerAssumption DEF NextObj, TimerInv
<1>2. io' = <<[obj |-> NextObj, what |-> "timerStart"]>>
  BY ShortQueues, Zenon DEF Create
<1>3. ToStart'
  BY <1>2, Zenon DEF Create, ToStart, Canceled, Canceling, One, Handler
<1> QED BY <1>1, <1>3, Zenon DEF Create, TimerInv

LEMMA CancelStep ==
    ASSUME TimerInv, pc = "idle", NEW byStart \in BOOLEAN, Cancel(byStart)
    PROVE  /\ TimerInv' /\ ~Canceled /\ ~Canceled' /\ alive /\ alive' /\ tick' = tick
           /\ \/ ToStart /\ ToStart'
              \/ Waits /\ Waits'
              \/ Fired /\ Fired'
              \/ Kept /\ Kept'
<1>1. pc' = "acking" /\ ~acked' /\ alive' /\ obj' = obj /\ waiting' = waiting /\ kept' = kept
      /\ expiry' = expiry /\ io' = Append(io, Handler("timerCancel"))
      /\ Canceling' /\ ~Canceled' /\ ~Canceling /\ ~Canceled
  BY Zenon DEF Cancel, Post, Handler, Canceling, Canceled
<1>2. CASE ToStart
  <2>1. io' = Two("timerStart", "timerCancel")
    BY <1>1, <1>2, ShortQueues, Zenon DEF ToStart, One, Two
  <2>2. ToStart'
    BY <1>1, <1>2, <2>1, Zenon DEF ToStart, Two, Handler
  <2> QED BY <1>1, <1>2, <2>2, Zenon DEF Cancel, TimerInv, Gone
<1>3. CASE Waits
  <2>1. io' = One("timerCancel")
    BY <1>1, <1>3, ShortQueues, Zenon DEF Waits, One
  <2>2. Waits'
    BY <1>1, <1>3, <2>1, Zenon DEF Waits, One, Handler
  <2> QED BY <1>1, <1>3, <2>2, Zenon DEF Cancel, TimerInv, Gone
<1>4. CASE Fired
  <2>1. io' = Two("timerFired", "timerCancel")
    <3>1. io = One("timerFired")
      BY <1>1, <1>4, Zenon DEF Fired
    <3> QED BY <1>1, <3>1, ShortQueues, Zenon DEF One, Two
  <2>2. Fired'
    BY <1>1, <1>4, <2>1, Zenon DEF Fired, Two, Handler
  <2> QED BY <1>1, <1>4, <2>2, Zenon DEF Cancel, TimerInv, Gone
<1>5. CASE Kept
  <2>1. io' = One("timerCancel")
    BY <1>1, <1>5, ShortQueues, Zenon DEF Kept, One
  <2>2. Kept'
    BY <1>1, <1>5, <2>1, Zenon DEF Kept, One, Handler
  <2> QED BY <1>1, <1>5, <2>2, Zenon DEF Cancel, TimerInv, Gone
<1> QED BY <1>1, <1>2, <1>3, <1>4, <1>5, Zenon DEF TimerInv, Gone, Cancel, Aborted

\* The promise is kept once the wait for it ends, so nothing is queued.
LEMMA JoinedIsFree ==
    ASSUME TimerInv, pc = "joining", kept > 0
    PROVE  Kept /\ io = <<>> /\ waiting = 0
  BY DEF TimerInv, Gone, ToStart, Waits, Fired, Aborted, Kept, Canceling, Canceled

LEMMA OwnerSteps ==
    ASSUME TimerInv, Start \/ Stop \/ Acked \/ Join \/ Consume
    PROVE  TimerInv'
<1>1. CASE Start
  <2>1. CASE alive
    BY <1>1, <2>1, CancelStep, Zenon DEF Start
  <2>2. CASE ~alive
    <3>1. io = <<>> /\ waiting = 0
      BY <2>2, Zenon DEF TimerInv, Gone
    <3> QED BY <1>1, <2>2, <3>1, CreateStep, Zenon DEF Start
  <2> QED BY <2>1, <2>2, Zenon
<1>2. CASE Stop
  BY <1>2, CancelStep, Zenon DEF Stop
<1>3. CASE Acked
  <2>1. pc' = "joining" /\ pc = "acking" /\ acked /\ acked' = acked /\ alive' = alive /\ obj' = obj
        /\ waiting' = waiting /\ kept' = kept /\ expiry' = expiry /\ io' = io
        /\ again' = again /\ once' = once /\ tick' = tick
    BY <1>3, Zenon DEF Acked
  <2>2. ~ToStart /\ ~Waits /\ ~Gone /\ (Fired => Fired') /\ (Aborted => Aborted') /\ (Kept => Kept')
    BY <2>1, Zenon DEF ToStart, Waits, Gone, Fired, Aborted, Kept, Canceled, Canceling, One, Two, Handler
  <2> QED BY <2>1, <2>2, Zenon DEF TimerInv
<1>4. CASE Join
  <2>1. Kept /\ io = <<>> /\ waiting = 0
    BY <1>4, JoinedIsFree, Zenon DEF Join
  <2>2. CASE again
    BY <1>4, <2>1, <2>2, CreateStep, Zenon DEF Join
  <2>3. CASE ~again
    <3>1. Gone'
      BY <1>4, <2>1, <2>3, Zenon DEF Join, Gone, Kept
    <3> QED BY <1>4, <2>3, <3>1, Zenon DEF Join, TimerInv
  <2> QED BY <2>2, <2>3
<1>5. CASE Consume
  BY <1>5, Zenon DEF Consume, TimerInv, ToStart, Waits, Gone, Fired, Aborted, Kept, Canceled, Canceling,
       One, Two, Handler
<1> QED BY <1>1, <1>2, <1>3, <1>4, <1>5, Zenon

LEMMA CancellationSteps ==
    ASSUME TimerInv, (~alive /\ SetDeadline) \/ CancDestroy \/ CancDestroyed
    PROVE  TimerInv'
<1>1. CASE ~alive /\ SetDeadline
  <2>1. io = <<>> /\ waiting = 0
    BY <1>1, Zenon DEF TimerInv, Gone
  <2> QED BY <1>1, <2>1, CreateStep, Zenon DEF SetDeadline
<1>2. CASE CancDestroy
  BY <1>2, CancelStep, Zenon DEF CancDestroy
<1>3. CASE CancDestroyed
  <2>1. Kept /\ io = <<>> /\ waiting = 0
    BY <1>3, JoinedIsFree, Zenon DEF CancDestroyed
  <2>2. Gone'
    BY <1>3, <2>1, Zenon DEF CancDestroyed, Gone, Kept
  <2> QED BY <1>3, <2>2, Zenon DEF CancDestroyed, TimerInv
<1> QED BY <1>1, <1>2, <1>3, Zenon

-----------------------------------------------------------------------------
(* The steps of the io thread.                                             *)

LEMMA ExpireStep ==
    ASSUME TimerInv, Expire
    PROVE  TimerInv' /\ Waits /\ Fired'
<1>1. waiting # 0 /\ waiting' = 0 /\ io' = Append(io, Handler("timerFired"))
      /\ pc' = pc /\ acked' = acked /\ alive' = alive /\ obj' = obj /\ kept' = kept
      /\ expiry' = expiry /\ again' = again /\ once' = once /\ tick' = tick
      /\ (Canceling' <=> Canceling) /\ (Canceled' <=> Canceled)
  BY Zenon DEF Expire, Post, Handler, Canceling, Canceled
<1>2. Waits /\ alive /\ obj # 0
  BY <1>1, Zenon DEF TimerInv, Gone, ToStart, Fired, Aborted, Kept
<1>3. CASE Canceling
  <2>1. io' = Two("timerCancel", "timerFired")
    BY <1>1, <1>2, <1>3, ShortQueues, Zenon DEF Waits, One, Two
  <2>2. Fired'
    BY <1>1, <1>2, <1>3, <2>1, Zenon DEF Waits, Fired, Two, Handler
  <2> QED BY <1>1, <1>2, <2>2, Zenon DEF TimerInv
<1>4. CASE ~Canceling
  <2>1. io' = One("timerFired")
    BY <1>1, <1>2, <1>4, ShortQueues, Zenon DEF Waits, One
  <2>2. Fired'
    BY <1>1, <1>2, <1>4, <2>1, Zenon DEF Waits, Fired, One, Handler
  <2> QED BY <1>1, <1>2, <2>2 DEF TimerInv
<1> QED BY <1>3, <1>4, Zenon

\* What the next handler says about the state it runs in.
LEMMA HeadOf ==
    ASSUME TimerInv, io # <<>>
    PROVE  /\ alive /\ obj # 0 /\ Head(io) = Handler(Head(io).what)
           /\ Head(io).what = "timerStart" =>
                ToStart /\ Tail(io) = IF Canceling THEN One("timerCancel") ELSE <<>>
           /\ Head(io).what = "timerAborted" => Aborted /\ Tail(io) = <<>>
           /\ Head(io).what = "timerFired" =>
                Fired /\ Tail(io) = IF Canceling THEN One("timerCancel") ELSE <<>>
           /\ Head(io).what = "timerCancel" =>
                Canceling /\ \/ Waits /\ Tail(io) = <<>>
                             \/ Kept /\ Tail(io) = <<>>
                             \/ Fired /\ Tail(io) = One("timerFired")
<1>1. alive /\ obj # 0 /\ (ToStart \/ Waits \/ Fired \/ Aborted \/ Kept)
  BY Zenon DEF TimerInv, Gone
<1>2. \A w : Handler(w).what = w
  BY Zenon DEF Handler
<1>3. CASE ToStart
  <2>1. Head(io) = Handler("timerStart") /\ Tail(io) = IF Canceling THEN One("timerCancel") ELSE <<>>
    BY <1>3, ShortQueues, Zenon DEF ToStart, One, Two
  <2> QED BY <1>1, <1>2, <1>3, <2>1
<1>4. CASE Waits
  <2>1. Canceling /\ Head(io) = Handler("timerCancel") /\ Tail(io) = <<>>
    BY <1>4, ShortQueues, Zenon DEF Waits, One
  <2> QED BY <1>1, <1>2, <1>4, <2>1
<1>5. CASE Kept
  <2>1. Canceling /\ Head(io) = Handler("timerCancel") /\ Tail(io) = <<>>
    BY <1>5, ShortQueues, Zenon DEF Kept, One
  <2> QED BY <1>1, <1>2, <1>5, <2>1
<1>6. CASE Aborted
  <2>1. Head(io) = Handler("timerAborted") /\ Tail(io) = <<>>
    BY <1>6, ShortQueues, Zenon DEF Aborted, One
  <2> QED BY <1>1, <1>2, <1>6, <2>1
<1>7. CASE Fired
  <2>1. \/ Head(io) = Handler("timerFired") /\ Tail(io) = IF Canceling THEN One("timerCancel") ELSE <<>>
        \/ Canceling /\ Head(io) = Handler("timerCancel") /\ Tail(io) = One("timerFired")
    <3>1. CASE io = Two("timerFired", "timerCancel")
      BY <1>7, <3>1, ShortQueues, Zenon DEF Fired, One, Two, Handler
    <3>2. CASE io = Two("timerCancel", "timerFired")
      <4>1. Canceling
        BY <1>7, <3>2, Zenon DEF Fired, One, Two, Handler
      <4> QED BY <3>2, <4>1, ShortQueues, Zenon DEF One, Two
    <3>3. CASE io = One("timerFired")
      <4>1. ~Canceling
        BY <1>7, <3>3, Zenon DEF Fired, One, Two, Handler
      <4> QED BY <3>3, <4>1, ShortQueues, Zenon DEF One
    <3> QED BY <1>7, <3>1, <3>2, <3>3, Zenon DEF Fired
  <2> QED BY <1>1, <1>2, <1>7, <2>1
<1> QED BY <1>1, <1>3, <1>4, <1>5, <1>6, <1>7, Zenon

\* Each handler leads to one state of the object; the cancel, which may find it
\* waiting, fired or done, is the only one that leaves it where it is.
LEMMA HandlerStep ==
    ASSUME TimerInv, RunHandler
    PROVE  /\ TimerInv'
           /\ Head(io).what = "timerStart" => ToStart /\ Waits' /\ tick' = tick
           /\ Head(io).what = "timerCancel" =>
                ~Canceled /\ Canceled' /\ (Aborted' \/ Fired' \/ Kept') /\ tick' = tick
           /\ Head(io).what = "timerAborted" => Aborted /\ Kept' /\ tick' = tick
           /\ Head(io).what = "timerFired" =>
                /\ Fired
                /\ \/ Canceled /\ Kept' /\ tick' = tick
                   \/ ~Canceled /\ tick' = TRUE /\ once /\ Kept'
                   \/ ~Canceled /\ tick' = TRUE /\ ~once /\ Waits'
<1>1. io # <<>> /\ alive' = alive /\ pc' = pc /\ obj' = obj /\ again' = again /\ once' = once
  BY Zenon DEF RunHandler
<1>2. Head(io).what \in Handlers
  BY Zenon DEF RunHandler, Handlers
<1>3. /\ alive /\ obj # 0 /\ Head(io).obj = obj
  BY <1>1, HeadOf DEF Handler
<1>4. /\ alive' \in BOOLEAN /\ obj' \in Nat /\ again' \in BOOLEAN /\ once' \in BOOLEAN
      /\ once \in BOOLEAN /\ acked \in BOOLEAN /\ tick \in BOOLEAN
      /\ pc' \in {"idle", "acking", "joining"}
  BY <1>1, Zenon DEF TimerInv
<1>5. CASE Head(io).what = "timerStart"
  <2>1. ToStart /\ Tail(io) = IF Canceling THEN One("timerCancel") ELSE <<>>
    BY <1>1, <1>5, HeadOf, Zenon
  <2>2. TimerStart(Head(io))
    BY <1>5, Zenon DEF RunHandler
  <2>3. acked' = acked /\ tick' = tick /\ Waits'
    BY <1>1, <1>3, <2>1, <2>2, Zenon
       DEF TimerStart, ToStart, Waits, Canceling, Canceled, One, Handler
  <2> QED BY <1>1, <1>3, <1>4, <1>5, <2>1, <2>3, Zenon DEF TimerInv
<1>6. CASE Head(io).what = "timerCancel"
  <2>1. TimerCancel(Head(io))
    BY <1>6, Zenon DEF RunHandler
  <2>2. Canceling /\ ~Canceled
    BY <1>1, <1>6, HeadOf, Zenon DEF Canceling, Canceled
  <2>3. acked' = TRUE /\ tick' = tick /\ Canceled' /\ ~Canceling' /\ kept' = kept
        /\ expiry' = "min" /\ waiting' = 0
    BY <1>1, <2>1, <2>2, Zenon DEF TimerCancel, Canceling, Canceled
  <2>4. CASE Waits /\ Tail(io) = <<>>
    <3>1. io' = Append(<<>>, Handler("timerAborted"))
      BY <1>3, <2>1, <2>4, Zenon DEF TimerCancel, Waits, Handler
    <3>2. io' = One("timerAborted")
      BY <3>1, ShortQueues, Zenon DEF One
    <3>3. Aborted'
      BY <1>1, <2>3, <2>4, <3>2, Zenon DEF Aborted, Waits, One, Handler
    <3> QED BY <1>1, <1>3, <1>4, <1>6, <2>2, <2>3, <3>3, Zenon DEF TimerInv
  <2>5. CASE Kept /\ Tail(io) = <<>>
    <3>1. Kept'
      BY <2>1, <2>3, <2>5, Zenon DEF TimerCancel, Kept
    <3> QED BY <1>1, <1>3, <1>4, <1>6, <2>2, <2>3, <3>1, Zenon DEF TimerInv
  <2>6. CASE Fired /\ Tail(io) = One("timerFired")
    <3>1. io' = One("timerFired")
      BY <2>1, <2>6, Zenon DEF TimerCancel, Fired
    <3>2. Fired'
      BY <1>1, <2>3, <2>6, <3>1, Zenon DEF Fired, One, Handler
    <3> QED BY <1>1, <1>3, <1>4, <1>6, <2>2, <2>3, <3>2, Zenon DEF TimerInv
  <2> QED BY <1>1, <1>6, <2>4, <2>5, <2>6, HeadOf, Zenon
<1>7. CASE Head(io).what = "timerAborted"
  <2>1. Aborted /\ Tail(io) = <<>>
    BY <1>1, <1>7, HeadOf, Zenon
  <2>2. TimerAborted(Head(io))
    BY <1>7, Zenon DEF RunHandler
  <2>3. acked' = acked /\ tick' = tick /\ Kept'
    BY <1>1, <2>1, <2>2 DEF TimerAborted, Aborted, Kept, Canceling, Canceled
  <2> QED BY <1>1, <1>3, <1>4, <1>7, <2>1, <2>3, Zenon DEF TimerInv
<1>8. CASE Head(io).what = "timerFired"
  <2>1. Fired /\ Tail(io) = IF Canceling THEN One("timerCancel") ELSE <<>>
    BY <1>1, <1>8, HeadOf, Zenon
  <2>2. TimerFired(Head(io))
    BY <1>8, Zenon DEF RunHandler
  <2>3. io' = Tail(io) /\ acked' = acked /\ (Canceling' <=> Canceling) /\ (Canceled' <=> Canceled)
    BY <1>1, <2>2, Zenon DEF TimerFired, Canceling, Canceled
  <2>4. CASE Canceled
    <3>1. tick' = tick /\ Kept'
      BY <1>1, <2>1, <2>2, <2>3, <2>4 DEF TimerFired, Fired, Kept, One, Handler
    <3> QED BY <1>1, <1>3, <1>4, <1>8, <2>1, <2>3, <2>4, <3>1, Zenon DEF TimerInv
  <2>5. CASE ~Canceled /\ once
    <3>1. tick' = TRUE /\ Kept'
      BY <1>1, <2>1, <2>2, <2>3, <2>5 DEF TimerFired, Fired, Kept, One, Handler
    <3> QED BY <1>1, <1>3, <1>4, <1>8, <2>1, <2>3, <2>5, <3>1, Zenon DEF TimerInv
  <2>6. CASE ~Canceled /\ ~once
    <3>1. tick' = TRUE /\ Waits'
      BY <1>1, <1>3, <2>1, <2>2, <2>3, <2>6, Zenon DEF TimerFired, Fired, Waits, One, Handler
    <3> QED BY <1>1, <1>3, <1>4, <1>8, <2>1, <2>3, <2>6, <3>1, Zenon DEF TimerInv
  <2> QED BY <2>4, <2>5, <2>6, Zenon
<1> QED BY <1>2, <1>5, <1>6, <1>7, <1>8, Zenon DEF Handlers

LEMMA TimerInvNext == TimerInv /\ [LNext]_lvars => TimerInv'
<1> SUFFICES ASSUME TimerInv, [LNext]_lvars PROVE TimerInv'
  BY Zenon
<1>1. CASE Start \/ Stop \/ Acked \/ Join \/ Consume
  BY <1>1, OwnerSteps, Zenon
<1>2. CASE (~alive /\ SetDeadline) \/ CancDestroy \/ CancDestroyed
  BY <1>2, CancellationSteps, Zenon
<1>3. CASE Expire
  BY <1>3, ExpireStep, Zenon
<1>4. CASE RunHandler
  BY <1>4, HandlerStep, Zenon
<1>5. CASE UNCHANGED lvars
  BY <1>5 DEF lvars, timerVars, TimerInv, ToStart, Waits, Gone, Fired, Aborted, Kept, Canceled,
       Canceling, One, Two, Handler
<1> QED BY <1>1, <1>2, <1>3, <1>4, <1>5, Zenon DEF LNext

LEMMA TimerInvAlways == LSpec => []TimerInv
  BY TimerInvInit, TimerInvNext, PTL DEF LSpec

LEMMA ShortDomains ==
    ASSUME NEW x, NEW y
    PROVE  /\ DOMAIN <<>> = {} /\ DOMAIN <<x>> = {1} /\ DOMAIN <<x, y>> = {1, 2}
           /\ <<x>>[1] = x /\ <<x, y>>[1] = x /\ <<x, y>>[2] = y
  OBVIOUS

\* An IOSteadyTimer is deleted only after the last handler and the last wait
\* that refer to it, and its promise is kept once, whichever of Timer and
\* Cancellation owns it and whenever a cancel meets an expiry.
THEOREM NothingDangles == LSpec => []NoDangling
<1>1. ASSUME TimerInv PROVE NoDangling
  <2>1. kept <= 1 /\ (waiting # 0 => alive /\ waiting = obj)
    BY <1>1 DEF TimerInv, Gone, ToStart, Waits, Fired, Aborted, Kept
  <2>2. io = <<>> \/ (alive /\ \E v : io = One(v)) \/ (alive /\ \E v, w : io = Two(v, w))
    BY <1>1, Zenon DEF TimerInv, Gone, ToStart, Waits, Fired, Aborted, Kept
  <2>3. \A i \in DOMAIN io : alive /\ io[i].obj = obj
    <3>1. CASE io = <<>>
      BY <3>1, ShortDomains, Zenon
    <3>2. CASE alive /\ \E v : io = One(v)
      BY <3>2, ShortDomains DEF One, Handler
    <3>3. CASE alive /\ \E v, w : io = Two(v, w)
      <4> PICK v, w : io = Two(v, w)
        BY <3>3, Zenon
      <4>1. DOMAIN io = {1, 2} /\ io[1] = Handler(v) /\ io[2] = Handler(w)
        BY ShortDomains, Zenon DEF Two
      <4> QED BY <3>3, <4>1 DEF Handler
    <3> QED BY <2>2, <3>1, <3>2, <3>3, Zenon
  <2> QED BY <2>1, <2>3, Zenon DEF NoDangling
<1> QED BY <1>1, TimerInvAlways, PTL

-----------------------------------------------------------------------------
(* The refinement.                                                         *)

\* The life of an object says whether it can still expire.
LEMMA ArmedIs ==
    ASSUME TimerInv
    PROVE  Armed <=> alive /\ (ToStart \/ Waits \/ (Fired /\ ~Canceled))
<1>1. \A w : Handler(w).what = w
  BY Zenon DEF Handler
<1>2. CASE Gone
  BY <1>2, ShortDomains, Zenon DEF Gone, Armed
<1>3. CASE alive /\ ToStart
  <2>1. 1 \in DOMAIN io /\ io[1] = Handler("timerStart")
    BY <1>3, ShortDomains, Zenon DEF ToStart, One, Two
  <2> QED BY <1>1, <1>3, <2>1, Zenon DEF Armed
<1>4. CASE alive /\ obj # 0 /\ Waits
  BY <1>4, Zenon DEF Armed, Waits
<1>5. CASE alive /\ obj # 0 /\ Fired
  <2>1. \/ DOMAIN io = {1} /\ io[1] = Handler("timerFired")
        \/ DOMAIN io = {1, 2} /\ io[1] = Handler("timerFired") /\ io[2] = Handler("timerCancel")
        \/ DOMAIN io = {1, 2} /\ io[1] = Handler("timerCancel") /\ io[2] = Handler("timerFired")
    BY <1>5, ShortDomains DEF Fired, One, Two
  <2>2. /\ \E i \in DOMAIN io : io[i].what = "timerFired"
        /\ ~\E i \in DOMAIN io : io[i].what = "timerStart"
    BY <1>1, <2>1
  <2>3. waiting = 0 /\ (expiry # "min" <=> ~Canceled) /\ ~ToStart
    BY <1>5, <2>1, ShortDomains, Zenon DEF Fired, ToStart, One, Two, Handler
  <2>4. ~Waits
    BY <1>5, Zenon DEF Fired, Waits
  <2> QED BY <1>5, <2>2, <2>3, <2>4, Zenon DEF Armed
<1>6. CASE alive /\ obj # 0 /\ (Aborted \/ Kept)
  <2>1. waiting = 0 /\ ~ToStart /\ ~Waits /\ ~(Fired /\ ~Canceled)
    BY <1>6 DEF Aborted, Kept, ToStart, Waits, Fired
  <2>2. \A i \in DOMAIN io : io[i].what \in {"timerAborted", "timerCancel"}
    BY <1>1, <1>6, ShortDomains DEF Aborted, Kept, One
  <2> QED BY <1>6, <2>1, <2>2, Zenon DEF Armed
<1> QED BY <1>2, <1>3, <1>4, <1>5, <1>6, Zenon DEF TimerInv

LEMMA ArmedIsThen ==
    (TimerInv => (Armed <=> alive /\ (ToStart \/ Waits \/ (Fired /\ ~Canceled))))'
<1>1. TimerInv => (Armed <=> alive /\ (ToStart \/ Waits \/ (Fired /\ ~Canceled)))
  BY ArmedIs, Zenon
<1> QED BY <1>1, PTL

LEMMA MapsInit == LInit => Abstract!TInit
<1> SUFFICES ASSUME LInit PROVE Abstract!TInit
  BY Zenon
<1>1. io = <<>> /\ waiting = 0 /\ tick = FALSE
  BY Zenon DEF LInit, TimerInit
<1>2. Armed = FALSE
  BY <1>1, ShortDomains, Zenon DEF Armed
<1> QED BY <1>1, <1>2, Zenon DEF Abstract!TInit

\* Every step of the threads is one of the abstract timer, or none at all.
LEMMA MapsNext ==
    ASSUME TimerInv, TimerInv', [LNext]_lvars
    PROVE  [Abstract!TNext]_(Abstract!tvars)
<1>a. Armed \in BOOLEAN /\ Armed' \in BOOLEAN
  BY Zenon DEF Armed
<1>b. Armed <=> alive /\ (ToStart \/ Waits \/ (Fired /\ ~Canceled))
  BY ArmedIs, Zenon
<1>c. Armed' <=> alive' /\ (ToStart' \/ Waits' \/ (Fired' /\ ~Canceled'))
  BY ArmedIsThen, Zenon
<1> HIDE DEF Armed
<1> USE DEF Abstract!TNext, Abstract!tvars, Abstract!TStart, Abstract!TStop, Abstract!TFire,
        Abstract!TConsume
<1>1. ASSUME Armed' = Armed, tick' = tick
      PROVE  [Abstract!TNext]_(Abstract!tvars)
  BY <1>1, Zenon
<1>2. ASSUME Create, io = <<>>, waiting = 0
      PROVE  [Abstract!TNext]_(Abstract!tvars)
  <2>1. io' = <<[obj |-> NextObj, what |-> "timerStart"]>>
    BY <1>2, ShortQueues, Zenon DEF Create
  <2>2. ToStart' /\ alive' /\ tick' = tick
    BY <1>2, <2>1, Zenon DEF Create, ToStart, Canceled, Canceling, One, Handler
  <2> QED BY <1>a, <1>c, <2>2, Zenon
<1>3. ASSUME NEW byStart \in BOOLEAN, pc = "idle", Cancel(byStart)
      PROVE  [Abstract!TNext]_(Abstract!tvars)
  <2>1. /\ ~Canceled /\ ~Canceled' /\ alive /\ alive' /\ tick' = tick
        /\ \/ ToStart /\ ToStart'
           \/ Waits /\ Waits'
           \/ Fired /\ Fired'
           \/ Kept /\ Kept'
    BY <1>3, CancelStep, Zenon
  <2>2. (Kept => ~(ToStart \/ Waits \/ Fired)) /\ (Kept' => ~(ToStart' \/ Waits' \/ Fired'))
    BY DEF Kept, ToStart, Waits, Fired
  <2>3. Armed' = Armed
    BY <1>a, <1>b, <1>c, <2>1, <2>2, Zenon
  <2> QED BY <1>1, <2>1, <2>3, Zenon
<1>4. CASE Start
  <2>1. CASE alive
    BY <1>3, <1>4, <2>1, Zenon DEF Start
  <2>2. CASE ~alive
    <3>1. io = <<>> /\ waiting = 0
      BY <2>2, Zenon DEF TimerInv, Gone
    <3> QED BY <1>2, <1>4, <2>2, <3>1, Zenon DEF Start
  <2> QED BY <2>1, <2>2, Zenon
<1>5. CASE Stop \/ CancDestroy
  BY <1>3, <1>5, Zenon DEF Stop, CancDestroy
<1>6. CASE ~alive /\ SetDeadline
  <2>1. io = <<>> /\ waiting = 0
    BY <1>6, Zenon DEF TimerInv, Gone
  <2> QED BY <1>2, <1>6, <2>1, Zenon DEF SetDeadline
<1>7. CASE Acked \/ UNCHANGED lvars
  <2>1. tick' = tick /\ io' = io /\ waiting' = waiting /\ expiry' = expiry
    BY <1>7, Zenon DEF Acked, lvars, timerVars
  <2>2. Armed' = Armed
    BY <2>1, Zenon DEF Armed
  <2> QED BY <1>1, <2>1, <2>2, Zenon
<1>8. CASE Join
  <2>1. Kept /\ io = <<>> /\ waiting = 0
    BY <1>8, JoinedIsFree, Zenon DEF Join
  <2>2. CASE again
    BY <1>2, <1>8, <2>1, <2>2, Zenon DEF Join
  <2>3. CASE ~again
    <3>1. tick' = tick /\ io' = io /\ waiting' = waiting /\ expiry' = expiry
      BY <1>8, <2>3, Zenon DEF Join
    <3>2. Armed' = Armed
      BY <3>1 DEF Armed
    <3> QED BY <1>1, <3>1, <3>2
  <2> QED BY <2>2, <2>3, Zenon
<1>9. CASE Consume \/ CancDestroyed
  <2>1. tick' = FALSE /\ tick \in BOOLEAN /\ io' = io /\ waiting' = waiting /\ expiry' = expiry
    BY <1>9, Zenon DEF Consume, CancDestroyed, TimerInv
  <2>2. Armed' = Armed
    BY <2>1, Zenon DEF Armed
  <2> QED BY <2>1, <2>2, Zenon
<1>10. CASE Expire
  <2>1. Waits /\ Fired' /\ tick' = tick /\ alive' = alive /\ (Canceled' <=> Canceled)
    BY <1>10, ExpireStep, Zenon DEF Expire, Canceled
  <2>2. alive /\ ~Canceled
    BY <1>10, <2>1, Zenon DEF Waits, Expire, TimerInv, Gone
  <2>3. Armed' = Armed
    BY <1>a, <1>b, <1>c, <2>1, <2>2, Zenon
  <2> QED BY <1>1, <2>1, <2>3, Zenon
<1>11. CASE RunHandler
  <2>1. alive' = alive /\ alive /\ Head(io).what \in Handlers
    BY <1>11, HeadOf, Zenon DEF RunHandler, Handlers
  <2>2. (Kept' \/ Aborted') => ~(ToStart' \/ Waits' \/ (Fired' /\ ~Canceled'))
    BY DEF TimerInv, Kept, Aborted, ToStart, Waits, Fired
  <2>3. CASE Head(io).what = "timerStart"
    <3>1. ToStart /\ Waits' /\ tick' = tick
      BY <1>11, <2>3, HandlerStep, Zenon
    <3> QED BY <1>1, <1>a, <1>b, <1>c, <2>1, <3>1, Zenon
  <2>4. CASE Head(io).what = "timerCancel"
    <3>1. Canceled' /\ (Aborted' \/ Fired' \/ Kept') /\ tick' = tick
      BY <1>11, <2>4, HandlerStep, Zenon
    <3>2. Armed' = FALSE
      BY <1>a, <1>c, <2>2, <3>1, Zenon DEF Fired, ToStart, Waits
    <3> QED BY <3>1, <3>2, Zenon
  <2>5. CASE Head(io).what = "timerAborted"
    <3>1. Aborted /\ Kept' /\ tick' = tick
      BY <1>11, <2>5, HandlerStep, Zenon
    <3>2. Armed' = FALSE
      BY <1>a, <1>c, <2>2, <3>1, Zenon
    <3> QED BY <3>1, <3>2, Zenon
  <2>6. CASE Head(io).what = "timerFired"
    <3>1. /\ Fired
          /\ \/ Canceled /\ Kept' /\ tick' = tick
             \/ ~Canceled /\ tick' = TRUE /\ once /\ Kept'
             \/ ~Canceled /\ tick' = TRUE /\ ~once /\ Waits'
      BY <1>11, <2>6, HandlerStep, Zenon
    <3>2. CASE Canceled /\ Kept' /\ tick' = tick
      <4>1. Armed' = FALSE
        BY <1>a, <1>c, <2>2, <3>2, Zenon
      <4> QED BY <3>2, <4>1, Zenon
    <3>3. CASE ~Canceled /\ tick' = TRUE /\ once /\ Kept'
      <4>1. Armed /\ Armed' = FALSE
        BY <1>a, <1>b, <1>c, <2>1, <2>2, <3>1, <3>3, Zenon
      <4>2. Armed' = ~once
        BY <4>1, <3>3, Zenon
      <4> QED BY <3>3, <4>1, <4>2, Zenon
    <3>4. CASE ~Canceled /\ tick' = TRUE /\ ~once /\ Waits'
      <4>1. Armed /\ Armed' = TRUE
        BY <1>a, <1>b, <1>c, <2>1, <3>1, <3>4, Zenon
      <4>2. Armed' = ~once
        BY <4>1, <3>4, Zenon
      <4> QED BY <3>4, <4>1, <4>2, Zenon
    <3> QED BY <3>1, <3>2, <3>3, <3>4, Zenon
  <2> QED BY <2>1, <2>3, <2>4, <2>5, <2>6, Zenon DEF Handlers
<1> QED BY <1>4, <1>5, <1>6, <1>7, <1>8, <1>9, <1>10, <1>11, Zenon DEF LNext

\* The owner's thread and the io thread together implement the timer that the
\* state machines are written against: nothing expires after stop(), a single
\* shot expires once for each start(), and an expiry is never taken back.
THEOREM TimerRefines == LSpec => Implements
<1>1. TimerInv /\ TimerInv' /\ [LNext]_lvars => [Abstract!TNext]_(Abstract!tvars)
  BY MapsNext, Zenon
<1> QED BY <1>1, MapsInit, TimerInvAlways, PTL DEF LSpec, Implements, Abstract!TSpec

-----------------------------------------------------------------------------
(* ConnMachine.                                                            *)

\* What the timers, the state and the sockets have to do with each other.  An
\* expired single shot timer is not armed, so a timeout in Trying or Stable is
\* either to come or to be handled.
ConnInv ==
    /\ TypeOK
    /\ sock <=> state # "Halted"
    /\ (\E i \in DOMAIN calls : calls[i] = "pong") => sock
    /\ TimersFollow

\* The sequences of callbacks the handlers make.
LEMMA CallTypes ==
    /\ <<>> \in Seq(Callbacks) /\ <<"close">> \in Seq(Callbacks)
    /\ <<"pong">> \in Seq(Callbacks) /\ <<"close", "change">> \in Seq(Callbacks)
    /\ \A s \in States : Change(s) \o <<"pong">> \in Seq(Callbacks)
    /\ \A s \in States : Change(s) \o <<"close", "open", "pong">> \in Seq(Callbacks)
<1>1. /\ <<"pong">> \in Seq(Callbacks)
      /\ <<"close", "open", "pong">> \in Seq(Callbacks)
      /\ <<"change">> \in Seq(Callbacks)
    BY DEF Callbacks
<1>2. \A s : Change(s) \in Seq(Callbacks)
    BY <1>1 DEF Change
<1> QED BY <1>1, <1>2 DEF Callbacks

\* A step that makes no pong.
LEMMA NoPong ==
    /\ \A i \in DOMAIN <<>> : <<>>[i] # "pong"
    /\ \A i \in DOMAIN <<"close">> : <<"close">>[i] # "pong"
    /\ \A i \in DOMAIN <<"close", "change">> : <<"close", "change">>[i] # "pong"
    OBVIOUS

\* The constructor of ConnMachine establishes the invariant.
LEMMA ConnInit == Init => ConnInv
    BY CallTypes, NoPong, Zenon DEF Init, ConnInv, TypeOK, States, TimersFollow,
       Try!TInit, Tmo!TInit

\* One step per handler, and one per timer.
LEMMA ConnStep == ASSUME ConnInv, [Next]_vars PROVE ConnInv'
<1> USE DEF ConnInv, TypeOK, States, TimersFollow
<1>1. ASSUME Trigger, tmoTick' \in BOOLEAN PROVE ConnInv'
    BY <1>1, CallTypes, Zenon DEF Trigger, Try!TStart
<1>2. CASE OnStart
    BY <1>1, <1>2, Zenon DEF OnStart
<1>3. CASE OnStop
    BY <1>3, CallTypes, NoPong, Zenon DEF OnStop, Halt, Try!TStop, Tmo!TStop
<1>4. CASE OnPing
    BY <1>4, CallTypes, Zenon DEF OnPing, Try!TStop, Tmo!TStart
<1>5. CASE OnTimerRetryFired
    BY <1>5, CallTypes, NoPong, Zenon DEF OnTimerRetryFired, Try!TConsume
<1>6. CASE OnTimerTimeoutFired
    <2>1. CASE state = "Halted"
        BY <1>6, <2>1, CallTypes, NoPong, Zenon DEF OnTimerTimeoutFired
    <2>2. CASE state # "Halted"
        BY <1>1, <1>6, <2>2, Zenon DEF OnTimerTimeoutFired
    <2> QED BY <2>1, <2>2, Zenon
<1>7. CASE RetryExpires
    BY <1>7, CallTypes, NoPong, Zenon DEF RetryExpires, Try!TFire
<1>8. CASE TimeoutExpires
    BY <1>8, CallTypes, NoPong, Zenon DEF TimeoutExpires, Tmo!TFire
<1>9. CASE UNCHANGED vars
    BY <1>9, Zenon DEF vars
<1> QED BY <1>2, <1>3, <1>4, <1>5, <1>6, <1>7, <1>8, <1>9, Zenon DEF Next

-----------------------------------------------------------------------------
\* Every behaviour of the worker and the broker is, for the machine, one of its
\* own: what the network and the broker do only chooses among its handlers.
LEMMA ConnectionIsMachine == CSpec => Spec
<1>1. CInit => Init
    BY Zenon DEF CInit
<1>2. [CNext]_cvars => [Next]_vars
    BY Zenon DEF CNext, cvars, WorkerStart, WorkerStop, RetryFired, TimeoutFired, Expiry, Ping,
           TopicRead, SnapshotBlocks, SnapshotReturns, BrokerStart, BrokerEnd, Announced,
           HugzExpires, SendHugz, Relay, Lose, Arrive, Next
<1> QED BY <1>1, <1>2, PTL DEF CSpec, Spec

\* The same invariant for both.
LEMMA ConnInvariance == Spec => []ConnInv
<1>1. ConnInv /\ [Next]_vars => ConnInv'
    BY ConnStep
<1> QED BY <1>1, ConnInit, PTL DEF Spec

\* The worker of a Connection is well typed as a machine.
THEOREM ConnTypeCorrect == CSpec => []TypeOK
<1>1. ConnInv => TypeOK
    BY Zenon DEF ConnInv
<1> QED BY <1>1, ConnectionIsMachine, ConnInvariance, PTL

\* doPong_ is never called on closed sockets, and they are open exactly out of
\* Halted.
THEOREM ConnSockets == CSpec => []SocketsFollow
<1>1. ConnInv => SocketsFollow
    BY Zenon DEF ConnInv, SocketsFollow
<1> QED BY <1>1, ConnectionIsMachine, ConnInvariance, PTL

\* The timers are active in the states connmachine.h says they are: a machine
\* that is not halted never waits without a timeout ahead, and a halted one
\* has nothing armed.
THEOREM ConnTimers == CSpec => []TimersFollow
<1>1. ConnInv => TimersFollow
    BY Zenon DEF ConnInv
<1> QED BY <1>1, ConnectionIsMachine, ConnInvariance, PTL

\* Nothing is waiting for a halted worker, and it waits for nothing: closing the
\* socket drops what it had received, and what stops it is the loop's thread.
LEMMA PingStep == ASSUME ConnInv, NoPingHalted, [CNext]_cvars PROVE NoPingHalted'
<1> USE DEF NoPingHalted
<1>1. CASE WorkerStart
    BY <1>1, Zenon DEF WorkerStart, OnStart, Trigger
<1>2. CASE WorkerStop
    <2>1. calls' = <<"close", "change">>
        BY <1>2, Zenon DEF WorkerStop, OnStop, Halt
    <2>2. 1 \in DOMAIN calls' /\ calls'[1] = "close"
        BY <2>1
    <2>3. Called("close")
        BY <2>2, Zenon DEF Called
    <2> QED BY <1>2, <2>3, Zenon DEF WorkerStop, Served, Effects
<1>3. CASE RetryFired
    BY <1>3, Zenon DEF RetryFired, OnTimerRetryFired, Served, Effects
<1>4. CASE TimeoutFired
    <2>1. CASE state = "Halted"
        <3>1. ~(heard + topics > 0)
            BY <2>1
        <3> QED BY <1>4, <2>1, <3>1, Zenon DEF TimeoutFired, OnTimerTimeoutFired, Effects
    <2>2. CASE state # "Halted"
        BY <1>4, <2>2, Zenon DEF TimeoutFired, OnTimerTimeoutFired, Trigger
    <2> QED BY <2>1, <2>2, Zenon
<1>5. CASE Expiry
    BY <1>5, Zenon DEF Expiry, RetryExpires, TimeoutExpires, Effects
<1>6. CASE Ping
    BY <1>6, Zenon DEF Ping, OnPing
<1>7. CASE BrokerStart \/ BrokerEnd \/ Announced \/ HugzExpires
    BY <1>7, Zenon DEF BrokerStart, BrokerEnd, Announced, HugzExpires, vars
<1>8. CASE SendHugz \/ Relay
    BY <1>8, Zenon DEF SendHugz, Relay, ConnInv, vars
<1>9. CASE Lose
    BY <1>9 DEF Lose, vars
<1>10. CASE UNCHANGED cvars
    BY <1>10, Zenon DEF cvars, vars, netVars
<1>11. CASE TopicRead \/ SnapshotBlocks \/ SnapshotReturns \/ Arrive
    <2>1. state # "Halted" \/ SnapshotReturns
        BY <1>11, Zenon DEF TopicRead, Receives, SnapshotBlocks, Arrive, ConnInv
    <2>2. UNCHANGED state
        BY <1>11, Zenon DEF TopicRead, SnapshotBlocks, SnapshotReturns, Arrive, vars
    <2> QED BY <2>1, <2>2, Zenon DEF SnapshotReturns
<1> QED BY <1>1, <1>2, <1>3, <1>4, <1>5, <1>6, <1>7, <1>8, <1>9, <1>10, <1>11, Zenon DEF CNext

\* No message is left for a worker that was stopped, and its thread waits in no
\* receive: the next start finds it in its loop.
THEOREM ConnNoPingHalted == CSpec => []NoPingHalted
<1>1. CInit => NoPingHalted
    BY Zenon DEF CInit, NoPingHalted
<1>2. ConnInv /\ NoPingHalted /\ [CNext]_cvars => NoPingHalted'
    BY PingStep, Zenon
<1>3. CSpec => []ConnInv
    BY ConnectionIsMachine, ConnInvariance, PTL
<1> QED BY <1>1, <1>2, <1>3, PTL DEF CSpec
=============================================================================
