----------------------------- MODULE ServiceProofs -----------------------------
(***************************************************************************)
(* Proofs about the gRPC front end, for any number of calls, of events and *)
(* of messages waiting in a socket.  What a stream carries rests on an     *)
(* invariant of one stream, StreamInv; that no session is left behind on   *)
(* an invariant of the shared socket and of the client loop, LoopInv.      *)
(***************************************************************************)
EXTENDS Service, TLAPS

-----------------------------------------------------------------------------
(* Streams.                                                                *)

StreamStates == {"off", "connected", "joined", "left", "done"}
Marks == {RCPSetup, RCPTeardown}
Entries == Marks \cup {Event(n) : n \in Nat}

StreamRecords == [pc : StreamStates, queue : Seq(Nat), out : Seq(Entries), first : Nat,
                  stalled : BOOLEAN]

\* RCPSetup, then the events from the first one on, without a gap.
Orderly(out, first) ==
    /\ out # <<>> => out[1] = RCPSetup
    /\ \A i \in 2 .. Len(out) : out[i] = Event(first + i - 2)

\* How many events a stream has carried so far.
Written(s) == IF s.out = <<>> THEN 0 ELSE Len(s.out) - 1

\* The events waiting in queue are those of from .. to, in order.
Queued(queue, from, to) ==
    LET waiting == {i \in DOMAIN queue : queue[i] # Ping} IN
    /\ {queue[i] : i \in waiting} = from .. to
    /\ \A i, j \in waiting : i < j => queue[i] < queue[j]

\* A stream that has not joined has nothing; one that has joined has carried
\* the events up to those that wait; a finished one ends in RCPTeardown, unless
\* its client left it.
StreamInv(s, n) ==
    /\ s \in StreamRecords
    /\ s.pc \in {"off", "connected"} => s.queue = <<>> /\ s.out = <<>>
    /\ s.pc \in {"joined", "left"} => Orderly(s.out, s.first)
    /\ s.pc = "joined" => /\ s.first > 0 /\ s.first + Written(s) <= n + 1
                           /\ Queued(s.queue, s.first + Written(s), n)
    /\ s.pc = "done" => \E out \in Seq(Entries) : Orderly(out, s.first) /\ s.out = Append(out, RCPTeardown)

StreamsInv ==
    /\ pub \in Nat /\ strm \in [Streams -> StreamRecords]
    /\ \A c \in Streams : StreamInv(strm[c], pub)

\* The items of a stream are told apart.
LEMMA Apart ==
    /\ RCPSetup \in Entries /\ RCPTeardown \in Entries /\ \A n \in Nat : Event(n) \in Entries
    /\ RCPSetup # RCPTeardown /\ \A n : Event(n) # RCPTeardown /\ Event(n) # RCPSetup
  BY Zenon DEF Entries, Marks, RCPSetup, RCPTeardown, Event

\* An orderly stream holds no RCPTeardown.
LEMMA NoTeardown ==
    ASSUME NEW out \in Seq(Entries), NEW first, Orderly(out, first), NEW i \in DOMAIN out
    PROVE  out[i] # RCPTeardown
  <1>1. DOMAIN out = 1 .. Len(out) /\ Len(out) \in Nat /\ (out = <<>> => Len(out) = 0)
    OBVIOUS
  <1>2. CASE i = 1 BY <1>1, <1>2, Apart DEF Orderly
  <1>3. CASE i # 1
    <2>1. i \in 2 .. Len(out) BY <1>1, <1>3
    <2> QED BY <2>1, Apart, Zenon DEF Orderly
  <1> QED BY <1>2, <1>3, Zenon

\* The item after an orderly stream keeps it orderly.
LEMMA OneItemMore ==
    ASSUME NEW out \in Seq(Entries), NEW first \in Nat, Orderly(out, first), out # <<>>
    PROVE  Orderly(Append(out, Event(first + Len(out) - 1)), first)
  <1> DEFINE e == Event(first + Len(out) - 1)
             more == Append(out, e)
  <1>1. first + Len(out) - 1 \in Nat
    <2>1. Len(out) \in Nat /\ Len(out) # 0 OBVIOUS
    <2> QED BY <2>1
  <1>2. e \in Entries BY <1>1, Apart, Zenon
  <1>3. /\ Len(more) = Len(out) + 1 /\ Len(out) \in Nat /\ Len(out) # 0
        /\ \A i \in 1 .. Len(out) : more[i] = out[i]
        /\ more[Len(out) + 1] = e
    BY <1>2
  <1> HIDE DEF more
  <1>4. more[1] = RCPSetup BY <1>3 DEF Orderly
  <1>5. ASSUME NEW i \in 2 .. Len(more) PROVE more[i] = Event(first + i - 2)
    <2>1. CASE i = Len(out) + 1
      <3>1. first + i - 2 = first + Len(out) - 1 BY <1>3, <2>1
      <3> QED BY <1>3, <2>1, <3>1, Zenon
    <2>2. CASE i # Len(out) + 1
      <3>1. i \in 2 .. Len(out) /\ i \in 1 .. Len(out) BY <1>3, <2>2
      <3> QED BY <1>3, <3>1, Zenon DEF Orderly
    <2> QED BY <2>1, <2>2, Zenon
  <1>6. Orderly(more, first) BY <1>4, <1>5, Zenon DEF Orderly
  <1> QED BY <1>6, Zenon DEF more

-----------------------------------------------------------------------------
(* The queue of a stream.                                                  *)

\* The next event that waits is the first one not carried yet.
LEMMA HeadIsNext ==
    ASSUME NEW q \in Seq(Nat), q # <<>>, NEW from \in Nat \ {0}, NEW to \in Nat, Queued(q, from, to)
    PROVE  /\ Head(q) = Ping => Queued(Tail(q), from, to)
           /\ Head(q) # Ping => Head(q) = from /\ from <= to /\ Queued(Tail(q), from + 1, to)
  <1>1. PICK n : n = Len(q) BY Zenon
  <1>2. PICK t : t = Tail(q) BY Zenon
  <1>3. /\ n \in Nat /\ n > 0 /\ DOMAIN q = 1 .. n /\ Head(q) = q[1]
        /\ \A i \in 1 .. n : q[i] \in Nat
    BY <1>1
  <1>4. DOMAIN t = 1 .. (n - 1) /\ \A i \in 1 .. (n - 1) : t[i] = q[i + 1]
    BY <1>1, <1>2
  <1> DEFINE W == {i \in DOMAIN q : q[i] # Ping}
             V == {i \in DOMAIN t : t[i] # Ping}
  <1>5. /\ {q[i] : i \in W} = from .. to
        /\ \A i, j \in W : i < j => q[i] < q[j]
    BY Zenon DEF Queued
  <1>6. \A i : i \in V <=> i \in 1 .. (n - 1) /\ i + 1 \in W
    <2> TAKE i
    <2>1. CASE i \in 1 .. (n - 1)
      <3>1. i + 1 \in 1 .. n /\ t[i] = q[i + 1] BY <1>3, <1>4, <2>1
      <3> QED BY <1>3, <1>4, <2>1, <3>1, Zenon
    <2>2. CASE i \notin 1 .. (n - 1) BY <1>4, <2>2, Zenon
    <2> QED BY <2>1, <2>2, Zenon
  <1>7. \A i \in V : t[i] = q[i + 1] BY <1>4, Zenon
  <1>8. W \subseteq 1 .. n /\ V \subseteq 1 .. (n - 1) BY <1>3, <1>4, Zenon
  <1>9. 1 \in W <=> q[1] # Ping BY <1>3
  <1> HIDE DEF W, V
  <1>10. \A i, j \in V : i < j => t[i] < t[j]
    <2> SUFFICES ASSUME NEW i \in V, NEW j \in V, i < j PROVE t[i] < t[j] BY Zenon
    <2>1. i + 1 \in W /\ j + 1 \in W BY <1>6, Zenon
    <2>2. i + 1 < j + 1 BY <1>3, <1>8
    <2> QED BY <1>5, <1>7, <2>1, <2>2, Zenon
  <1>11. \A x : x \in {t[i] : i \in V} <=> \E i \in W : i # 1 /\ x = q[i]
    <2> TAKE x
    <2>1. ASSUME NEW i \in V, x = t[i] PROVE \E k \in W : k # 1 /\ x = q[k]
      <3>1. i + 1 \in W /\ i + 1 # 1 /\ x = q[i + 1] BY <1>3, <1>6, <1>7, <1>8, <2>1
      <3> QED BY <3>1, Zenon
    <2>2. ASSUME NEW k \in W, k # 1, x = q[k] PROVE x \in {t[i] : i \in V}
      <3>1. PICK i : i = k - 1 BY Zenon
      <3>2. i \in 1 .. (n - 1) /\ i + 1 = k BY <1>3, <1>8, <2>2, <3>1
      <3>3. i \in V BY <1>6, <2>2, <3>2, Zenon
      <3> QED BY <1>7, <2>2, <3>2, <3>3, Zenon
    <2> QED BY <2>1, <2>2, Zenon
  <1>12. CASE Head(q) = Ping
    <2>1. {t[i] : i \in V} = from .. to
      <3>1. 1 \notin W BY <1>3, <1>9, <1>12, Zenon
      <3>2. \A x : x \in {t[i] : i \in V} <=> x \in {q[i] : i \in W} BY <1>11, <3>1, Zenon
      <3> QED BY <1>5, <3>2, Zenon
    <2>2. Queued(t, from, to) BY <1>10, <2>1, Zenon DEF Queued, V
    <2> QED BY <1>2, <1>12, <2>2, Zenon
  <1>13. CASE Head(q) # Ping
    <2>1. 1 \in W BY <1>3, <1>9, <1>13, Zenon
    <2>2. q[1] \in from .. to BY <1>5, <2>1, Zenon
    <2>3. from \in from .. to BY <2>2
    <2>4. PICK k \in W : q[k] = from BY <1>5, <2>3, Zenon
    <2>5. k = 1
      <3> SUFFICES ASSUME k # 1 PROVE FALSE BY Zenon
      <3>1. 1 < k BY <1>3, <1>8
      <3>2. q[1] < q[k] BY <1>5, <2>1, <3>1, Zenon
      <3> QED BY <2>2, <2>4, <3>2
    <2>6. \A i \in W : i # 1 => q[i] # from
      <3> SUFFICES ASSUME NEW i \in W, i # 1, q[i] = from PROVE FALSE BY Zenon
      <3>1. 1 < i BY <1>3, <1>8
      <3>2. q[1] < q[i] BY <1>5, <2>1, <3>1, Zenon
      <3> QED BY <2>4, <2>5, <3>2
    <2>7. \A x : x \in {t[i] : i \in V} <=> x \in from .. to /\ x # from
      <3> TAKE x
      <3>1. x \in from .. to <=> \E i \in W : x = q[i] BY <1>5
      <3> QED BY <1>11, <2>4, <2>5, <2>6, <3>1, Zenon
    <2>8. {t[i] : i \in V} = from + 1 .. to
      <3>1. \A x : x \in from .. to /\ x # from <=> x \in from + 1 .. to OBVIOUS
      <3> QED BY <2>7, <3>1, Zenon
    <2>9. Queued(t, from + 1, to) BY <1>10, <2>8, Zenon DEF Queued, V
    <2> QED BY <1>2, <1>3, <1>13, <2>2, <2>4, <2>5, <2>9
  <1> QED BY <1>12, <1>13, Zenon

\* A ping waits without effect; the next event of the worker waits at the end.
LEMMA QueuedMore ==
    ASSUME NEW q \in Seq(Nat), NEW from \in Nat \ {0}, NEW to \in Nat, Queued(q, from, to)
    PROVE  /\ Queued(Append(q, Ping), from, to)
           /\ from <= to + 1 => Queued(Append(q, to + 1), from, to + 1)
  <1>1. PICK n : n = Len(q) BY Zenon
  <1>2. n \in Nat /\ DOMAIN q = 1 .. n BY <1>1
  <1> DEFINE W == {i \in DOMAIN q : q[i] # Ping}
  <1>3. /\ {q[i] : i \in W} = from .. to
        /\ \A i, j \in W : i < j => q[i] < q[j]
    BY Zenon DEF Queued
  <1>5. ASSUME NEW t, t = Append(q, Ping) PROVE Queued(t, from, to)
    <2> DEFINE V == {i \in DOMAIN t : t[i] # Ping}
    <2>1. Ping \in Nat BY Zenon DEF Ping
    <2>2. DOMAIN t = 1 .. (n + 1) /\ t[n + 1] = Ping /\ \A i \in 1 .. n : t[i] = q[i]
      BY <1>1, <1>5, <2>1
    <2>3. \A i : i \in V <=> i \in W
      <3> TAKE i
      <3>1. i \in 1 .. (n + 1) <=> i \in 1 .. n \/ i = n + 1 BY <1>2
      <3>2. i = n + 1 => i \notin 1 .. n BY <1>2
      <3> QED BY <1>2, <2>2, <3>1, <3>2, Zenon
    <2>4. \A i \in W : t[i] = q[i] BY <1>2, <2>2, Zenon
    <2> HIDE DEF W
    <2>5. {t[i] : i \in V} = from .. to BY <1>3, <2>3, <2>4, Zenon
    <2>6. \A i, j \in V : i < j => t[i] < t[j] BY <1>3, <2>3, <2>4, Zenon
    <2> QED BY <2>5, <2>6, Zenon DEF Queued
  <1>6. ASSUME NEW t, t = Append(q, to + 1), from <= to + 1 PROVE Queued(t, from, to + 1)
    <2> DEFINE V == {i \in DOMAIN t : t[i] # Ping}
    <2>1. to + 1 \in Nat /\ to + 1 # Ping BY DEF Ping
    <2>2. DOMAIN t = 1 .. (n + 1) /\ t[n + 1] = to + 1 /\ \A i \in 1 .. n : t[i] = q[i]
      BY <1>1, <1>6, <2>1
    <2>3. \A i : i \in V <=> i \in W \/ i = n + 1
      <3> TAKE i
      <3>1. i \in 1 .. (n + 1) <=> i \in 1 .. n \/ i = n + 1 BY <1>2
      <3> QED BY <1>2, <2>1, <2>2, <3>1, Zenon
    <2>4. \A i \in W : t[i] = q[i] /\ i \in 1 .. n BY <1>2, <2>2, Zenon
    <2> HIDE DEF W, V
    <2>5. \A i \in W : q[i] \in from .. to BY <1>3, Zenon
    <2>6. \A x : x \in from .. (to + 1) <=> x \in from .. to \/ x = to + 1 BY <1>6
    <2>7. {t[i] : i \in V} = from .. (to + 1)
      <3>1. \A x : x \in {t[i] : i \in V} <=> x \in {q[i] : i \in W} \/ x = to + 1
        BY <2>2, <2>3, <2>4, Zenon
      <3> QED BY <1>3, <2>6, <3>1, Zenon
    <2>8. \A i, j \in V : i < j => t[i] < t[j]
      <3> SUFFICES ASSUME NEW i \in V, NEW j \in V, i < j PROVE t[i] < t[j] BY Zenon
      <3>1. CASE i \in W /\ j \in W BY <1>3, <2>4, <3>1, Zenon
      <3>2. CASE i \in W /\ j = n + 1
        <4>1. t[i] \in from .. to BY <2>4, <2>5, <3>2, Zenon
        <4>2. t[j] = to + 1 BY <2>2, <3>2, Zenon
        <4> QED BY <4>1, <4>2
      <3>3. CASE i = n + 1
        <4>1. j \in 1 .. n \/ j = n + 1 BY <2>3, <2>4, Zenon
        <4> QED BY <1>2, <3>3, <4>1
      <3> QED BY <2>3, <3>1, <3>2, <3>3, Zenon
    <2> QED BY <2>7, <2>8, Zenon DEF Queued, V
  <1> QED BY <1>5, <1>6, Zenon

\* Nothing waits in a socket that has just joined.
LEMMA QueuedNone == \A n \in Nat : Queued(<<>>, n + 1, n)
  BY DEF Queued

-----------------------------------------------------------------------------
(* One turn of WaitForEvent().                                             *)

Rest(s) == IF s.queue = <<>> THEN <<>> ELSE Tail(s.queue)
Count(out) == IF out = <<>> THEN 0 ELSE Len(out) - 1

LEMMA OrderlyStart ==
    ASSUME NEW first \in Nat
    PROVE  /\ Orderly(<<>>, first) /\ Orderly(<<RCPSetup>>, first)
           /\ Orderly(<<RCPSetup, Event(first)>>, first)
  BY DEF Orderly

LEMMA TwoParts == \A a, b : <<a>> \o <<b>> = <<a, b>>
  <1> TAKE a, b
  <1>1. <<a>> \in Seq({a, b}) /\ <<b>> \in Seq({a, b}) OBVIOUS
  <1>2. PICK t : t = <<a>> \o <<b>> BY Zenon
  <1>3. t \in Seq({a, b}) BY <1>1, <1>2
  <1>4. Len(t) = 2 /\ t[1] = a /\ t[2] = b BY <1>1, <1>2
  <1>5. t = <<a, b>> BY <1>3, <1>4
  <1> QED BY <1>2, <1>5, Zenon

\* What a stream that waits for events carries after one message more.
Carried(s, out, n) ==
    /\ out \in Seq(Entries) /\ Orderly(out, s.first) /\ Rest(s) \in Seq(Nat)
    /\ s.pc = "connected" => out = <<>> /\ Rest(s) = <<>>
    /\ s.pc = "joined" => /\ s.first + Count(out) <= n + 1
                          /\ Queued(Rest(s), s.first + Count(out), n)

LEMMA Forwards ==
    ASSUME NEW s, NEW n \in Nat, StreamInv(s, n), s.pc \in {"connected", "joined"}
    PROVE  Carried(s, s.out \o Forwarded(s), n)
  <1> SUFFICES ASSUME NEW out, out = s.out \o Forwarded(s) PROVE Carried(s, out, n)
    BY Zenon
  <1> USE DEF Carried
  <1>1. PICK q, o, f : q = s.queue /\ o = s.out /\ f = s.first BY Zenon
  <1>2. q \in Seq(Nat) /\ o \in Seq(Entries) /\ f \in Nat BY <1>1, Zenon DEF StreamInv, StreamRecords
  <1>3. Orderly(o, f)
    <2>1. CASE s.pc = "connected" BY <1>1, <1>2, <2>1, OrderlyStart, Zenon DEF StreamInv
    <2>2. CASE s.pc = "joined" BY <1>1, <2>2, Zenon DEF StreamInv
    <2> QED BY <2>1, <2>2, Zenon
  <1>4. CASE q = <<>>
    <2>1. Forwarded(s) = <<>> /\ Rest(s) = <<>> BY <1>1, <1>4, Zenon DEF Forwarded, Rest
    <2>2. out = o BY <1>1, <1>2, <2>1
    <2>3. s.pc = "connected" => out = <<>> BY <1>1, <2>2, Zenon DEF StreamInv
    <2>4. s.pc = "joined" => /\ s.first + Count(out) <= n + 1
                             /\ Queued(Rest(s), s.first + Count(out), n)
      BY <1>1, <1>4, <2>1, <2>2, Zenon DEF StreamInv, Written, Count
    <2> QED BY <1>1, <1>2, <1>3, <2>1, <2>2, <2>3, <2>4
  <1>5. CASE q # <<>>
    <2>1. s.pc = "joined" BY <1>1, <1>5, Zenon DEF StreamInv
    <2>2. PICK k : k = f + Count(o) BY Zenon
    <2>3. k \in Nat \ {0} /\ k <= n + 1 /\ Queued(q, k, n) /\ Count(o) \in Nat
      <3>1. f > 0 /\ k <= n + 1 /\ Queued(q, k, n)
        BY <1>1, <2>1, <2>2, Zenon DEF StreamInv, Written, Count
      <3>2. Count(o) \in Nat
        <4>1. Len(o) \in Nat /\ (o # <<>> => Len(o) # 0) BY <1>2
        <4> QED BY <4>1 DEF Count
      <3> QED BY <1>2, <2>2, <3>1, <3>2
    <2>4. Rest(s) = Tail(q) /\ Tail(q) \in Seq(Nat) BY <1>1, <1>2, <1>5 DEF Rest
    <2> DEFINE Good == /\ out \in Seq(Entries) /\ Orderly(out, f) /\ f + Count(out) <= n + 1
                       /\ Queued(Tail(q), f + Count(out), n)
    <2> SUFFICES Good BY <1>1, <2>1, <2>4, Zenon
    <2>5. CASE Head(q) = Ping /\ o = <<>>
      <3>1. out = <<RCPSetup>> BY <1>1, <1>5, <2>5 DEF Forwarded
      <3>2. Count(out) = 0 /\ Count(o) = 0 BY <2>5, <3>1 DEF Count
      <3>3. f + Count(out) = k BY <2>2, <3>2, Zenon
      <3>4. out \in Seq(Entries) BY <3>1, Apart
      <3>6. Orderly(out, f) BY <1>2, <3>1, OrderlyStart, Zenon
      <3>5. Queued(Tail(q), k, n) BY <1>2, <1>5, <2>3, <2>5, HeadIsNext, Zenon
      <3> QED BY <2>3, <3>3, <3>4, <3>5, <3>6, Zenon
    <2>6. CASE Head(q) = Ping /\ o # <<>>
      <3>1. out = o BY <1>1, <1>2, <1>5, <2>6 DEF Forwarded
      <3> QED BY <1>2, <1>3, <1>5, <2>2, <2>3, <2>6, <3>1, HeadIsNext, Zenon
    <2>7. CASE Head(q) # Ping /\ o = <<>>
      <3>1. Head(q) = k /\ k <= n /\ Queued(Tail(q), k + 1, n)
        BY <1>2, <1>5, <2>3, <2>7, HeadIsNext, Zenon
      <3>2. k = f BY <1>2, <2>2, <2>7 DEF Count
      <3>3. out = <<RCPSetup, Event(f)>>
        <4>1. Forwarded(s) = <<RCPSetup>> \o <<Event(f)>>
          BY <1>1, <1>5, <2>7, <3>1, <3>2, Zenon DEF Forwarded
        <4>2. <<RCPSetup>> \o <<Event(f)>> = <<RCPSetup, Event(f)>> BY TwoParts, Zenon
        <4>3. <<RCPSetup, Event(f)>> \in Seq(Entries) BY <1>2, Apart
        <4> QED BY <1>1, <2>7, <4>1, <4>2, <4>3
      <3>4. Count(out) = 1 BY <3>3 DEF Count
      <3>5. out \in Seq(Entries) BY <1>2, <3>3, Apart
      <3>6. Orderly(out, f) BY <1>2, <3>3, OrderlyStart, Zenon
      <3>7. f + Count(out) = k + 1 BY <3>2, <3>4, Zenon
      <3> QED BY <2>3, <3>1, <3>5, <3>6, <3>7
    <2>8. CASE Head(q) # Ping /\ o # <<>>
      <3>1. Head(q) = k /\ k <= n /\ Queued(Tail(q), k + 1, n)
        BY <1>2, <1>5, <2>3, <2>8, HeadIsNext, Zenon
      <3>2. Len(o) \in Nat /\ Len(o) # 0 BY <1>2, <2>8
      <3>3. k = f + Len(o) - 1 BY <1>2, <2>2, <2>8, <3>2, Zenon DEF Count
      <3>4. Event(k) \in Entries BY <2>3, Apart, Zenon
      <3>5. Forwarded(s) = <<Event(k)>>
        <4>1. Forwarded(s) = <<>> \o <<Event(k)>> BY <1>1, <1>5, <2>8, <3>1, Zenon DEF Forwarded
        <4> QED BY <3>4, <4>1
      <3>6. out = Append(o, Event(k)) BY <1>1, <1>2, <3>4, <3>5
      <3>7. out \in Seq(Entries) /\ Len(out) = Len(o) + 1 BY <1>2, <3>4, <3>6
      <3>8. Orderly(out, f) BY <1>2, <1>3, <2>8, <3>3, <3>6, OneItemMore, Zenon
      <3>9. Count(out) = Len(o)
        <4>1. Len(out) # 0 BY <3>2, <3>7
        <4>2. out # <<>> BY <4>1, Zenon
        <4> QED BY <3>2, <3>7, <4>2 DEF Count
      <3>10. f + Count(out) = k + 1 BY <1>2, <3>2, <3>3, <3>9
      <3> QED BY <2>3, <3>1, <3>7, <3>8, <3>10
    <2> QED BY <2>5, <2>6, <2>7, <2>8, Zenon
  <1> QED BY <1>4, <1>5, Zenon

\* A finished stream.
IsEnded(e, s, how, out) ==
    e \in StreamRecords /\ e.pc = how /\ e.out = out /\ e.first = s.first /\ e.queue = <<>>

LEMMA EndedStream ==
    ASSUME NEW s \in StreamRecords, NEW how \in StreamStates, NEW out \in Seq(Entries),
           NEW e, e = Ended(s, how, out)
    PROVE  IsEnded(e, s, how, out)
  <1>1. e = [pc |-> how, queue |-> <<>>, out |-> out, first |-> s.first,
             stalled |-> FALSE]
    BY Zenon DEF Ended, NoStream
  <1>2. <<>> \in Seq(Nat) /\ s.first \in Nat BY DEF StreamRecords
  <1> QED BY <1>1, <1>2 DEF StreamRecords, IsEnded

LEMMA TurnInv ==
    ASSUME NEW s, NEW n \in Nat, StreamInv(s, n), s.pc \in {"connected", "joined"}, NEW over
    PROVE  StreamInv(Turn(s, over), n)
  <1>1. s \in StreamRecords /\ s.out \in Seq(Entries) /\ s.first \in Nat
    BY Zenon DEF StreamInv, StreamRecords
  <1>2. PICK out : out = s.out \o Forwarded(s) BY Zenon
  <1>3. /\ out \in Seq(Entries) /\ Orderly(out, s.first) /\ Rest(s) \in Seq(Nat)
        /\ s.pc = "connected" => out = <<>> /\ Rest(s) = <<>>
        /\ s.pc = "joined" => /\ s.first + Count(out) <= n + 1
                              /\ Queued(Rest(s), s.first + Count(out), n)
    <2>1. Carried(s, s.out \o Forwarded(s), n) BY Forwards, Zenon
    <2> QED BY <1>2, <2>1, Zenon DEF Carried
  <1>4. RCPTeardown \in Entries BY Apart, Zenon
  <1>5. PICK t : t = Turn(s, over) BY Zenon
  <1>7. CASE over
    <2>1. t = Ended(s, "done", Append(out, RCPTeardown)) BY <1>2, <1>5, <1>7, Zenon DEF Turn
    <2>2. Append(out, RCPTeardown) \in Seq(Entries) BY <1>3, <1>4
    <2>3. /\ t \in StreamRecords /\ t.pc = "done" /\ t.first = s.first
          /\ t.out = Append(out, RCPTeardown)
      <3>1. "done" \in StreamStates BY Zenon DEF StreamStates
      <3>2. IsEnded(t, s, "done", Append(out, RCPTeardown)) BY <1>1, <2>1, <2>2, <3>1, EndedStream, Zenon
      <3> QED BY <3>2, Zenon DEF IsEnded
    <2> QED BY <1>3, <1>5, <2>3, Zenon DEF StreamInv
  <1>8. CASE ~over
    <2>1. t = [s EXCEPT !.out = out, !.queue = Rest(s)] BY <1>2, <1>5, <1>8, Zenon DEF Turn, Rest
    <2>2. /\ t \in StreamRecords /\ t.pc = s.pc /\ t.first = s.first
          /\ t.out = out /\ t.queue = Rest(s)
      BY <1>1, <1>3, <2>1, Zenon DEF StreamRecords
    <2>3. Written(t) = Count(out) BY <2>2, Zenon DEF Written, Count
    <2>4. s.pc = "joined" => s.first > 0 BY Zenon DEF StreamInv
    <2>5. StreamInv(t, n) BY <1>3, <2>2, <2>3, <2>4, Zenon DEF StreamInv
    <2> QED BY <1>5, <2>5, Zenon
  <1> QED BY <1>7, <1>8, Zenon

\* A stream that its client leaves.
LEMMA LeftInv ==
    ASSUME NEW s, NEW n \in Nat, StreamInv(s, n), s.pc \in {"connected", "joined"}
    PROVE  StreamInv(Ended(s, "left", s.out), n)
  <1>1. s \in StreamRecords /\ s.out \in Seq(Entries) /\ s.first \in Nat
    BY Zenon DEF StreamInv, StreamRecords
  <1>2. PICK t : t = Ended(s, "left", s.out) BY Zenon
  <1>3. t \in StreamRecords /\ t.pc = "left" /\ t.out = s.out /\ t.first = s.first
    <2>1. "left" \in StreamStates BY Zenon DEF StreamStates
    <2>2. IsEnded(t, s, "left", s.out) BY <1>1, <1>2, <2>1, EndedStream, Zenon
    <2> QED BY <2>2, Zenon DEF IsEnded
  <1>4. Orderly(s.out, s.first) BY <1>1, OrderlyStart, Zenon DEF StreamInv
  <1> QED BY <1>2, <1>3, <1>4, Zenon DEF StreamInv

\* A message of the worker reaches the streams that have joined.
LEMMA PublishInv ==
    ASSUME NEW s, NEW n \in Nat, StreamInv(s, n), s.pc = "joined"
    PROVE  /\ StreamInv([s EXCEPT !.queue = Append(@, Ping)], n)
           /\ StreamInv([s EXCEPT !.queue = Append(@, n + 1)], n + 1)
  <1>1. /\ s \in StreamRecords /\ s.queue \in Seq(Nat) /\ s.first \in Nat \ {0}
        /\ Orderly(s.out, s.first) /\ s.out \in Seq(Entries)
    BY DEF StreamInv, StreamRecords
  <1>2. Written(s) \in Nat
    <2>1. Len(s.out) \in Nat /\ (s.out # <<>> => Len(s.out) # 0) BY <1>1
    <2> QED BY <2>1 DEF Written
  <1>3. PICK k : k = s.first + Written(s) BY Zenon
  <1>4. k \in Nat \ {0} /\ k <= n + 1 /\ Queued(s.queue, k, n)
    <2>1. k <= n + 1 /\ Queued(s.queue, k, n) BY <1>3, Zenon DEF StreamInv
    <2> QED BY <1>1, <1>2, <1>3, <2>1
  <1>5. ASSUME NEW e \in Nat, NEW m \in Nat, n <= m, Queued(Append(s.queue, e), k, m),
               NEW t, t = [s EXCEPT !.queue = Append(@, e)]
        PROVE  StreamInv(t, m)
    <2>1. /\ t \in StreamRecords /\ t.pc = s.pc /\ t.first = s.first
          /\ t.out = s.out /\ t.queue = Append(s.queue, e)
      <3>1. Append(s.queue, e) \in Seq(Nat) BY <1>1, <1>5
      <3> QED BY <1>1, <1>5, <3>1, Zenon DEF StreamRecords
    <2>2. Written(t) = Written(s) BY <2>1, Zenon DEF Written
    <2>3. k <= m + 1 BY <1>4, <1>5
    <2> QED BY <1>1, <1>3, <1>5, <2>1, <2>2, <2>3, Zenon DEF StreamInv
  <1>6. Queued(Append(s.queue, Ping), k, n) /\ Queued(Append(s.queue, n + 1), k, n + 1)
    BY <1>1, <1>4, QueuedMore, Zenon
  <1>7. Ping \in Nat /\ n + 1 \in Nat /\ n <= n /\ n <= n + 1 BY DEF Ping
  <1> QED BY <1>5, <1>6, <1>7, Zenon

-----------------------------------------------------------------------------
(* Every step keeps the streams as StreamInv says.                         *)

LEMMA StreamsInit == SInit => StreamsInv
  <1> SUFFICES ASSUME SInit PROVE StreamsInv BY Zenon
  <1>1. NoStream \in StreamRecords BY DEF NoStream, StreamRecords, StreamStates
  <1>2. StreamInv(NoStream, 0) BY <1>1, Zenon DEF StreamInv, NoStream
  <1> QED BY <1>1, <1>2, Zenon DEF SInit, StreamsInv

\* A step of one stream.
LEMMA OneStream ==
    ASSUME StreamsInv, NEW c \in Streams, NEW s, StreamInv(s, pub),
           strm' = [strm EXCEPT ![c] = s], pub' = pub
    PROVE  StreamsInv'
  <1>1. s \in StreamRecords BY Zenon DEF StreamInv
  <1>2. strm' \in [Streams -> StreamRecords] BY <1>1, Zenon DEF StreamsInv
  <1>3. \A d \in Streams : strm'[d] = IF d = c THEN s ELSE strm[d] BY Zenon DEF StreamsInv
  <1> QED BY <1>2, <1>3, Zenon DEF StreamsInv

LEMMA ConnectStreams ==
    ASSUME StreamsInv, NEW c \in Streams, Connect(c) PROVE StreamsInv'
  <1>1. PICK s : s = [strm[c] EXCEPT !.pc = "connected"] BY Zenon
  <1>2. strm[c] \in StreamRecords /\ strm[c].pc = "off" /\ StreamInv(strm[c], pub)
    BY Zenon DEF StreamsInv, Connect
  <1>3. /\ s \in StreamRecords /\ s.pc = "connected"
        /\ s.queue = strm[c].queue /\ s.out = strm[c].out
    BY <1>1, <1>2, Zenon DEF StreamRecords, StreamStates
  <1>4. StreamInv(s, pub) BY <1>2, <1>3, Zenon DEF StreamInv
  <1> QED BY <1>1, <1>4, OneStream, Zenon DEF Connect

LEMMA JoinStreams ==
    ASSUME StreamsInv, NEW c \in Streams, Join(c) PROVE StreamsInv'
  <1>1. PICK s : s = [strm[c] EXCEPT !.pc = "joined", !.first = pub + 1] BY Zenon
  <1>2. strm[c] \in StreamRecords /\ strm[c].pc = "connected" /\ StreamInv(strm[c], pub) /\ pub \in Nat
    BY Zenon DEF StreamsInv, Join
  <1>3. /\ s \in StreamRecords /\ s.pc = "joined" /\ s.first = pub + 1
        /\ s.queue = strm[c].queue /\ s.out = strm[c].out
    <2>1. pub + 1 \in Nat BY <1>2
    <2>2. PICK f : f = pub + 1 BY Zenon
    <2>3. s = [strm[c] EXCEPT !.pc = "joined", !.first = f] /\ f \in Nat BY <1>1, <2>1, <2>2, Zenon
    <2> QED BY <1>2, <2>2, <2>3, Zenon DEF StreamRecords, StreamStates
  <1>4. s.queue = <<>> /\ s.out = <<>> BY <1>2, <1>3, Zenon DEF StreamInv
  <1>5. Written(s) = 0 BY <1>4, Zenon DEF Written
  <1>6. s.first + Written(s) = pub + 1 BY <1>2, <1>3, <1>5
  <1>7. Queued(s.queue, s.first + Written(s), pub) BY <1>2, <1>4, <1>6, QueuedNone, Zenon
  <1>8. Orderly(s.out, s.first)
    <2>1. s.first \in Nat BY <1>2, <1>3
    <2>2. Orderly(<<>>, s.first) BY <2>1, OrderlyStart, Zenon
    <2> QED BY <1>4, <2>2, Zenon
  <1>9. s.first > 0 /\ s.first + Written(s) <= pub + 1 BY <1>2, <1>3, <1>6
  <1>10. StreamInv(s, pub) BY <1>3, <1>7, <1>8, <1>9, Zenon DEF StreamInv
  <1> QED BY <1>1, <1>10, OneStream, Zenon DEF Join

\* Whether the client reads changes nothing of what it is owed.
LEMMA ReadsStreams ==
    ASSUME StreamsInv, NEW c \in Streams, ClientReads(c) PROVE StreamsInv'
  <1>1. strm[c] \in StreamRecords /\ StreamInv(strm[c], pub) BY Zenon DEF StreamsInv
  <1>2. PICK s : s = [strm[c] EXCEPT !.stalled = ~@] BY Zenon
  <1>3. /\ s \in StreamRecords /\ s.pc = strm[c].pc /\ s.first = strm[c].first
        /\ s.queue = strm[c].queue /\ s.out = strm[c].out
    BY <1>1, <1>2, Zenon DEF StreamRecords
  <1>4. Written(s) = Written(strm[c]) BY <1>3, Zenon DEF Written
  <1>5. StreamInv(s, pub) BY <1>1, <1>3, <1>4, Zenon DEF StreamInv
  <1> QED BY <1>2, <1>5, OneStream, Zenon DEF ClientReads

LEMMA TurnStreams ==
    ASSUME StreamsInv, NEW c \in Streams, WaitForEvent(c) \/ Deadline(c) \/ ClientCancels(c)
    PROVE  StreamsInv'
  <1>1. StreamInv(strm[c], pub) /\ pub \in Nat BY Zenon DEF StreamsInv
  <1>2. strm[c].pc \in {"connected", "joined"} /\ pub' = pub
    BY Zenon DEF WaitForEvent, Deadline, ClientCancels, Waiting
  <1>3. /\ \A over : StreamInv(Turn(strm[c], over), pub)
        /\ StreamInv(Ended(strm[c], "left", strm[c].out), pub)
    BY <1>1, <1>2, TurnInv, LeftInv, Zenon
  <1>4. \/ \E over : strm' = [strm EXCEPT ![c] = Turn(strm[c], over)]
        \/ strm' = [strm EXCEPT ![c] = Ended(strm[c], "left", strm[c].out)]
    BY Zenon DEF WaitForEvent, Deadline, ClientCancels
  <1> QED BY <1>2, <1>3, <1>4, OneStream, Zenon

LEMMA PublishStreams ==
    ASSUME StreamsInv, EventsLoop PROVE StreamsInv'
  <1>1. pub \in Nat /\ strm \in [Streams -> StreamRecords] BY Zenon DEF StreamsInv
  <1>2. PICK e : /\ Publish(e)
                 /\ \/ e = Ping /\ pub' = pub
                    \/ e = pub + 1 /\ pub' = pub + 1
    BY Zenon DEF EventsLoop, PublishEvent, PublishPing
  <1>3. \A c \in Streams : strm'[c] = IF strm[c].pc = "joined"
                                      THEN [strm[c] EXCEPT !.queue = Append(@, e)] ELSE strm[c]
    BY <1>2, Zenon DEF Publish
  <1>4. pub' \in Nat /\ pub <= pub' BY <1>1, <1>2
  <1>5. ASSUME NEW c \in Streams PROVE StreamInv(strm'[c], pub')
    <2>1. StreamInv(strm[c], pub) BY Zenon DEF StreamsInv
    <2>2. CASE strm[c].pc = "joined"
      <3>1. /\ StreamInv([strm[c] EXCEPT !.queue = Append(@, Ping)], pub)
            /\ StreamInv([strm[c] EXCEPT !.queue = Append(@, pub + 1)], pub + 1)
        BY <1>1, <2>1, <2>2, PublishInv, Zenon
      <3> QED BY <1>2, <1>3, <2>2, <3>1, Zenon
    <2>3. CASE strm[c].pc # "joined"
      <3>1. strm'[c] = strm[c] BY <1>3, <2>3, Zenon
      <3> QED BY <2>1, <2>3, <3>1 DEF StreamInv
    <2> QED BY <2>2, <2>3, Zenon
  <1>6. strm' \in [Streams -> StreamRecords]
    <2>1. \A c \in Streams : strm'[c] \in StreamRecords BY <1>5, Zenon DEF StreamInv
    <2>2. strm' = [c \in Streams |-> strm'[c]] BY <1>2, Zenon DEF Publish
    <2> QED BY <2>1, <2>2, Zenon
  <1> QED BY <1>4, <1>5, <1>6, Zenon DEF StreamsInv

LEMMA StreamsNext == StreamsInv /\ [SNext]_svars => StreamsInv'
  <1> SUFFICES ASSUME StreamsInv, [SNext]_svars PROVE StreamsInv' BY Zenon
  <1>1. ASSUME NEW c \in Streams, \/ Connect(c) \/ Join(c) \/ Deadline(c) \/ ClientReads(c)
                                  \/ ClientCancels(c) \/ WaitForEvent(c)
        PROVE  StreamsInv'
    BY <1>1, ConnectStreams, JoinStreams, ReadsStreams, TurnStreams, Zenon
  <1>2. CASE EventsLoop BY <1>2, PublishStreams, Zenon
  <1>3. ASSUME UNCHANGED <<strm, pub>> PROVE StreamsInv' BY <1>3, Zenon DEF StreamsInv
  <1>4. ASSUME NEW c, RecvRPC(c) \/ Dispatch(c) \/ ReadEnds(c) PROVE StreamsInv'
    BY <1>3, <1>4, Zenon DEF RecvRPC, Dispatch, ReadEnds
  <1>5. ASSUME NEW c, NEW rpc, Set(rpc) \/ Get(c, rpc) \/ Read(c) PROVE StreamsInv'
    BY <1>3, <1>5, Zenon DEF Set, Get, Read, Requesting
  <1>6. CASE ClientLoop \/ Monitor
    BY <1>3, <1>6, Zenon DEF ClientLoop, PollClient, Cancelled, Monitor, ServeCancel, ServeGet,
                      ServeOther, ServeStart, ServeStop, ResultReady
  <1>7. CASE SessionStops \/ SessionFails BY <1>3, <1>7, Zenon DEF SessionStops, SessionFails
  <1>8. CASE RunServer \/ Shutdown BY <1>3, <1>8, Zenon DEF RunServer, Shutdown
  <1>9. CASE Teardown BY <1>3, <1>9, Zenon DEF Teardown, Drained, Destroy, Destroyed
  <1>10. CASE UNCHANGED svars BY <1>3, <1>10, Zenon DEF svars
  <1> QED BY <1>1, <1>2, <1>4, <1>5, <1>6, <1>7, <1>8, <1>9, <1>10, Zenon DEF SNext

\* What StreamShape says of one stream.
Shape(s) ==
    LET torn == s.out # <<>> /\ s.out[Len(s.out)] = RCPTeardown
        body == IF torn THEN SubSeq(s.out, 1, Len(s.out) - 1) ELSE s.out
    IN  /\ body # <<>> => body[1] = RCPSetup
        /\ \A i \in 2..Len(body) : body[i] = Event(s.first + i - 2)
        /\ torn <=> s.pc = "done"

\* Without its last item a stream is what it was before.
LEMMA WithoutLast ==
    ASSUME NEW o \in Seq(Entries), NEW e \in Entries, NEW t, t = Append(o, e)
    PROVE  t # <<>> /\ t[Len(t)] = e /\ SubSeq(t, 1, Len(t) - 1) = o
  <1>1. PICK n : n = Len(o) BY Zenon
  <1>2. n \in Nat /\ DOMAIN o = 1 .. n /\ o \in [1 .. n -> Entries] BY <1>1
  <1>3. /\ t \in Seq(Entries) /\ Len(t) = n + 1 /\ t[n + 1] = e
        /\ \A i \in 1 .. n : t[i] = o[i]
    BY <1>1
  <1>4. Len(t) - 1 = n BY <1>2, <1>3
  <1>5. SubSeq(t, 1, n) = [i \in 1 .. n |-> o[i]]
    <2>1. SubSeq(t, 1, n) = [i \in 1 .. (1 + n - 1) |-> t[i + 1 - 1]] BY <1>2, <1>3
    <2>2. 1 + n - 1 = n /\ \A i \in 1 .. n : i + 1 - 1 = i BY <1>2
    <2>3. \A i \in 1 .. n : t[i + 1 - 1] = o[i] BY <1>3, <2>2, Zenon
    <2> QED BY <2>1, <2>2, <2>3, Zenon
  <1>6. o = [i \in 1 .. n |-> o[i]] BY <1>2, Zenon
  <1>7. t # <<>> BY <1>2, <1>3
  <1> QED BY <1>3, <1>4, <1>5, <1>6, <1>7, Zenon

LEMMA ShapeOf == ASSUME NEW s, NEW n, StreamInv(s, n) PROVE Shape(s)
  <1>1. s.out \in Seq(Entries) /\ s.first \in Nat /\ s.pc \in StreamStates
    BY Zenon DEF StreamInv, StreamRecords
  <1>2. CASE s.pc # "done"
    <2>1. Orderly(s.out, s.first)
      <3>1. CASE s.pc \in {"off", "connected"}
        <4>1. s.out = <<>> BY <3>1, Zenon DEF StreamInv
        <4>2. Orderly(<<>>, s.first) BY <1>1, OrderlyStart, Zenon
        <4> QED BY <4>1, <4>2, Zenon
      <3>2. CASE s.pc \in {"joined", "left"} BY <3>2, Zenon DEF StreamInv
      <3> QED BY <1>1, <1>2, <3>1, <3>2, Zenon DEF StreamStates
    <2>2. ~(s.out # <<>> /\ s.out[Len(s.out)] = RCPTeardown)
      <3> SUFFICES ASSUME s.out # <<>> PROVE s.out[Len(s.out)] # RCPTeardown BY Zenon
      <3>1. Len(s.out) \in DOMAIN s.out BY <1>1
      <3> QED BY <1>1, <2>1, <3>1, NoTeardown, Zenon
    <2> QED BY <1>2, <2>1, <2>2, Zenon DEF Shape, Orderly
  <1>3. CASE s.pc = "done"
    <2>1. PICK o \in Seq(Entries) : Orderly(o, s.first) /\ s.out = Append(o, RCPTeardown)
      BY <1>3, Zenon DEF StreamInv
    <2>2. RCPTeardown \in Entries BY Apart, Zenon
    <2>3. /\ s.out # <<>> /\ s.out[Len(s.out)] = RCPTeardown
          /\ SubSeq(s.out, 1, Len(s.out) - 1) = o
      BY <2>1, <2>2, WithoutLast, Zenon
    <2> QED BY <1>3, <2>1, <2>3, Zenon DEF Shape, Orderly
  <1> QED BY <1>2, <1>3, Zenon

LEMMA StreamsHold == StreamsInv => StreamShape /\ NothingMissed
  <1> SUFFICES ASSUME StreamsInv PROVE StreamShape /\ NothingMissed BY Zenon
  <1>1. \A c \in Streams : Shape(strm[c]) BY ShapeOf, Zenon DEF StreamsInv
  <1>2. StreamShape BY <1>1, Zenon DEF StreamShape, Shape
  <1>3. \A c \in Streams : strm[c].pc = "joined" =>
            Queued(strm[c].queue, strm[c].first + Written(strm[c]), pub)
    BY Zenon DEF StreamsInv, StreamInv
  <1>4. NothingMissed BY <1>3, Zenon DEF NothingMissed, Queued, Written
  <1> QED BY <1>2, <1>4, Zenon

LEMMA StreamsAlways == SSpec => []StreamsInv
  BY StreamsInit, StreamsNext, PTL DEF SSpec

\* A call of WaitForEvent writes RCPSetup first, every event since it joined
\* without a gap, and RCPTeardown last, for any number of calls and of events,
\* however the deadline, the client and shutdown() cut in.
THEOREM StreamsInShape == SSpec => []StreamShape
  BY StreamsAlways, StreamsHold, PTL

\* Whatever the worker has notified since a call joined is on its stream or
\* waits for it in order, however far the stream is behind.
THEOREM StreamsMissNothing == SSpec => []NothingMissed
  BY StreamsAlways, StreamsHold, PTL

-----------------------------------------------------------------------------
(* The client loop and the end of the service.                             *)

Mains == {"building", "serving", "unserved", "draining", "drained", "joining", "destroyed"}

LoopTypes ==
    /\ main \in Mains /\ client \in {"poll", "blocked", "returned", "thrown"}
    /\ session \in {"none", "running", "stopping", "ended"} /\ canc1 \in BOOLEAN
    /\ wire \in Seq(Requests \cup {"Cancel"}) /\ batch \in Seq({"server", "canc"})

\* A batch starts with the server socket or does not have it, and what it has
\* is still so: nobody else reads the socket or resets the cancellation.
BatchFresh ==
    \A i \in DOMAIN batch : /\ batch[i] = "server" => i = 1 /\ wire # <<>>
                            /\ batch[i] = "canc" => canc1

\* A session is being stopped only while the loop waits for its end.
SessionFollows ==
    /\ session = "stopping" => client = "blocked"
    /\ client = "blocked" => session \in {"stopping", "ended"}
    /\ client = "returned" => session = "none" /\ canc1

\* The request to end is the last message ever on the shared socket.
CancelLast ==
    /\ \A i \in DOMAIN wire : wire[i] = "Cancel" => i = Len(wire) /\ ~canc1 /\ main = "joining"
    /\ canc1 => wire = <<>> /\ main \in {"joining", "destroyed"}

\* From the end of shutdown() on, SetStop is on its way with nothing but the
\* request to end behind it, or it was served, and there is no session or the
\* loop waits for its end.
OnlyCancel(w) == \A i \in DOMAIN w : w[i] = "Cancel"
StopComes(w) == \E i \in DOMAIN w : /\ w[i] = "SetStop"
                                    /\ \A j \in DOMAIN w : j > i => w[j] = "Cancel"
StopLast ==
    main \in {"drained", "joining", "destroyed"} =>
        \/ client = "thrown"
        \/ StopComes(wire)
        \/ OnlyCancel(wire) /\ (session = "none" \/ client = "blocked")

LoopInv == LoopTypes /\ BatchFresh /\ SessionFollows /\ CancelLast /\ StopLast

LEMMA LoopInit == SInit => LoopInv
  <1> SUFFICES ASSUME SInit PROVE LoopInv OBVIOUS
  <1>1. LoopTypes
    <2>1. wire \in Seq(Requests \cup {"Cancel"}) /\ batch \in Seq({"server", "canc"})
      BY DEF SInit
    <2> QED BY <2>1, Zenon DEF SInit, LoopTypes, Mains
  <1>2. DOMAIN wire = {} /\ DOMAIN batch = {} BY DEF SInit
  <1>3. BatchFresh BY <1>2, Zenon DEF BatchFresh
  <1>4. CancelLast BY <1>2, Zenon DEF SInit, CancelLast
  <1>5. SessionFollows /\ StopLast BY Zenon DEF SInit, SessionFollows, StopLast
  <1> QED BY <1>1, <1>3, <1>4, <1>5, Zenon DEF LoopInv

-----------------------------------------------------------------------------
(* The two ends of the socket.                                             *)

\* Without its first message, a socket in which SetStop waits still has it,
\* unless that was the message.
LEMMA StopComesTail ==
    ASSUME NEW w \in Seq(Requests \cup {"Cancel"}), w # <<>>
    PROVE  /\ StopComes(w) => \/ StopComes(Tail(w))
                              \/ Head(w) = "SetStop" /\ OnlyCancel(Tail(w))
           /\ OnlyCancel(w) => Head(w) = "Cancel" /\ OnlyCancel(Tail(w))
  <1>1. PICK n, t : n = Len(w) /\ t = Tail(w) BY Zenon
  <1>2. n \in Nat /\ n > 0 /\ DOMAIN w = 1 .. n /\ Head(w) = w[1] BY <1>1
  <1>3. DOMAIN t = 1 .. (n - 1) /\ \A i \in 1 .. (n - 1) : t[i] = w[i + 1] BY <1>1
  <1>4. ASSUME OnlyCancel(w) PROVE Head(w) = "Cancel" /\ OnlyCancel(t)
    <2>1. \A i \in 1 .. (n - 1) : i + 1 \in 1 .. n BY <1>2
    <2> QED BY <1>2, <1>3, <1>4, <2>1 DEF OnlyCancel
  <1>5. ASSUME StopComes(w) PROVE StopComes(t) \/ (Head(w) = "SetStop" /\ OnlyCancel(t))
    <2>1. PICK i \in 1 .. n : w[i] = "SetStop" /\ \A j \in 1 .. n : j > i => w[j] = "Cancel"
      BY <1>2, <1>5, Zenon DEF StopComes
    <2>2. CASE i = 1
      <3>1. \A j \in 1 .. (n - 1) : j + 1 \in 1 .. n /\ j + 1 > i BY <1>2, <2>2
      <3> QED BY <1>2, <1>3, <2>1, <2>2, <3>1, Zenon DEF OnlyCancel
    <2>3. CASE i # 1
      <3>1. PICK k : k = i - 1 BY Zenon
      <3>2. k \in 1 .. (n - 1) /\ k + 1 = i BY <1>2, <2>3, <3>1
      <3>3. \A j \in 1 .. (n - 1) : j > k => j + 1 \in 1 .. n /\ j + 1 > i BY <1>2, <3>2
      <3>4. t[k] = "SetStop" /\ \A j \in 1 .. (n - 1) : j > k => t[j] = "Cancel"
        BY <1>3, <2>1, <3>2, <3>3, Zenon
      <3>5. \E m \in 1 .. (n - 1) : /\ t[m] = "SetStop"
                                     /\ \A j \in 1 .. (n - 1) : j > m => t[j] = "Cancel"
        BY <3>2, <3>4, Zenon
      <3>6. StopComes(t) BY <1>3, <3>5, Zenon DEF StopComes
      <3> QED BY <3>6, Zenon
    <2> QED BY <2>2, <2>3, Zenon
  <1> QED BY <1>1, <1>4, <1>5, Zenon

LEMMA StopComesAppend ==
    ASSUME NEW w \in Seq(Requests \cup {"Cancel"})
    PROVE  /\ StopComes(Append(w, "SetStop"))
           /\ StopComes(w) => StopComes(Append(w, "Cancel"))
           /\ OnlyCancel(w) => OnlyCancel(Append(w, "Cancel"))
  <1>1. PICK n : n = Len(w) BY Zenon
  <1>2. n \in Nat /\ DOMAIN w = 1 .. n BY <1>1
  <1>3. ASSUME NEW e, NEW t, t = Append(w, e)
        PROVE  DOMAIN t = 1 .. (n + 1) /\ t[n + 1] = e /\ \A i \in 1 .. n : t[i] = w[i]
    BY <1>1, <1>3
  <1>4. \A i \in 1 .. (n + 1) : i \in 1 .. n \/ i = n + 1 BY <1>2
  <1>5. \A i \in 1 .. n : i \in 1 .. (n + 1) BY <1>2
  <1>6. ASSUME NEW t, t = Append(w, "SetStop") PROVE StopComes(t)
    <2>1. n + 1 \in 1 .. (n + 1) /\ \A j \in 1 .. (n + 1) : ~(j > n + 1) BY <1>2
    <2> QED BY <1>3, <1>6, <2>1 DEF StopComes
  <1>7. ASSUME NEW t, t = Append(w, "Cancel"), StopComes(w) PROVE StopComes(t)
    <2>1. PICK i \in 1 .. n : w[i] = "SetStop" /\ \A j \in 1 .. n : j > i => w[j] = "Cancel"
      BY <1>2, <1>7, Zenon DEF StopComes
    <2> QED BY <1>3, <1>4, <1>5, <1>7, <2>1 DEF StopComes
  <1>8. ASSUME NEW t, t = Append(w, "Cancel"), OnlyCancel(w) PROVE OnlyCancel(t)
    BY <1>2, <1>3, <1>4, <1>8 DEF OnlyCancel
  <1> QED BY <1>6, <1>7, <1>8, Zenon

\* What sendRPC() of a message m leaves of what was there.
LEMMA Sends ==
    ASSUME NEW w \in Seq(Requests \cup {"Cancel"}), NEW m \in Requests \cup {"Cancel"},
           NEW t, t = Append(w, m)
    PROVE  /\ t \in Seq(Requests \cup {"Cancel"}) /\ t # <<>> /\ Len(t) = Len(w) + 1
           /\ Len(w) \in Nat /\ t[Len(t)] = m
           /\ \A i \in DOMAIN t : i # Len(t) => i \in DOMAIN w /\ t[i] = w[i]
  OBVIOUS

-----------------------------------------------------------------------------
(* Steps of the calls and of the thread that owns the service.             *)

LEMMA RequestLoop ==
    ASSUME LoopInv, NEW rpc \in Requests, Requesting(rpc), main \in {"serving", "draining"}
    PROVE  LoopInv'
  <1>1. /\ main \in {"serving", "draining"} /\ wire' = Append(wire, rpc) /\ rpc # "Cancel"
        /\ UNCHANGED <<main, client, batch, canc1, session>>
    BY ServiceAssumption, Zenon DEF Requesting, SendRPC, Requests, Setters
  <1>2. LoopTypes /\ ~canc1 BY <1>1, Zenon DEF LoopInv, CancelLast
  <1>3. /\ wire' \in Seq(Requests \cup {"Cancel"}) /\ wire' # <<>>
        /\ wire'[Len(wire')] = rpc
        /\ \A i \in DOMAIN wire' : i # Len(wire') => i \in DOMAIN wire /\ wire'[i] = wire[i]
    BY <1>1, <1>2, Sends DEF LoopTypes
  <1>4. \A i \in DOMAIN wire : wire[i] # "Cancel" BY <1>1, Zenon DEF LoopInv, CancelLast
  <1>5. \A i \in DOMAIN wire' : wire'[i] # "Cancel" BY <1>1, <1>3, <1>4, Zenon
  <1>6. LoopTypes' BY <1>1, <1>2, <1>3, Zenon DEF LoopTypes
  <1>7. BatchFresh' BY <1>1, <1>3, Zenon DEF LoopInv, BatchFresh
  <1>8. SessionFollows' BY <1>1, Zenon DEF LoopInv, SessionFollows
  <1>9. CancelLast' BY <1>1, <1>2, <1>5, Zenon DEF CancelLast
  <1>10. StopLast' BY <1>1, Zenon DEF StopLast
  <1> QED BY <1>6, <1>7, <1>8, <1>9, <1>10, Zenon DEF LoopInv

\* A Dispatch is in progress only until server_->Shutdown() returns: what it sends
\* comes before the last SetStop.
ReadingServed == reading # {} => main \in {"serving", "draining"}

LEMMA ReadingInit == SInit => ReadingServed
  BY Zenon DEF SInit, ReadingServed

LEMMA ReadingNext == ReadingServed /\ [SNext]_svars => ReadingServed'
  <1> SUFFICES ASSUME ReadingServed, [SNext]_svars PROVE ReadingServed' OBVIOUS
  <1>1. ASSUME UNCHANGED <<main, reading>> PROVE ReadingServed' BY <1>1, Zenon DEF ReadingServed
  <1>2. ASSUME NEW c \in Streams, \/ Connect(c) \/ Join(c) \/ Deadline(c) \/ ClientReads(c)
                                  \/ ClientCancels(c) \/ WaitForEvent(c)
        PROVE  ReadingServed'
    BY <1>1, <1>2, Zenon DEF Connect, Join, Deadline, ClientReads, ClientCancels, WaitForEvent
  <1>3. CASE EventsLoop BY <1>1, <1>3, Zenon DEF EventsLoop, PublishEvent, PublishPing, Publish
  <1>4. ASSUME NEW c, NEW rpc, RecvRPC(c) \/ Set(rpc) \/ Get(c, rpc) \/ Read(c) PROVE ReadingServed'
    BY <1>1, <1>4, Zenon DEF RecvRPC, Set, Get, Read, Requesting
  <1>5. ASSUME NEW c, Dispatch(c) \/ ReadEnds(c) PROVE ReadingServed'
    BY <1>5, Zenon DEF Dispatch, ReadEnds, ReadingServed
  <1>6. CASE ClientLoop \/ Monitor
    BY <1>1, <1>6, Zenon DEF ClientLoop, PollClient, Cancelled, Monitor, ServeCancel, ServeGet,
                      ServeOther, ServeStart, ServeStop, ResultReady
  <1>7. CASE SessionStops \/ SessionFails BY <1>1, <1>7, Zenon DEF SessionStops, SessionFails
  <1>8. CASE RunServer \/ Shutdown BY <1>8, Zenon DEF RunServer, Shutdown, ReadingServed
  <1>9. CASE Teardown BY <1>9, Zenon DEF Teardown, Drained, Returned, Destroy, Destroyed, ReadingServed
  <1>10. CASE UNCHANGED svars BY <1>1, <1>10, Zenon DEF svars
  <1> QED BY <1>2, <1>3, <1>4, <1>5, <1>6, <1>7, <1>8, <1>9, <1>10, Zenon DEF SNext

LEMMA DrainedLoop == ASSUME LoopInv, Drained PROVE LoopInv'
  <1>1. /\ main = "draining" /\ main' = "drained" /\ wire' = Append(wire, "SetStop")
        /\ UNCHANGED <<client, batch, canc1, session>>
    BY Zenon DEF Drained, SendRPC
  <1>2. LoopTypes /\ ~canc1 /\ "SetStop" \in Requests 
    BY <1>1, Zenon DEF LoopInv, CancelLast, Requests, Setters
  <1>3. /\ wire' \in Seq(Requests \cup {"Cancel"}) /\ wire' # <<>>
        /\ wire'[Len(wire')] = "SetStop"
        /\ \A i \in DOMAIN wire' : i # Len(wire') => i \in DOMAIN wire /\ wire'[i] = wire[i]
    BY <1>1, <1>2, Sends DEF LoopTypes
  <1>4. \A i \in DOMAIN wire : wire[i] # "Cancel" BY <1>1, Zenon DEF LoopInv, CancelLast
  <1>5. \A i \in DOMAIN wire' : wire'[i] # "Cancel" BY <1>3, <1>4, Zenon
  <1>6. LoopTypes' BY <1>1, <1>2, <1>3, Zenon DEF LoopTypes, Mains
  <1>7. BatchFresh' BY <1>1, <1>3, Zenon DEF LoopInv, BatchFresh
  <1>8. SessionFollows' BY <1>1, Zenon DEF LoopInv, SessionFollows
  <1>9. CancelLast' BY <1>1, <1>2, <1>5, Zenon DEF CancelLast
  <1>10. StopComes(wire') BY <1>1, <1>2, StopComesAppend, Zenon DEF LoopTypes
  <1>11. StopLast' BY <1>10, Zenon DEF StopLast
  <1> QED BY <1>6, <1>7, <1>8, <1>9, <1>11, Zenon DEF LoopInv

LEMMA DestroyLoop == ASSUME LoopInv, Destroy PROVE LoopInv'
  <1>1. /\ main = "drained" /\ main' = "joining" /\ wire' = Append(wire, "Cancel")
        /\ UNCHANGED <<client, batch, canc1, session>>
    BY Zenon DEF Destroy, SendRPC
  <1>2. LoopTypes /\ ~canc1 BY <1>1, Zenon DEF LoopInv, CancelLast
  <1>3. /\ wire' \in Seq(Requests \cup {"Cancel"}) /\ wire' # <<>>
        /\ \A i \in DOMAIN wire' : i # Len(wire') => i \in DOMAIN wire /\ wire'[i] = wire[i]
    BY <1>1, <1>2, Sends DEF LoopTypes
  <1>4. \A i \in DOMAIN wire : wire[i] # "Cancel" BY <1>1, Zenon DEF LoopInv, CancelLast
  <1>5. LoopTypes' BY <1>1, <1>2, <1>3, Zenon DEF LoopTypes, Mains
  <1>6. BatchFresh' BY <1>1, <1>3, Zenon DEF LoopInv, BatchFresh
  <1>7. SessionFollows' BY <1>1, Zenon DEF LoopInv, SessionFollows
  <1>8. CancelLast' BY <1>1, <1>2, <1>3, <1>4, Zenon DEF CancelLast
  <1>9. /\ StopComes(wire) => StopComes(wire')
        /\ OnlyCancel(wire) => OnlyCancel(wire')
    BY <1>1, <1>2, StopComesAppend, Zenon DEF LoopTypes
  <1>10. StopLast' BY <1>1, <1>9, Zenon DEF LoopInv, StopLast
  <1> QED BY <1>5, <1>6, <1>7, <1>8, <1>10 DEF LoopInv

\* Steps that send nothing and leave the client loop alone.
LEMMA MainLoop == ASSUME LoopInv, RunServer \/ Shutdown \/ Destroyed PROVE LoopInv'
  <1>1. /\ UNCHANGED <<wire, client, batch, canc1, session>>
        /\ main \in {"building", "serving", "unserved", "joining"}
        /\ main' \in Mains \ {"drained", "joining"}
        /\ main = "joining" <=> main' = "destroyed"
        /\ main = "joining" => client = "returned"
    BY Zenon DEF RunServer, Shutdown, Destroyed, Mains
  <1>2. LoopTypes' BY <1>1, Zenon DEF LoopInv, LoopTypes
  <1>3. BatchFresh' BY <1>1, Zenon DEF LoopInv, BatchFresh
  <1>4. SessionFollows' BY <1>1, Zenon DEF LoopInv, SessionFollows
  <1>5. CancelLast'
    <2>1. CASE main = "joining"
      <3>1. canc1 /\ wire = <<>> BY <1>1, <2>1, Zenon DEF LoopInv, SessionFollows, CancelLast
      <3>2. DOMAIN wire' = {} BY <1>1, <3>1
      <3> QED BY <1>1, <2>1, <3>1, <3>2, Zenon DEF CancelLast
    <2>2. CASE main # "joining" BY <1>1, <2>2, Zenon DEF LoopInv, CancelLast
    <2> QED BY <2>1, <2>2, Zenon
  <1>6. StopLast' BY <1>1, Zenon DEF LoopInv, StopLast
  <1> QED BY <1>2, <1>3, <1>4, <1>5, <1>6, Zenon DEF LoopInv

-----------------------------------------------------------------------------
(* Steps of the client loop.                                               *)

\* The rest of a batch has no server socket and is as fresh.
LEMMA BatchTail ==
    ASSUME LoopInv, batch # <<>>
    PROVE  /\ Tail(batch) \in Seq({"server", "canc"})
           /\ Head(batch) \in {"server", "canc"}
           /\ Head(batch) = "server" => wire # <<>>
           /\ Head(batch) = "canc" => canc1
           /\ \A i \in DOMAIN Tail(batch) : /\ Tail(batch)[i] # "server"
                                            /\ Tail(batch)[i] = "canc" => canc1
  <1>1. batch \in Seq({"server", "canc"}) BY Zenon DEF LoopInv, LoopTypes
  <1>2. PICK n, t : n = Len(batch) /\ t = Tail(batch) BY Zenon
  <1>3. n \in Nat /\ n > 0 /\ DOMAIN batch = 1 .. n /\ Head(batch) = batch[1] /\ 1 \in 1 .. n
    BY <1>1, <1>2
  <1>4. /\ t \in Seq({"server", "canc"}) /\ DOMAIN t = 1 .. (n - 1)
        /\ \A i \in 1 .. (n - 1) : t[i] = batch[i + 1]
    BY <1>1, <1>2
  <1>5. \A i \in 1 .. (n - 1) : i + 1 \in 1 .. n /\ i + 1 # 1 BY <1>3
  <1>6. \A i \in DOMAIN t : t[i] # "server" /\ (t[i] = "canc" => canc1)
    <2>1. \A j \in DOMAIN batch : (batch[j] = "server" => j = 1) /\ (batch[j] = "canc" => canc1)
      BY Zenon DEF LoopInv, BatchFresh
    <2>2. ASSUME NEW i \in DOMAIN t PROVE t[i] = batch[i + 1] /\ i + 1 \in DOMAIN batch /\ i + 1 # 1
      BY <1>3, <1>4, <1>5, Zenon
    <2> QED BY <2>1, <2>2, Zenon
  <1>7. /\ Head(batch) = "server" => wire # <<>>
        /\ Head(batch) = "canc" => canc1
    BY <1>3, Zenon DEF LoopInv, BatchFresh
  <1>8. Head(batch) \in {"server", "canc"} BY <1>1
  <1> QED BY <1>2, <1>4, <1>6, <1>7, <1>8, Zenon

\* serveRPC() is given the first message of the socket, which is there.
LEMMA Served ==
    ASSUME LoopInv, NEW rpc, Serve(rpc)
    PROVE  /\ client = "poll" /\ session # "stopping" /\ ~canc1
           /\ batch' \in Seq({"server", "canc"})
           /\ wire' \in Seq(Requests \cup {"Cancel"})
           /\ \A i \in DOMAIN batch' : batch'[i] \notin {"server", "canc"}
           /\ \A i \in DOMAIN wire' : /\ wire'[i] = "Cancel" => i = Len(wire') /\ main = "joining"
                                      /\ rpc # "Cancel"
           /\ rpc = "Cancel" => wire' = <<>> /\ main = "joining"
           /\ main \in {"drained", "joining", "destroyed"} =>
                 \/ StopComes(wire')
                 \/ OnlyCancel(wire') /\ rpc = "SetStop"
                 \/ OnlyCancel(wire') /\ rpc = "Cancel" /\ session = "none"
  <1>1. /\ client = "poll" /\ batch # <<>> /\ Head(batch) = "server" /\ batch' = Tail(batch)
        /\ Head(wire) = rpc /\ wire' = Tail(wire)
    BY Zenon DEF Serve, Next1
  <1>2. /\ batch' \in Seq({"server", "canc"}) /\ wire # <<>>
        /\ \A i \in DOMAIN batch' : batch'[i] # "server" /\ (batch'[i] = "canc" => canc1)
    BY <1>1, BatchTail, Zenon
  <1>3. ~canc1 /\ session # "stopping" BY <1>1, <1>2, Zenon DEF LoopInv, CancelLast, SessionFollows
  <1>4. wire \in Seq(Requests \cup {"Cancel"}) BY Zenon DEF LoopInv, LoopTypes
  <1>5. PICK n : n = Len(wire) BY Zenon
  <1>6. n \in Nat /\ n > 0 /\ DOMAIN wire = 1 .. n /\ wire[1] = rpc /\ 1 \in 1 .. n
    BY <1>1, <1>2, <1>4, <1>5
  <1>7. /\ wire' \in Seq(Requests \cup {"Cancel"}) /\ DOMAIN wire' = 1 .. (n - 1)
        /\ Len(wire') = n - 1
        /\ \A i \in 1 .. (n - 1) : wire'[i] = wire[i + 1] /\ i + 1 \in 1 .. n
    BY <1>1, <1>2, <1>4, <1>5
  <1>8. \A i \in DOMAIN wire : wire[i] = "Cancel" => i = n /\ main = "joining"
    BY <1>5, Zenon DEF LoopInv, CancelLast
  <1>9. rpc = "Cancel" => n = 1 /\ main = "joining" BY <1>6, <1>8, Zenon
  <1>10. ASSUME NEW i \in DOMAIN wire'
         PROVE  /\ wire'[i] = "Cancel" => i = Len(wire') /\ main = "joining"
                /\ rpc # "Cancel"
    <2>1. i \in 1 .. (n - 1) BY <1>7, Zenon
    <2>2. i + 1 = n => i = n - 1 BY <1>6, <2>1
    <2>3. n # 1 BY <1>6, <2>1
    <2> QED BY <1>6, <1>7, <1>8, <1>9, <2>1, <2>2, <2>3, Zenon
  <1>11. rpc = "Cancel" => wire' = <<>>
    <2>1. rpc = "Cancel" => Len(wire') = 0 BY <1>7, <1>9
    <2> QED BY <1>7, <2>1
  <1>12. ASSUME main \in {"drained", "joining", "destroyed"}
         PROVE  \/ StopComes(wire')
                \/ OnlyCancel(wire') /\ rpc = "SetStop"
                \/ OnlyCancel(wire') /\ rpc = "Cancel" /\ session = "none"
    <2>1. /\ StopComes(wire) => \/ StopComes(wire')
                                \/ rpc = "SetStop" /\ OnlyCancel(wire')
          /\ OnlyCancel(wire) => rpc = "Cancel" /\ OnlyCancel(wire')
      BY <1>1, <1>2, <1>4, StopComesTail, Zenon
    <2> QED BY <1>1, <1>12, <2>1, Zenon DEF LoopInv, StopLast
  <1> QED BY <1>1, <1>2, <1>3, <1>7, <1>9, <1>10, <1>11, <1>12, Zenon

\* Serving a message leaves the socket and the batch as LoopInv wants them.
LEMMA ServedSocket ==
    ASSUME LoopInv, NEW rpc, Serve(rpc), main' = main, canc1' = (rpc = "Cancel"),
           client' \in {"poll", "blocked", "returned", "thrown"},
           session' \in {"none", "running", "stopping", "ended"}
    PROVE  LoopTypes' /\ BatchFresh' /\ CancelLast'
  <1>1. /\ batch' \in Seq({"server", "canc"}) /\ wire' \in Seq(Requests \cup {"Cancel"})
        /\ \A i \in DOMAIN batch' : batch'[i] \notin {"server", "canc"}
        /\ \A i \in DOMAIN wire' : /\ wire'[i] = "Cancel" => i = Len(wire') /\ main = "joining"
                                   /\ rpc # "Cancel"
        /\ rpc = "Cancel" => wire' = <<>> /\ main = "joining"
    BY Served, Zenon
  <1>2. main \in Mains BY Zenon DEF LoopInv, LoopTypes
  <1>3. LoopTypes' BY <1>1, <1>2, Zenon DEF LoopTypes
  <1>4. BatchFresh' BY <1>1, Zenon DEF BatchFresh
  <1>5. CancelLast' BY <1>1, Zenon DEF CancelLast
  <1> QED BY <1>3, <1>4, <1>5, Zenon

\* Requests that do not concern the session.
LEMMA ServeQuietLoop ==
    ASSUME LoopInv, ServeCancel \/ ServeGet \/ ServeOther PROVE LoopInv'
  <1>2. PICK rpc : /\ Serve(rpc) /\ rpc # "SetStop" /\ UNCHANGED <<main, client, session>>
                   /\ rpc = "Cancel" => canc1' = TRUE
                   /\ rpc # "Cancel" => canc1' = canc1
    <2>1. CASE ServeCancel BY <2>1, Zenon DEF ServeCancel
    <2>2. CASE ServeGet
      <3>1. PICK rpc \in Getters : Serve(rpc) BY <2>2, Zenon DEF ServeGet
      <3>2. rpc # "SetStop" /\ rpc # "Cancel" BY ServiceAssumption, Zenon
      <3> QED BY <2>2, <3>1, <3>2, Zenon DEF ServeGet
    <2>3. CASE ServeOther
      <3>1. Serve("SetOther") /\ UNCHANGED <<main, client, session, canc1>> BY <2>3, Zenon DEF ServeOther
      <3>2. "SetOther" # "SetStop" /\ "SetOther" # "Cancel" BY Zenon
      <3> QED BY <3>1, <3>2, Zenon
    <2> QED BY <2>1, <2>2, <2>3, Zenon
  <1>3. /\ client = "poll" /\ session # "stopping" /\ ~canc1
        /\ main \in {"drained", "joining", "destroyed"} =>
              \/ StopComes(wire')
              \/ OnlyCancel(wire') /\ rpc = "SetStop"
              \/ OnlyCancel(wire') /\ rpc = "Cancel" /\ session = "none"
    BY <1>2, Served, Zenon
  <1>4. client \in {"poll"} /\ session \in {"none", "running", "ended"}
    BY <1>3, Zenon DEF LoopInv, LoopTypes
  <1>5. canc1' = (rpc = "Cancel")
    <2>1. canc1 = FALSE BY <1>3, Zenon DEF LoopInv, LoopTypes
    <2>2. CASE rpc = "Cancel" BY <1>2, <2>2, Zenon
    <2>3. CASE rpc # "Cancel" BY <1>2, <2>1, <2>3, Zenon
    <2> QED BY <2>2, <2>3, Zenon
  <1>6. LoopTypes' /\ BatchFresh' /\ CancelLast' BY <1>2, <1>4, <1>5, ServedSocket, Zenon
  <1>7. SessionFollows' BY <1>2, <1>4, Zenon DEF SessionFollows
  <1>8. StopLast' BY <1>2, <1>3, Zenon DEF StopLast
  <1> QED BY <1>6, <1>7, <1>8, Zenon DEF LoopInv

LEMMA ServeStartLoop == ASSUME LoopInv, ServeStart PROVE LoopInv'
  <1>1. /\ Serve("SetStart") /\ UNCHANGED <<main, canc1>>
        /\ session' = IF session = "none" THEN "running" ELSE session
        /\ client' = IF session = "ended" THEN "thrown" ELSE client
    BY Zenon DEF ServeStart
  <1>2. /\ client = "poll" /\ session # "stopping" /\ ~canc1
        /\ main \in {"drained", "joining", "destroyed"} => StopComes(wire')
    BY <1>1, Served
  <1>3. session \in {"none", "running", "ended"} BY <1>2, Zenon DEF LoopInv, LoopTypes
  <1>4. canc1' = ("SetStart" = "Cancel")
    <2>1. canc1 = FALSE BY <1>2, Zenon DEF LoopInv, LoopTypes
    <2> QED BY <1>1, <2>1, Zenon
  <1>5. /\ client' \in {"poll", "thrown"} /\ session' \in {"running", "ended"}
    BY <1>1, <1>2, <1>3, Zenon
  <1>6. LoopTypes' /\ BatchFresh' /\ CancelLast' BY <1>1, <1>4, <1>5, ServedSocket, Zenon
  <1>7. SessionFollows' BY <1>5, Zenon DEF SessionFollows
  <1>8. StopLast' BY <1>1, <1>2, Zenon DEF StopLast
  <1> QED BY <1>6, <1>7, <1>8, Zenon DEF LoopInv

LEMMA ServeStopLoop == ASSUME LoopInv, ServeStop PROVE LoopInv'
  <1>1. /\ Serve("SetStop") /\ UNCHANGED <<main, canc1>>
        /\ session' = CASE session = "running" -> "stopping"
                        [] session = "ended"   -> "none"
                        [] OTHER               -> session
        /\ client' = IF session = "running" THEN "blocked" ELSE client
    BY Zenon DEF ServeStop
  <1>2. /\ client = "poll" /\ session # "stopping" /\ ~canc1
        /\ main \in {"drained", "joining", "destroyed"} => StopComes(wire') \/ OnlyCancel(wire')
    BY <1>1, Served, Zenon
  <1>3. session \in {"none", "running", "ended"} BY <1>2, Zenon DEF LoopInv, LoopTypes
  <1>4. canc1' = ("SetStop" = "Cancel")
    <2>1. canc1 = FALSE BY <1>2, Zenon DEF LoopInv, LoopTypes
    <2> QED BY <1>1, <2>1, Zenon
  <1>5. \/ client' = "poll" /\ session' = "none"
        \/ client' = "blocked" /\ session' = "stopping"
    BY <1>1, <1>2, <1>3, Zenon
  <1>6. LoopTypes' /\ BatchFresh' /\ CancelLast' BY <1>1, <1>4, <1>5, ServedSocket, Zenon
  <1>7. SessionFollows' BY <1>5, Zenon DEF SessionFollows
  <1>8. StopLast' BY <1>1, <1>2, <1>5, Zenon DEF StopLast
  <1> QED BY <1>6, <1>7, <1>8 DEF LoopInv

\* The batch of a wait is fresh: the server socket first, then the cancellation.
LEMMA PollLoop == ASSUME LoopInv, PollClient PROVE LoopInv'
  <1>1. UNCHANGED <<main, client, wire, canc1, session>> BY Zenon DEF PollClient
  <1>2. PICK a, b : /\ batch' = a \o b
                    /\ a = IF wire # <<>> THEN <<"server">> ELSE <<>>
                    /\ b = IF canc1 THEN <<"canc">> ELSE <<>>
    BY Zenon DEF PollClient
  <1>3. canc1 => wire = <<>> BY Zenon DEF LoopInv, CancelLast
  <1>4. \/ a = <<>> /\ b = <<>>
        \/ a = <<"server">> /\ b = <<>> /\ wire # <<>>
        \/ a = <<>> /\ b = <<"canc">> /\ canc1
    <2>1. CASE canc1 BY <1>2, <1>3, <2>1, Zenon
    <2>2. CASE ~canc1 BY <1>2, <2>2, Zenon
    <2> QED BY <2>1, <2>2, Zenon
  <1>5. \/ batch' = <<>>
        \/ batch' = <<"server">> /\ wire # <<>>
        \/ batch' = <<"canc">> /\ canc1
    <2>1. \A x : <<>> \o <<x>> = <<x>> /\ <<x>> \o <<>> = <<x>> OBVIOUS
    <2>2. <<>> \o <<>> = <<>> OBVIOUS
    <2> QED BY <1>2, <1>4, <2>1, <2>2, Zenon
  <1>6. batch' \in Seq({"server", "canc"})
    <2>1. /\ <<>> \in Seq({"server", "canc"})
          /\ <<"server">> \in Seq({"server", "canc"}) /\ <<"canc">> \in Seq({"server", "canc"})
      OBVIOUS
    <2> QED BY <1>5, <2>1, Zenon
  <1>7. BatchFresh' BY <1>1, <1>5 DEF BatchFresh
  <1>8. LoopTypes' BY <1>1, <1>6, Zenon DEF LoopInv, LoopTypes
  <1>9. SessionFollows' /\ CancelLast' /\ StopLast'
    BY <1>1, Zenon DEF LoopInv, SessionFollows, CancelLast, StopLast
  <1> QED BY <1>7, <1>8, <1>9, Zenon DEF LoopInv

\* The loop returns only after the request to end, when there is no session.
LEMMA CancelledLoop == ASSUME LoopInv, Cancelled PROVE LoopInv'
  <1>1. /\ client = "poll" /\ batch # <<>> /\ Head(batch) = "canc" /\ batch' = Tail(batch)
        /\ client' = "returned" /\ UNCHANGED <<main, wire, canc1, session>>
    BY Zenon DEF Cancelled, Next1
  <1>2. /\ batch' \in Seq({"server", "canc"}) /\ canc1
        /\ \A i \in DOMAIN batch' : batch'[i] # "server"
    BY <1>1, BatchTail, Zenon
  <1>3. wire = <<>> /\ main \in {"joining", "destroyed"} BY <1>2, Zenon DEF LoopInv, CancelLast
  <1>4. ~StopComes(wire) BY <1>3 DEF StopComes
  <1>5. session = "none" /\ OnlyCancel(wire) BY <1>1, <1>3, <1>4, Zenon DEF LoopInv, StopLast
  <1>6. LoopTypes' BY <1>1, <1>2, Zenon DEF LoopInv, LoopTypes
  <1>7. BatchFresh' BY <1>1, <1>2, Zenon DEF BatchFresh
  <1>8. SessionFollows' BY <1>1, <1>2, <1>5, Zenon DEF SessionFollows
  <1>9. CancelLast' BY <1>1, Zenon DEF LoopInv, CancelLast
  <1>10. StopLast' BY <1>1, <1>5, Zenon DEF StopLast
  <1> QED BY <1>6, <1>7, <1>8, <1>9, <1>10 DEF LoopInv

\* The end of a session, and the wait for it.
LEMMA SessionLoop ==
    ASSUME LoopInv, ResultReady \/ Monitor \/ SessionStops \/ SessionFails PROVE LoopInv'
  <1>1. /\ UNCHANGED <<main, wire, batch, canc1>>
        /\ \/ client = "blocked" /\ client' = "poll" /\ session' = "none"
           \/ client' = client /\ session = "ended" /\ session' = "none" /\ client = "poll"
           \/ client' = client /\ session \in {"stopping", "running"} /\ session' = "ended"
    BY Zenon DEF ResultReady, Monitor, SessionStops, SessionFails
  <1>2. LoopTypes' BY <1>1, Zenon DEF LoopInv, LoopTypes
  <1>3. BatchFresh' BY <1>1, Zenon DEF LoopInv, BatchFresh
  <1>4. SessionFollows' BY <1>1, Zenon DEF LoopInv, SessionFollows
  <1>5. CancelLast' BY <1>1, Zenon DEF LoopInv, CancelLast
  <1>6. StopLast' BY <1>1, Zenon DEF LoopInv, SessionFollows, StopLast
  <1> QED BY <1>2, <1>3, <1>4, <1>5, <1>6 DEF LoopInv

LEMMA LoopNext == LoopInv /\ ReadingServed /\ [SNext]_svars => LoopInv'
  <1> SUFFICES ASSUME LoopInv, ReadingServed, [SNext]_svars PROVE LoopInv' OBVIOUS
  <1>1. ASSUME UNCHANGED <<main, wire, client, batch, canc1, session>> PROVE LoopInv'
    BY <1>1, Zenon DEF LoopInv, LoopTypes, BatchFresh, SessionFollows, CancelLast, StopLast
  <1>2. ASSUME NEW c \in Streams, \/ Connect(c) \/ Join(c) \/ Deadline(c) \/ ClientReads(c)
                                  \/ ClientCancels(c) \/ WaitForEvent(c)
        PROVE  LoopInv'
    BY <1>1, <1>2, Zenon DEF Connect, Join, Deadline, ClientReads, ClientCancels, WaitForEvent
  <1>3. CASE EventsLoop BY <1>1, <1>3, Zenon DEF EventsLoop, PublishEvent, PublishPing, Publish
  <1>4. ASSUME NEW c, RecvRPC(c) \/ Dispatch(c) \/ ReadEnds(c) PROVE LoopInv'
    BY <1>1, <1>4, Zenon DEF RecvRPC, Dispatch, ReadEnds
  <1>5. ASSUME NEW c, NEW rpc,
               \/ rpc \in Setters /\ Set(rpc)
               \/ rpc \in Getters /\ Get(c, rpc)
               \/ Read(c)
        PROVE  LoopInv'
    <2>1. \E m \in Requests : Requesting(m)
      BY <1>5, Zenon DEF Set, Get, Read, Requests, Setters
    <2>2. main \in {"serving", "draining"}
      BY <1>5, Zenon DEF Set, Get, Read, ReadingServed
    <2> QED BY <2>1, <2>2, RequestLoop, Zenon
  <1>6. CASE ClientLoop \/ Monitor
    BY <1>6, PollLoop, CancelledLoop, ServeQuietLoop, ServeStartLoop, ServeStopLoop,
       SessionLoop, Zenon DEF ClientLoop
  <1>7. CASE SessionStops \/ SessionFails BY <1>7, SessionLoop, Zenon
  <1>8. CASE RunServer \/ Shutdown BY <1>8, MainLoop, Zenon
  <1>9. CASE Teardown BY <1>9, DrainedLoop, DestroyLoop, MainLoop, Zenon DEF Teardown
  <1>10. CASE UNCHANGED svars BY <1>1, <1>10, Zenon DEF svars
  <1> QED BY <1>2, <1>3, <1>4, <1>5, <1>6, <1>7, <1>8, <1>9, <1>10, Zenon DEF SNext

\* The client loop leaves no session behind: shutdown() sends SetStop after the
\* last call has returned, so nothing can start a session behind it, and the
\* destructor's request to end is read only after it.
THEOREM NoSessionBehind == SSpec => []NoSessionLeft
  <1>1. LoopInv => NoSessionLeft BY Zenon DEF LoopInv, SessionFollows, NoSessionLeft
  <1> QED BY <1>1, LoopInit, LoopNext, ReadingInit, ReadingNext, PTL DEF SSpec

================================================================================
