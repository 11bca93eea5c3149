------------------------- MODULE WorkerSessionProofs -------------------------
(***************************************************************************)
(* Theorems about WorkerSession, for any number of operations and messages *)
(* that wait and any range of sequence numbers. SessionInv says together   *)
(* what the loop relies on: the sockets and what was told follow the       *)
(* states of the two machines, Start is served first, only an open socket  *)
(* holds messages, the poller lists what is open, and each item of the     *)
(* batch still to be served has something to read or was reopened by a     *)
(* timeout.                                                                *)
(***************************************************************************)
EXTENDS WorkerSession, TLAPS

-----------------------------------------------------------------------------
(* Short lists.                                                            *)

LEMMA SameList ==
    ASSUME NEW S, NEW s \in Seq(S), NEW r \in Seq(S), Len(s) = Len(r),
           \A i \in 1 .. Len(s) : s[i] = r[i]
    PROVE  s = r
  OBVIOUS

LEMMA Joined ==
    ASSUME NEW S, NEW s \in Seq(S), NEW r \in Seq(S)
    PROVE  /\ s \o r \in Seq(S) /\ Len(s \o r) = Len(s) + Len(r)
           /\ \A i \in 1 .. Len(s) : (s \o r)[i] = s[i]
           /\ \A i \in 1 .. Len(r) : (s \o r)[Len(s) + i] = r[i]
  OBVIOUS

LEMMA JoinedToNone ==
    ASSUME NEW S, NEW s \in Seq(S)
    PROVE  <<>> \o s = s /\ s \o <<>> = s
<1>1. Len(<<>> \o s) = Len(s) /\ Len(s \o <<>>) = Len(s) /\ <<>> \o s \in Seq(S) /\ s \o <<>> \in Seq(S)
  BY Joined
<1>2. \A i \in 1 .. Len(s) : (<<>> \o s)[i] = s[i] /\ (s \o <<>>)[i] = s[i]
  BY Joined
<1> QED BY <1>1, <1>2, SameList, Zenon

LEMMA Pairs ==
    ASSUME NEW x, NEW y
    PROVE  <<x>> \o <<y>> = <<x, y>>
<1>1. <<x>> \in Seq({x, y}) /\ <<y>> \in Seq({x, y}) /\ <<x, y>> \in Seq({x, y})
  OBVIOUS
<1>2. Len(<<x>>) = 1 /\ Len(<<y>>) = 1 /\ Len(<<x, y>>) = 2
  BY Zenon
<1>3. /\ <<x>> \o <<y>> \in Seq({x, y}) /\ Len(<<x>> \o <<y>>) = 2
      /\ (<<x>> \o <<y>>)[1] = x /\ (<<x>> \o <<y>>)[2] = y
  BY <1>1, <1>2, Joined
<1>4. \A i \in 1 .. 2 : (<<x>> \o <<y>>)[i] = <<x, y>>[i]
  BY <1>3
<1> QED BY <1>1, <1>2, <1>3, <1>4, SameList, Zenon

LEMMA PairAndOne ==
    ASSUME NEW x, NEW y, NEW z
    PROVE  <<x, y>> \o <<z>> = <<x, y, z>>
<1> DEFINE S == {x, y, z}
<1>1. PICK u, v, q : u = <<x, y>> /\ v = <<z>> /\ q = <<x, y, z>>
  BY Zenon
<1>2. u \in Seq(S) /\ Len(u) = 2 /\ u[1] = x /\ u[2] = y
  BY <1>1
<1>3. v \in Seq(S) /\ Len(v) = 1 /\ v[1] = z
  BY <1>1
<1>4. q \in Seq(S) /\ Len(q) = 3 /\ q[1] = x /\ q[2] = y /\ q[3] = z
  BY <1>1
<1> HIDE DEF S
<1>5. u \o v \in Seq(S) /\ Len(u \o v) = 3 /\ (u \o v)[1] = x /\ (u \o v)[2] = y /\ (u \o v)[3] = z
  <2>1. /\ u \o v \in Seq(S) /\ Len(u \o v) = Len(u) + Len(v)
        /\ \A i \in 1 .. Len(u) : (u \o v)[i] = u[i]
        /\ \A i \in 1 .. Len(v) : (u \o v)[Len(u) + i] = v[i]
    <3>1. u \in Seq(S) /\ v \in Seq(S)
      BY <1>2, <1>3, Zenon
    <3> QED BY <3>1, Joined
  <2>2. \A i \in 1 .. 2 : (u \o v)[i] = u[i]
    BY <1>2, <2>1, Zenon
  <2>3. \A i \in 1 .. 1 : (u \o v)[2 + i] = v[i]
    BY <1>2, <1>3, <2>1, Zenon
  <2> QED BY <1>2, <1>3, <2>1, <2>2, <2>3
<1>6. \A i \in 1 .. 3 : (u \o v)[i] = q[i]
  BY <1>4, <1>5
<1>7. u \o v = q
  BY <1>4, <1>5, <1>6, SameList, Zenon
<1> QED BY <1>1, <1>7, Zenon

LEMMA OneAndPair ==
    ASSUME NEW w, NEW x, NEW y
    PROVE  <<w>> \o <<x, y>> = <<w, x, y>>
<1> DEFINE S == {w, x, y}
<1>1. PICK u, v, q : u = <<w>> /\ v = <<x, y>> /\ q = <<w, x, y>>
  BY Zenon
<1>2. u \in Seq(S) /\ Len(u) = 1 /\ u[1] = w
  BY <1>1
<1>3. v \in Seq(S) /\ Len(v) = 2 /\ v[1] = x /\ v[2] = y
  BY <1>1
<1>4. q \in Seq(S) /\ Len(q) = 3 /\ q[1] = w /\ q[2] = x /\ q[3] = y
  BY <1>1
<1> HIDE DEF S
<1>5. u \o v \in Seq(S) /\ Len(u \o v) = 3 /\ (u \o v)[1] = w /\ (u \o v)[2] = x /\ (u \o v)[3] = y
  <2>1. /\ u \o v \in Seq(S) /\ Len(u \o v) = Len(u) + Len(v)
        /\ \A i \in 1 .. Len(u) : (u \o v)[i] = u[i]
        /\ \A i \in 1 .. Len(v) : (u \o v)[Len(u) + i] = v[i]
    <3>1. u \in Seq(S) /\ v \in Seq(S)
      BY <1>2, <1>3, Zenon
    <3> QED BY <3>1, Joined
  <2>2. \A i \in 1 .. 1 : (u \o v)[i] = u[i]
    BY <1>2, <2>1, Zenon
  <2>3. \A i \in 1 .. 2 : (u \o v)[1 + i] = v[i]
    BY <1>2, <1>3, <2>1, Zenon
  <2> QED BY <1>2, <1>3, <2>1, <2>2, <2>3
<1>6. \A i \in 1 .. 3 : (u \o v)[i] = q[i]
  BY <1>4, <1>5
<1>7. u \o v = q
  BY <1>4, <1>5, <1>6, SameList, Zenon
<1> QED BY <1>1, <1>7, Zenon

LEMMA TripleAndOne ==
    ASSUME NEW w, NEW x, NEW y, NEW z
    PROVE  <<w, x, y>> \o <<z>> = <<w, x, y, z>>
<1> DEFINE S == {w, x, y, z}
<1>1. PICK u, v, q : u = <<w, x, y>> /\ v = <<z>> /\ q = <<w, x, y, z>>
  BY Zenon
<1>2. u \in Seq(S) /\ Len(u) = 3 /\ u[1] = w /\ u[2] = x /\ u[3] = y
  BY <1>1
<1>3. v \in Seq(S) /\ Len(v) = 1 /\ v[1] = z
  BY <1>1
<1>4. q \in Seq(S) /\ Len(q) = 4 /\ q[1] = w /\ q[2] = x /\ q[3] = y /\ q[4] = z
  BY <1>1
<1> HIDE DEF S
<1>5. u \o v \in Seq(S) /\ Len(u \o v) = 4 /\ (u \o v)[1] = w /\ (u \o v)[2] = x /\ (u \o v)[3] = y /\ (u \o v)[4] = z
  <2>1. /\ u \o v \in Seq(S) /\ Len(u \o v) = Len(u) + Len(v)
        /\ \A i \in 1 .. Len(u) : (u \o v)[i] = u[i]
        /\ \A i \in 1 .. Len(v) : (u \o v)[Len(u) + i] = v[i]
    <3>1. u \in Seq(S) /\ v \in Seq(S)
      BY <1>2, <1>3, Zenon
    <3> QED BY <3>1, Joined
  <2>2. \A i \in 1 .. 3 : (u \o v)[i] = u[i]
    BY <1>2, <2>1, Zenon
  <2>3. \A i \in 1 .. 1 : (u \o v)[3 + i] = v[i]
    BY <1>2, <1>3, <2>1, Zenon
  <2> QED BY <1>2, <1>3, <2>1, <2>2, <2>3
<1>6. \A i \in 1 .. 4 : (u \o v)[i] = q[i]
  BY <1>4, <1>5
<1>7. u \o v = q
  BY <1>4, <1>5, <1>6, SameList, Zenon
<1> QED BY <1>1, <1>7, Zenon

LEMMA Nones ==
    ASSUME NEW x, NEW y
    PROVE  /\ <<>> \o <<>> = <<>>
           /\ <<>> \o <<x>> = <<x>> /\ <<x>> \o <<>> = <<x>>
           /\ <<>> \o <<x, y>> = <<x, y>> /\ <<x, y>> \o <<>> = <<x, y>>
<1> DEFINE S == {x, y}
<1>1. <<>> \in Seq(S) /\ <<x>> \in Seq(S) /\ <<x, y>> \in Seq(S)
  OBVIOUS
<1> HIDE DEF S
<1> QED BY <1>1, JoinedToNone, Zenon

\* f is what was seen after each of the events that a handler sends.
Seeing(f, s, es) ==
    /\ f[0] = s /\ \A i \in 1 .. Len(es) : f[i] = Observe(f[i - 1], es[i])
    /\ Observed(s, es) = f[Len(es)]

LEMMA ObservedAll ==
    ASSUME NEW S, NEW s, NEW es \in Seq(S), Len(es) <= 4
    PROVE  \E f : Seeing(f, s, es)
<1> DEFINE step(f) == [i \in 0 .. Len(es) |-> IF i = 0 THEN s ELSE Observe(f[i - 1], es[i])]
           a == Observe(s, es[1])
           b == Observe(a, es[2])
           c == Observe(b, es[3])
           d == Observe(c, es[4])
           g == [i \in 0 .. Len(es) |-> IF i = 0 THEN s ELSE IF i = 1 THEN a
                                        ELSE IF i = 2 THEN b ELSE IF i = 3 THEN c ELSE d]
           f == CHOOSE h : h = step(h)
<1>1. g = step(g)
  <2> HIDE DEF a, b, c, d
  <2>1. \A i \in 0 .. Len(es) : g[i] = step(g)[i]
    <3> SUFFICES ASSUME NEW i \in 0 .. Len(es) PROVE g[i] = step(g)[i]
      BY Zenon
    <3>1. i \in {0, 1, 2, 3, 4}
      OBVIOUS
    <3>2. a = Observe(s, es[1]) /\ b = Observe(a, es[2]) /\ c = Observe(b, es[3]) /\ d = Observe(c, es[4])
      BY Zenon DEF a, b, c, d
    <3> QED BY <3>1, <3>2
  <2> QED BY <2>1, Zenon
<1>2. f = step(f)
  <2> HIDE DEF step, g
  <2> QED BY <1>1, Zenon
<1>3. Observed(s, es) = f[Len(es)]
  BY Zenon DEF Observed
<1>4. f[0] = s /\ \A i \in 1 .. Len(es) : f[i] = Observe(f[i - 1], es[i])
  <2> HIDE DEF f
  <2> QED BY <1>2
<1> QED BY <1>3, <1>4, Zenon DEF Seeing

LEMMA ObservedNone ==
    ASSUME NEW s
    PROVE  Observed(s, <<>>) = s
<1> DEFINE S == {}
<1>1. PICK es : es = <<>>
  BY Zenon
<1>2. es \in Seq(S) /\ Len(es) = 0
  BY <1>1
<1> HIDE DEF S
<1>3. Len(es) <= 4
  BY <1>2
<1>4. PICK f : Seeing(f, s, es)
  BY <1>2, <1>3, ObservedAll, Zenon
<1> QED BY <1>1, <1>2, <1>4, Zenon DEF Seeing

LEMMA ObservedOne ==
    ASSUME NEW s, NEW a
    PROVE  Observed(s, <<a>>) = Observe(s, a)
<1> DEFINE S == {a}
<1>1. PICK es : es = <<a>>
  BY Zenon
<1>2. es \in Seq(S) /\ Len(es) = 1 /\ es[1] = a
  BY <1>1
<1> HIDE DEF S
<1>3. Len(es) <= 4
  BY <1>2
<1>4. PICK f : Seeing(f, s, es)
  BY <1>2, <1>3, ObservedAll, Zenon
<1>5. f[1] = Observe(s, a)
  BY <1>2, <1>4 DEF Seeing
<1> QED BY <1>1, <1>2, <1>4, <1>5, Zenon DEF Seeing

LEMMA ObservedTwo ==
    ASSUME NEW s, NEW a, NEW b
    PROVE  Observed(s, <<a, b>>) = Observe(Observe(s, a), b)
<1> DEFINE S == {a, b}
<1>1. PICK es : es = <<a, b>>
  BY Zenon
<1>2. es \in Seq(S) /\ Len(es) = 2 /\ es[1] = a /\ es[2] = b
  BY <1>1
<1> HIDE DEF S
<1>3. Len(es) <= 4
  BY <1>2
<1>4. PICK f : Seeing(f, s, es)
  BY <1>2, <1>3, ObservedAll, Zenon
<1>5. f[1] = Observe(s, a) /\ f[2] = Observe(f[1], b)
  BY <1>2, <1>4 DEF Seeing
<1> QED BY <1>1, <1>2, <1>4, <1>5, Zenon DEF Seeing

LEMMA ObservedThree ==
    ASSUME NEW s, NEW a, NEW b, NEW c
    PROVE  Observed(s, <<a, b, c>>) = Observe(Observe(Observe(s, a), b), c)
<1> DEFINE S == {a, b, c}
<1>1. PICK es : es = <<a, b, c>>
  BY Zenon
<1>2. es \in Seq(S) /\ Len(es) = 3 /\ es[1] = a /\ es[2] = b /\ es[3] = c
  BY <1>1
<1> HIDE DEF S
<1>3. Len(es) <= 4
  BY <1>2
<1>4. PICK f : Seeing(f, s, es)
  BY <1>2, <1>3, ObservedAll, Zenon
<1>5. f[1] = Observe(s, a) /\ f[2] = Observe(f[1], b) /\ f[3] = Observe(f[2], c)
  BY <1>2, <1>4 DEF Seeing
<1> QED BY <1>1, <1>2, <1>4, <1>5, Zenon DEF Seeing

LEMMA ObservedFour ==
    ASSUME NEW s, NEW a, NEW b, NEW c, NEW d
    PROVE  Observed(s, <<a, b, c, d>>) = Observe(Observe(Observe(Observe(s, a), b), c), d)
<1> DEFINE S == {a, b, c, d}
<1>1. PICK es : es = <<a, b, c, d>>
  BY Zenon
<1>2. es \in Seq(S) /\ Len(es) = 4 /\ es[1] = a /\ es[2] = b /\ es[3] = c /\ es[4] = d
  BY <1>1
<1> HIDE DEF S
<1>3. Len(es) <= 4
  BY <1>2
<1>4. PICK f : Seeing(f, s, es)
  BY <1>2, <1>3, ObservedAll, Zenon
<1>5. f[1] = Observe(s, a) /\ f[2] = Observe(f[1], b) /\ f[3] = Observe(f[2], c) /\ f[4] = Observe(f[3], d)
  BY <1>2, <1>4 DEF Seeing
<1> QED BY <1>1, <1>2, <1>4, <1>5, Zenon DEF Seeing

\* What a wait() takes of the poller, which has at most six items: some of
\* its items, each once.
Taken(S, r, s, places, n) ==
    /\ r \in Seq(S)
    /\ \A i \in 1 .. Len(r) : \E p \in places : p \in 1 .. n /\ r[i] = s[p]
    /\ \A i, j \in 1 .. Len(r) : r[i] = r[j] => i = j

LEMMA TakenNext ==
    ASSUME NEW S, NEW s \in Seq(S), \A i, j \in 1 .. Len(s) : s[i] = s[j] => i = j,
           NEW places, NEW n \in Nat, n + 1 <= Len(s), NEW r, Taken(S, r, s, places, n)
    PROVE  Taken(S, IF n + 1 \in places THEN Append(r, s[n + 1]) ELSE r, s, places, n + 1)
<1>1. CASE n + 1 \notin places
  BY <1>1 DEF Taken
<1>2. CASE n + 1 \in places
  <2>1. r \in Seq(S) /\ s[n + 1] \in S
    BY DEF Taken
  <2>2. PICK q : q = Append(r, s[n + 1])
    BY Zenon
  <2>3. /\ q \in Seq(S) /\ Len(q) = Len(r) + 1 /\ Len(r) \in Nat
        /\ \A i \in 1 .. Len(r) : q[i] = r[i]
        /\ q[Len(r) + 1] = s[n + 1]
    BY <2>1, <2>2
  <2>4. \A i \in 1 .. Len(r) : r[i] # s[n + 1]
    BY DEF Taken
  <2>5. \A i \in 1 .. Len(q) : \E p \in places : p \in 1 .. n + 1 /\ q[i] = s[p]
    <3> SUFFICES ASSUME NEW i \in 1 .. Len(q)
                 PROVE  \E p \in places : p \in 1 .. n + 1 /\ q[i] = s[p]
      BY Zenon
    <3>1. CASE i = Len(r) + 1
      BY <1>2, <2>3, <3>1
    <3>2. CASE i \in 1 .. Len(r)
      <4>1. PICK p \in places : p \in 1 .. n /\ r[i] = s[p]
        BY <3>2, Zenon DEF Taken
      <4> QED BY <2>3, <3>2, <4>1
    <3> QED BY <2>3, <3>1, <3>2
  <2>6. \A i, j \in 1 .. Len(q) : q[i] = q[j] => i = j
    <3> SUFFICES ASSUME NEW i \in 1 .. Len(q), NEW j \in 1 .. Len(q), q[i] = q[j] PROVE i = j
      BY Zenon
    <3>1. i \in 1 .. Len(r) \/ i = Len(r) + 1
      BY <2>3
    <3>2. j \in 1 .. Len(r) \/ j = Len(r) + 1
      BY <2>3
    <3>3. CASE i \in 1 .. Len(r) /\ j \in 1 .. Len(r)
      <4>1. r[i] = r[j]
        BY <2>3, <3>3, Zenon
      <4> QED BY <3>3, <4>1, Zenon DEF Taken
    <3> QED BY <2>3, <2>4, <3>1, <3>2, <3>3, Zenon
  <2>7. Taken(S, q, s, places, n + 1)
    BY <2>3, <2>5, <2>6, Zenon DEF Taken
  <2> QED BY <1>2, <2>2, <2>7, Zenon
<1> QED BY <1>1, <1>2, Zenon

LEMMA SelectedTaken ==
    ASSUME NEW S, NEW s \in Seq(S), \A i, j \in 1 .. Len(s) : s[i] = s[j] => i = j,
           NEW places, Len(s) <= 6
    PROVE  Taken(S, Selected(s, places), s, places, Len(s))
<1> DEFINE next(r, i) == IF i \in places THEN Append(r, s[i]) ELSE r
           step(f) == [i \in 0 .. Len(s) |-> IF i = 0 THEN <<>> ELSE next(f[i - 1], i)]
           a == next(<<>>, 1)
           b == next(a, 2)
           c == next(b, 3)
           d == next(c, 4)
           e == next(d, 5)
           g == [i \in 0 .. Len(s) |-> CASE i = 0 -> <<>> [] i = 1 -> a [] i = 2 -> b [] i = 3 -> c
                                         [] i = 4 -> d [] i = 5 -> e [] OTHER -> next(e, 6)]
           f == CHOOSE h : h = step(h)
<1>1. g = step(g)
  <2> HIDE DEF a, b, c, d, e, next
  <2>1. \A i \in 0 .. Len(s) : g[i] = step(g)[i]
    <3> SUFFICES ASSUME NEW i \in 0 .. Len(s) PROVE g[i] = step(g)[i]
      BY Zenon
    <3>1. i \in {0, 1, 2, 3, 4, 5, 6}
      OBVIOUS
    <3>2. a = next(<<>>, 1) /\ b = next(a, 2) /\ c = next(b, 3) /\ d = next(c, 4) /\ e = next(d, 5)
      BY Zenon DEF a, b, c, d, e
    <3> QED BY <3>1, <3>2
  <2> QED BY <2>1, Zenon
<1>2. f = step(f)
  <2> HIDE DEF step, g
  <2> QED BY <1>1, Zenon
<1>3. Selected(s, places) = f[Len(s)]
  BY Zenon DEF Selected
<1>4. f[0] = <<>> /\ \A i \in 1 .. Len(s) : f[i] = next(f[i - 1], i)
  <2> HIDE DEF f, next
  <2> QED BY <1>2
<1> HIDE DEF f, g, step, a, b, c, d, e
<1>5. Taken(S, f[0], s, places, 0)
  BY <1>4 DEF Taken
<1>6. ASSUME NEW n \in Nat, n + 1 <= Len(s), Taken(S, f[n], s, places, n)
      PROVE  Taken(S, f[n + 1], s, places, n + 1)
  <2>1. f[n + 1] = next(f[n], n + 1)
    <3> HIDE DEF next
    <3> QED BY <1>4, <1>6
  <2> QED BY <1>6, <2>1, TakenNext
<1>7. 1 <= Len(s) => Taken(S, f[1], s, places, 1)
  BY <1>5, <1>6
<1>8. 2 <= Len(s) => Taken(S, f[2], s, places, 2)
  BY <1>6, <1>7
<1>9. 3 <= Len(s) => Taken(S, f[3], s, places, 3)
  BY <1>6, <1>8
<1>10. 4 <= Len(s) => Taken(S, f[4], s, places, 4)
  BY <1>6, <1>9
<1>11. 5 <= Len(s) => Taken(S, f[5], s, places, 5)
  BY <1>6, <1>10
<1>12. 6 <= Len(s) => Taken(S, f[6], s, places, 6)
  BY <1>6, <1>11
<1>13. Len(s) \in {0, 1, 2, 3, 4, 5, 6}
  <2>1. Len(s) \in Nat /\ Len(s) <= 6
    OBVIOUS
  <2>2. \A n \in Nat : n <= 6 => n \in {0, 1, 2, 3, 4, 5, 6}
    OBVIOUS
  <2> QED BY <2>1, <2>2, Zenon
<1> QED BY <1>3, <1>5, <1>7, <1>8, <1>9, <1>10, <1>11, <1>12, <1>13

\* A list of n different items, those of R.
Lists(S, list, R, n) ==
    list \in Seq(S) /\ IsInjective(list) /\ Range(list) = R /\ Len(list) = n

LEMMA RemovedOne ==
    ASSUME NEW S, NEW list, NEW R, NEW n, Lists(S, list, R, n), NEW s \in R
    PROVE  Lists(S, Removed(list, s), R \ {s}, n - 1)
<1> DEFINE at == CHOOSE i \in DOMAIN list : list[i] = s
<1>1. list \in Seq(S) /\ Len(list) = n /\ n \in Nat /\ DOMAIN list = 1 .. n
  BY DEF Lists
<1>2. \A i, j \in 1 .. n : list[i] = list[j] => i = j
  BY <1>1, Zenon DEF Lists, IsInjective
<1>3. R = {list[i] : i \in 1 .. n}
  BY <1>1, Zenon DEF Lists, Range
<1>4. at \in 1 .. n /\ list[at] = s
  BY <1>1, <1>3, Zenon
<1>5. Removed(list, s) = SubSeq(list, 1, at - 1) \o SubSeq(list, at + 1, Len(list))
  BY Zenon DEF Removed
<1> HIDE DEF at
<1>6. PICK r : r = Removed(list, s)
  BY Zenon
<1>7. PICK u, v : u = SubSeq(list, 1, at - 1) /\ v = SubSeq(list, at + 1, Len(list))
  BY Zenon
<1>8. /\ u \in Seq(S) /\ Len(u) = at - 1 /\ \A i \in 1 .. at - 1 : u[i] = list[i]
      /\ v \in Seq(S) /\ Len(v) = n - at /\ \A i \in 1 .. n - at : v[i] = list[at + i]
  BY <1>1, <1>4, <1>7
<1>9. r = u \o v
  BY <1>5, <1>6, <1>7, Zenon
<1>10. /\ r \in Seq(S) /\ Len(r) = n - 1
       /\ \A i \in 1 .. at - 1 : r[i] = list[i]
       /\ \A i \in 1 .. n - at : r[at - 1 + i] = list[at + i]
  <2>1. u \in Seq(S) /\ v \in Seq(S)
    BY <1>8, Zenon
  <2>2. /\ r \in Seq(S) /\ Len(r) = Len(u) + Len(v)
        /\ \A i \in 1 .. Len(u) : r[i] = u[i]
        /\ \A i \in 1 .. Len(v) : r[Len(u) + i] = v[i]
    BY <1>9, <2>1, Joined
  <2>3. Len(r) = n - 1
    BY <1>1, <1>4, <1>8, <2>2
  <2>4. \A i \in 1 .. at - 1 : r[i] = list[i]
    BY <1>8, <2>2, Zenon
  <2>5. \A i \in 1 .. n - at : r[at - 1 + i] = list[at + i]
    BY <1>8, <2>2, Zenon
  <2> QED BY <2>2, <2>3, <2>4, <2>5, Zenon
<1>11. \A i \in 1 .. n - 1 : r[i] = IF i < at THEN list[i] ELSE list[i + 1]
  <2> SUFFICES ASSUME NEW i \in 1 .. n - 1 PROVE r[i] = IF i < at THEN list[i] ELSE list[i + 1]
    BY Zenon
  <2>1. CASE i < at
    BY <1>4, <1>10, <2>1
  <2>2. CASE ~(i < at)
    <3>1. i - at + 1 \in 1 .. n - at /\ at - 1 + (i - at + 1) = i /\ at + (i - at + 1) = i + 1
      BY <1>1, <1>4, <2>2
    <3>2. r[at - 1 + (i - at + 1)] = list[at + (i - at + 1)]
      BY <1>10, <3>1, Zenon
    <3> QED BY <2>2, <3>1, <3>2, Zenon
  <2> QED BY <2>1, <2>2, Zenon
<1>12. DOMAIN r = 1 .. n - 1
  BY <1>10
<1>13. IsInjective(r)
  BY <1>1, <1>2, <1>4, <1>11, <1>12 DEF IsInjective
<1>14. Range(r) = R \ {s}
  <2>1. \A i \in 1 .. n - 1 : r[i] \in R \ {s}
    BY <1>1, <1>2, <1>3, <1>4, <1>11
  <2>2. ASSUME NEW x \in R \ {s} PROVE \E i \in 1 .. n - 1 : r[i] = x
    <3>1. PICK j \in 1 .. n : list[j] = x
      BY <1>3, <2>2, Zenon
    <3>2. j # at
      BY <1>4, <2>2, <3>1, Zenon
    <3>3. CASE j < at
      BY <1>1, <1>4, <1>11, <3>1, <3>3
    <3>4. CASE j > at
      <4>1. j - 1 \in 1 .. n - 1 /\ ~(j - 1 < at) /\ j - 1 + 1 = j
        BY <1>1, <1>4, <3>1, <3>4
      <4> QED BY <1>11, <3>1, <4>1, Zenon
    <3> QED BY <1>1, <1>4, <3>1, <3>2, <3>3, <3>4
  <2> QED BY <1>12, <2>1, <2>2, Zenon DEF Range
<1> QED BY <1>6, <1>10, <1>13, <1>14, Zenon DEF Lists

LEMMA AddedOne ==
    ASSUME NEW S, NEW list, NEW R, NEW n, Lists(S, list, R, n), NEW s \in S \ R
    PROVE  Lists(S, Append(list, s), R \cup {s}, n + 1)
<1>1. list \in Seq(S) /\ Len(list) = n /\ n \in Nat /\ DOMAIN list = 1 .. n
  BY DEF Lists
<1>2. \A i, j \in 1 .. n : list[i] = list[j] => i = j
  BY <1>1, Zenon DEF Lists, IsInjective
<1>3. R = {list[i] : i \in 1 .. n}
  BY <1>1, Zenon DEF Lists, Range
<1>4. PICK r : r = Append(list, s)
  BY Zenon
<1>5. /\ r \in Seq(S) /\ Len(r) = n + 1 /\ DOMAIN r = 1 .. n + 1
      /\ \A i \in 1 .. n : r[i] = list[i]
      /\ r[n + 1] = s
  BY <1>1, <1>4
<1>6. IsInjective(r)
  BY <1>1, <1>2, <1>3, <1>5 DEF IsInjective
<1>7. Range(r) = R \cup {s}
  BY <1>1, <1>3, <1>5 DEF Range
<1> QED BY <1>4, <1>5, <1>6, <1>7, Zenon DEF Lists

-----------------------------------------------------------------------------
(* The poller.                                                             *)

Always == {"oper", "retry", "connTimeout", "syncTimeout"}
Items == Always \cup {"delivery", "snapshot"}

\* The items while the sockets of conn_ are open, if c, and that of sync_, if o.
Polled(c, o) ==
    Always \cup (IF c THEN {"delivery"} ELSE {}) \cup (IF o THEN {"snapshot"} ELSE {})
Count(c, o) == 4 + (IF c THEN 1 ELSE 0) + (IF o THEN 1 ELSE 0)

Polls(list, c, o) == Lists(Items, list, Polled(c, o), Count(c, o))

LEMMA ReopenedLists ==
    ASSUME NEW S, NEW list, NEW R, NEW n, Lists(S, list, R, n), NEW s \in S,
           NEW close \in BOOLEAN, NEW opened \in BOOLEAN, opened /\ s \in R => close
    PROVE  Lists(S, Reopened(list, s, close, opened),
                 (IF close THEN R \ {s} ELSE R) \cup (IF opened THEN {s} ELSE {}),
                 n - (IF close /\ s \in R THEN 1 ELSE 0) + (IF opened THEN 1 ELSE 0))
<1> DEFINE left == IF close /\ s \in Range(list) THEN Removed(list, s) ELSE list
           Q == IF close THEN R \ {s} ELSE R
           m == n - (IF close /\ s \in R THEN 1 ELSE 0)
<1>1. Range(list) = R /\ n \in Nat
  BY DEF Lists
<1>2. Lists(S, left, Q, m)
  <2>1. CASE close /\ s \in R
    BY <1>1, <2>1, RemovedOne, Zenon
  <2>2. CASE ~(close /\ s \in R)
    <3>1. left = list /\ Q = R /\ m = n
      BY <1>1, <2>2
    <3> QED BY <3>1, Zenon
  <2> QED BY <2>1, <2>2, Zenon
<1>3. Reopened(list, s, close, opened) = IF opened THEN Append(left, s) ELSE left
  BY Zenon DEF Reopened
<1>4. opened => s \notin Q
  BY Zenon
<1>5. m \in Int
  BY <1>1
<1> HIDE DEF left, Q, m
<1>6. CASE opened
  <2>1. Lists(S, Append(left, s), Q \cup {s}, m + 1)
    BY <1>2, <1>4, <1>6, AddedOne, Zenon
  <2> QED BY <1>3, <1>6, <2>1, Zenon DEF Q, m
<1>7. CASE ~opened
  <2>1. Q \cup {} = Q /\ m + 0 = m
    BY <1>5
  <2> QED BY <1>2, <1>3, <1>7, <2>1, Zenon DEF Q, m
<1> QED BY <1>6, <1>7, Zenon

LEMMA ConnPolls ==
    ASSUME NEW c \in BOOLEAN, NEW o \in BOOLEAN, NEW list, Polls(list, c, o),
           NEW close \in BOOLEAN, NEW opened \in BOOLEAN, opened => close
    PROVE  Polls(Reopened(list, "delivery", close, opened), IF close THEN opened ELSE c, o)
<1> DEFINE R == Polled(c, o)
           n == Count(c, o)
           Q == (IF close THEN R \ {"delivery"} ELSE R) \cup (IF opened THEN {"delivery"} ELSE {})
           m == n - (IF close /\ "delivery" \in R THEN 1 ELSE 0) + (IF opened THEN 1 ELSE 0)
<1>1. "delivery" \in Items
  BY Zenon DEF Items
<1>2. Lists(Items, Reopened(list, "delivery", close, opened), Q, m)
  BY <1>1, ReopenedLists DEF Polls
<1>3. "delivery" \in R <=> c
  BY Zenon DEF Polled, Always
<1>4. Q = Polled(IF close THEN opened ELSE c, o)
  BY Zenon DEF Polled, Always
<1>5. m = Count(IF close THEN opened ELSE c, o)
  BY <1>3 DEF Count
<1> QED BY <1>2, <1>4, <1>5, Zenon DEF Polls

LEMMA SyncPolls ==
    ASSUME NEW c \in BOOLEAN, NEW o \in BOOLEAN, NEW list, Polls(list, c, o),
           NEW close \in BOOLEAN, NEW opened \in BOOLEAN, opened /\ o => close
    PROVE  Polls(Reopened(list, "snapshot", close, opened), c, opened \/ (o /\ ~close))
<1> DEFINE R == Polled(c, o)
           n == Count(c, o)
           Q == (IF close THEN R \ {"snapshot"} ELSE R) \cup (IF opened THEN {"snapshot"} ELSE {})
           m == n - (IF close /\ "snapshot" \in R THEN 1 ELSE 0) + (IF opened THEN 1 ELSE 0)
<1>1. "snapshot" \in Items
  BY Zenon DEF Items
<1>2. "snapshot" \in R <=> o
  BY Zenon DEF Polled, Always
<1>3. Lists(Items, Reopened(list, "snapshot", close, opened), Q, m)
  BY <1>1, <1>2, ReopenedLists DEF Polls
<1>4. Q = Polled(c, opened \/ (o /\ ~close))
  BY Zenon DEF Polled, Always
<1>5. m = Count(c, opened \/ (o /\ ~close))
  BY <1>2 DEF Count
<1> QED BY <1>3, <1>4, <1>5, Zenon DEF Polls

-----------------------------------------------------------------------------
(* The callbacks of a step of conn_.                                       *)

LEMMA TriggerCalls ==
    ASSUME Conn!Trigger
    PROVE  /\ cstate' = "Trying" /\ csock' = TRUE /\ tryTick' = tryTick
           /\ Called("close") = TRUE /\ Called("open") = TRUE /\ Called("change") = (cstate # "Trying")
<1> DEFINE three == <<"close", "open", "pong">>
           S == {"change", "close", "open", "pong"}
<1>1. /\ cstate' = "Trying" /\ csock' = TRUE /\ tryTick' = tryTick
      /\ ccalls' = (IF cstate = "Trying" THEN <<>> ELSE <<"change">>) \o three
  BY Zenon DEF Conn!Trigger, Conn!Change, Conn!Try!TStart
<1>2. three \in Seq(S) /\ Len(three) = 3 /\ <<"change">> \in Seq(S) /\ Len(<<"change">>) = 1
  OBVIOUS
<1>3. CASE cstate = "Trying"
  <2>1. ccalls' = three
    BY <1>1, <1>2, <1>3, JoinedToNone, Zenon
  <2>2. DOMAIN ccalls' = {1, 2, 3} /\ ccalls'[1] = "close" /\ ccalls'[2] = "open" /\ ccalls'[3] = "pong"
    BY <2>1
  <2> HIDE DEF three
  <2> QED BY <1>1, <1>3, <2>2, Zenon DEF Called
<1>4. CASE cstate # "Trying"
  <2>1. ccalls' = <<"change">> \o three
    BY <1>1, <1>4, Zenon
  <2>2. /\ ccalls' \in Seq(S) /\ Len(ccalls') = 4
        /\ ccalls'[1] = "change" /\ ccalls'[2] = "close" /\ ccalls'[3] = "open"
    BY <1>2, <2>1, Joined
  <2>3. 1 \in DOMAIN ccalls' /\ 2 \in DOMAIN ccalls' /\ 3 \in DOMAIN ccalls'
    BY <2>2
  <2> QED BY <1>1, <1>4, <2>2, <2>3, Zenon DEF Called
<1> QED BY <1>3, <1>4, Zenon

LEMMA HaltCalls ==
    ASSUME Conn!Halt
    PROVE  /\ cstate' = "Halted" /\ csock' = FALSE
           /\ Called("close") = TRUE /\ Called("open") = FALSE /\ Called("change") = TRUE
<1>1. cstate' = "Halted" /\ csock' = FALSE /\ ccalls' = <<"close", "change">>
  BY Zenon DEF Conn!Halt
<1>2. DOMAIN ccalls' = {1, 2} /\ ccalls'[1] = "close" /\ ccalls'[2] = "change"
  BY <1>1
<1> QED BY <1>1, <1>2, Zenon DEF Called

LEMMA PingCalls ==
    ASSUME Conn!OnPing
    PROVE  /\ cstate # "Halted" /\ cstate' = "Stable" /\ csock' = csock
           /\ tryTick' = tryTick /\ ctmoTick' = ctmoTick
           /\ Called("close") = FALSE /\ Called("open") = FALSE /\ Called("change") = (cstate # "Stable")
<1>1. /\ cstate # "Halted" /\ cstate' = "Stable" /\ csock' = csock
      /\ tryTick' = tryTick /\ ctmoTick' = ctmoTick
      /\ ccalls' = (IF cstate = "Stable" THEN <<>> ELSE <<"change">>) \o <<"pong">>
  BY Zenon DEF Conn!OnPing, Conn!Change, Conn!Try!TStop, Conn!Tmo!TStart
<1>2. <<"pong">> \in Seq({"pong"})
  OBVIOUS
<1>3. CASE cstate = "Stable"
  <2>1. ccalls' = <<"pong">>
    BY <1>1, <1>2, <1>3, JoinedToNone, Zenon
  <2>2. DOMAIN ccalls' = {1} /\ ccalls'[1] = "pong"
    BY <2>1
  <2> QED BY <1>1, <1>3, <2>2, Zenon DEF Called
<1>4. CASE cstate # "Stable"
  <2>1. ccalls' = <<"change", "pong">>
    BY <1>1, <1>4, Pairs, Zenon
  <2>2. DOMAIN ccalls' = {1, 2} /\ ccalls'[1] = "change" /\ ccalls'[2] = "pong"
    BY <2>1
  <2> QED BY <1>1, <1>4, <2>2, Zenon DEF Called
<1> QED BY <1>3, <1>4, Zenon

LEMMA FewCalls ==
    ASSUME ccalls' = <<>> \/ ccalls' = <<"pong">>
    PROVE  Called("close") = FALSE /\ Called("open") = FALSE /\ Called("change") = FALSE
<1>1. CASE ccalls' = <<>>
  <2>1. DOMAIN ccalls' = {}
    BY <1>1
  <2> QED BY <2>1, Zenon DEF Called
<1>2. CASE ccalls' = <<"pong">>
  <2>1. DOMAIN ccalls' = {1} /\ ccalls'[1] = "pong"
    BY <1>2
  <2> QED BY <2>1, Zenon DEF Called
<1> QED BY <1>1, <1>2, Zenon

-----------------------------------------------------------------------------
(* What the events of a step tell.                                         *)

\* An application that was told everything in order.
Told(u, o, l) == [up |-> u, online |-> o, loading |-> l, ok |-> TRUE]

LEMMA ToldNext ==
    ASSUME NEW o \in BOOLEAN, NEW l \in BOOLEAN
    PROVE  /\ Observe(Told(FALSE, o, l), "Started") = Told(TRUE, o, l)
           /\ Observe(Told(TRUE, FALSE, FALSE), "Stopped") = Told(FALSE, FALSE, FALSE)
           /\ Observe(Told(TRUE, FALSE, l), "Online") = Told(TRUE, TRUE, l)
           /\ Observe(Told(TRUE, TRUE, l), "Offline") = Told(TRUE, FALSE, l)
           /\ Observe(Told(TRUE, o, FALSE), "SyncDownloadOn") = Told(TRUE, o, TRUE)
           /\ Observe(Told(TRUE, o, TRUE), "SyncDownloadOff") = Told(TRUE, o, FALSE)
           /\ Observe(Told(TRUE, o, l), "Delivery") = Told(TRUE, o, l)
           /\ \A e \in {"SyncBegin", "SyncElement", "SyncSuccess", "SyncError", "SyncRequest"} :
                Observe(Told(TRUE, o, TRUE), e) = Told(TRUE, o, TRUE)
<1>1. Observe(Told(FALSE, o, l), "Started") = Told(TRUE, o, l)
  <2>1. ASSUME NEW s, s = Told(FALSE, o, l) PROVE Observe(s, "Started") = Told(TRUE, o, l)
    <3>1. s.up = FALSE /\ s.online = o /\ s.loading = l /\ s.ok = TRUE
      BY <2>1 DEF Told
    <3>2. InOrder(s, "Started")
      BY <3>1 DEF InOrder
    <3> QED BY <3>1, <3>2, Zenon DEF Observe, Told
  <2> QED BY <2>1, Zenon
<1>2. Observe(Told(TRUE, FALSE, FALSE), "Stopped") = Told(FALSE, FALSE, FALSE)
  <2>1. ASSUME NEW s, s = Told(TRUE, FALSE, FALSE) PROVE Observe(s, "Stopped") = Told(FALSE, FALSE, FALSE)
    <3>1. s.up = TRUE /\ s.online = FALSE /\ s.loading = FALSE /\ s.ok = TRUE
      BY <2>1 DEF Told
    <3>2. InOrder(s, "Stopped")
      BY <3>1 DEF InOrder
    <3> QED BY <3>1, <3>2, Zenon DEF Observe, Told
  <2> QED BY <2>1, Zenon
<1>3. Observe(Told(TRUE, FALSE, l), "Online") = Told(TRUE, TRUE, l)
  <2>1. ASSUME NEW s, s = Told(TRUE, FALSE, l) PROVE Observe(s, "Online") = Told(TRUE, TRUE, l)
    <3>1. s.up = TRUE /\ s.online = FALSE /\ s.loading = l /\ s.ok = TRUE
      BY <2>1 DEF Told
    <3>2. InOrder(s, "Online")
      BY <3>1 DEF InOrder
    <3> QED BY <3>1, <3>2, Zenon DEF Observe, Told
  <2> QED BY <2>1, Zenon
<1>4. Observe(Told(TRUE, TRUE, l), "Offline") = Told(TRUE, FALSE, l)
  <2>1. ASSUME NEW s, s = Told(TRUE, TRUE, l) PROVE Observe(s, "Offline") = Told(TRUE, FALSE, l)
    <3>1. s.up = TRUE /\ s.online = TRUE /\ s.loading = l /\ s.ok = TRUE
      BY <2>1 DEF Told
    <3>2. InOrder(s, "Offline")
      BY <3>1 DEF InOrder
    <3> QED BY <3>1, <3>2, Zenon DEF Observe, Told
  <2> QED BY <2>1, Zenon
<1>5. Observe(Told(TRUE, o, FALSE), "SyncDownloadOn") = Told(TRUE, o, TRUE)
  <2>1. ASSUME NEW s, s = Told(TRUE, o, FALSE) PROVE Observe(s, "SyncDownloadOn") = Told(TRUE, o, TRUE)
    <3>1. s.up = TRUE /\ s.online = o /\ s.loading = FALSE /\ s.ok = TRUE
      BY <2>1 DEF Told
    <3>2. InOrder(s, "SyncDownloadOn")
      BY <3>1 DEF InOrder
    <3> QED BY <3>1, <3>2, Zenon DEF Observe, Told
  <2> QED BY <2>1, Zenon
<1>6. Observe(Told(TRUE, o, TRUE), "SyncDownloadOff") = Told(TRUE, o, FALSE)
  <2>1. ASSUME NEW s, s = Told(TRUE, o, TRUE) PROVE Observe(s, "SyncDownloadOff") = Told(TRUE, o, FALSE)
    <3>1. s.up = TRUE /\ s.online = o /\ s.loading = TRUE /\ s.ok = TRUE
      BY <2>1 DEF Told
    <3>2. InOrder(s, "SyncDownloadOff")
      BY <3>1 DEF InOrder
    <3> QED BY <3>1, <3>2, Zenon DEF Observe, Told
  <2> QED BY <2>1, Zenon
<1>7. Observe(Told(TRUE, o, l), "Delivery") = Told(TRUE, o, l)
  <2>1. ASSUME NEW s, s = Told(TRUE, o, l) PROVE Observe(s, "Delivery") = Told(TRUE, o, l)
    <3>1. s.up = TRUE /\ s.online = o /\ s.loading = l /\ s.ok = TRUE
      BY <2>1 DEF Told
    <3>2. InOrder(s, "Delivery")
      BY <3>1 DEF InOrder
    <3> QED BY <3>1, <3>2, Zenon DEF Observe, Told
  <2> QED BY <2>1, Zenon
<1>8. ASSUME NEW e \in {"SyncBegin", "SyncElement", "SyncSuccess", "SyncError", "SyncRequest"}
      PROVE  Observe(Told(TRUE, o, TRUE), e) = Told(TRUE, o, TRUE)
  <2>1. ASSUME NEW s, s = Told(TRUE, o, TRUE) PROVE Observe(s, e) = Told(TRUE, o, TRUE)
    <3>1. s.up = TRUE /\ s.online = o /\ s.loading = TRUE /\ s.ok = TRUE
      BY <2>1 DEF Told
    <3>2. InOrder(s, e)
      BY <3>1 DEF InOrder
    <3> QED BY <3>1, <3>2, Zenon DEF Observe, Told
  <2> QED BY <2>1, Zenon
<1> HIDE DEF Told
<1> QED BY <1>1, <1>2, <1>3, <1>4, <1>5, <1>6, <1>7, <1>8, Zenon

\* The events of a step of conn_ while the session is up.
LEMMA ConnTold ==
    ASSUME isOnline \in BOOLEAN, NEW l \in BOOLEAN, seen = Told(TRUE, isOnline, l),
           isOnline' = IF Called("change") THEN cstate' = "Stable" ELSE isOnline,
           SendEvents(<<>> \o ConnEvents)
    PROVE  seen' = Told(TRUE, isOnline', l)
<1>1. PICK es : es = ConnEvents
  BY Zenon
<1>2. seen' = Observed(seen, <<>> \o es)
  BY <1>1, Zenon DEF SendEvents
<1>3. es = <<>> \/ es = <<"Online">> \/ es = <<"Offline">>
  BY <1>1, Zenon DEF ConnEvents
<1>4. seen' = Observed(seen, es)
  <2> DEFINE S == {"Online", "Offline"}
  <2>1. <<>> \in Seq(S) /\ <<"Online">> \in Seq(S) /\ <<"Offline">> \in Seq(S)
    OBVIOUS
  <2>2. es \in Seq(S)
    BY <1>3, <2>1, Zenon
  <2> HIDE DEF S
  <2> QED BY <1>2, <2>2, JoinedToNone, Zenon
<1>5. CASE isOnline' = isOnline
  <2>1. es = <<>>
    BY <1>1, <1>5, Zenon DEF ConnEvents
  <2>2. seen' = seen
    BY <1>4, <2>1, ObservedNone, Zenon
  <2> QED BY <1>5, <2>2, Zenon
<1>6. CASE isOnline' = TRUE /\ isOnline = FALSE
  <2>1. es = <<"Online">>
    BY <1>1, <1>6, Zenon DEF ConnEvents
  <2>2. seen' = Observe(seen, "Online")
    BY <1>4, <2>1, ObservedOne, Zenon
  <2>3. seen = Told(TRUE, FALSE, l)
    BY <1>6, Zenon
  <2>4. seen' = Told(TRUE, TRUE, l)
    BY <2>2, <2>3, ToldNext, Zenon
  <2> QED BY <1>6, <2>4, Zenon
<1>7. CASE isOnline' = FALSE /\ isOnline = TRUE
  <2>1. es = <<"Offline">>
    BY <1>1, <1>7, Zenon DEF ConnEvents
  <2>2. seen' = Observe(seen, "Offline")
    BY <1>4, <2>1, ObservedOne, Zenon
  <2>3. seen = Told(TRUE, TRUE, l)
    BY <1>7, Zenon
  <2>4. seen' = Told(TRUE, FALSE, l)
    BY <2>2, <2>3, ToldNext, Zenon
  <2> QED BY <1>7, <2>4, Zenon
<1> QED BY <1>5, <1>6, <1>7, Zenon

\* The events of a step of sync_.
LEMMA SyncLists ==
    /\ sstate # "Download" /\ sstate' = "Download" /\ isSnapshot = FALSE /\ asked' = TRUE
         => SyncEvents = <<"SyncDownloadOn", "SyncRequest">>
    /\ sstate' = sstate /\ asked' = TRUE => SyncEvents = <<"SyncRequest">>
    /\ sstate' = sstate /\ asked' = FALSE => SyncEvents = <<>>
    /\ sstate = "Download" /\ sstate' = "Synced" /\ isSnapshot = TRUE /\ asked' = FALSE
         => SyncEvents = <<"SyncSuccess", "SyncDownloadOff">>
    /\ sstate = "Download" /\ sstate' \in {"Failed", "Halted"} /\ isSnapshot = TRUE /\ asked' = FALSE
         => SyncEvents = <<"SyncError", "SyncDownloadOff">>
    /\ sstate \in {"Synced", "Failed"} /\ sstate' = "Halted" /\ isSnapshot = FALSE /\ asked' = FALSE
         => SyncEvents = <<>>
<1>1. ASSUME sstate # "Download", sstate' = "Download", isSnapshot = FALSE, asked' = TRUE
      PROVE  SyncEvents = <<"SyncDownloadOn", "SyncRequest">>
  <2>1. SyncEvents = <<"SyncDownloadOn">> \o <<"SyncRequest">>
    BY <1>1, Zenon DEF SyncEvents
  <2> QED BY <2>1, Pairs, Zenon
<1>2. ASSUME sstate' = sstate, asked' = TRUE PROVE SyncEvents = <<"SyncRequest">>
  <2>1. SyncEvents = <<>> \o <<"SyncRequest">>
    BY <1>2, Zenon DEF SyncEvents
  <2> QED BY <2>1, Nones, Zenon
<1>3. ASSUME sstate' = sstate, asked' = FALSE PROVE SyncEvents = <<>>
  <2>1. SyncEvents = <<>> \o <<>>
    BY <1>3, Zenon DEF SyncEvents
  <2> QED BY <2>1, Nones, Zenon
<1>4. ASSUME sstate = "Download", sstate' = "Synced", isSnapshot = TRUE, asked' = FALSE
      PROVE  SyncEvents = <<"SyncSuccess", "SyncDownloadOff">>
  <2>1. SyncEvents = (<<"SyncSuccess">> \o <<"SyncDownloadOff">>) \o <<>>
    BY <1>4, Zenon DEF SyncEvents
  <2> QED BY <2>1, Nones, Pairs, Zenon
<1>5. ASSUME sstate = "Download", sstate' \in {"Failed", "Halted"}, isSnapshot = TRUE, asked' = FALSE
      PROVE  SyncEvents = <<"SyncError", "SyncDownloadOff">>
  <2>1. SyncEvents = (<<"SyncError">> \o <<"SyncDownloadOff">>) \o <<>>
    BY <1>5, Zenon DEF SyncEvents
  <2> QED BY <2>1, Nones, Pairs, Zenon
<1>6. ASSUME sstate \in {"Synced", "Failed"}, sstate' = "Halted", isSnapshot = FALSE, asked' = FALSE
      PROVE  SyncEvents = <<>>
  <2>1. SyncEvents = (<<>> \o <<>>) \o <<>>
    BY <1>6, Zenon DEF SyncEvents
  <2> QED BY <2>1, Nones, Zenon
<1> QED BY <1>1, <1>2, <1>3, <1>4, <1>5, <1>6, Zenon

\* What they tell: a download that starts, goes on or ends.
LEMMA SyncTold ==
    ASSUME NEW o \in BOOLEAN, SendEvents(<<>> \o SyncEvents)
    PROVE  /\ sstate # "Download" /\ sstate' = "Download" /\ isSnapshot = FALSE /\ asked' = TRUE
              /\ seen = Told(TRUE, o, FALSE)
                => seen' = Told(TRUE, o, TRUE)
           /\ sstate' = sstate /\ asked' = TRUE /\ seen = Told(TRUE, o, TRUE)
                => seen' = Told(TRUE, o, TRUE)
           /\ sstate' = sstate /\ asked' = FALSE => seen' = seen
           /\ sstate = "Download" /\ sstate' \in {"Synced", "Failed"} /\ isSnapshot = TRUE /\ asked' = FALSE
              /\ seen = Told(TRUE, o, TRUE)
                => seen' = Told(TRUE, o, FALSE)
<1>1. ASSUME sstate # "Download", sstate' = "Download", isSnapshot = FALSE, asked' = TRUE,
             seen = Told(TRUE, o, FALSE)
      PROVE  seen' = Told(TRUE, o, TRUE)
  <2>1. seen' = Observed(seen, <<>> \o <<"SyncDownloadOn", "SyncRequest">>)
    BY <1>1, SyncLists, Zenon DEF SendEvents
  <2>2. seen' = Observed(seen, <<"SyncDownloadOn", "SyncRequest">>)
    BY <2>1, Nones, Zenon
  <2>3. seen' = Observe(Observe(seen, "SyncDownloadOn"), "SyncRequest")
    BY <2>2, ObservedTwo
  <2> QED BY <1>1, <2>3, ToldNext, Zenon
<1>2. ASSUME sstate' = sstate, asked' = TRUE, seen = Told(TRUE, o, TRUE)
      PROVE  seen' = Told(TRUE, o, TRUE)
  <2>1. seen' = Observed(seen, <<>> \o <<"SyncRequest">>)
    BY <1>2, SyncLists, Zenon DEF SendEvents
  <2>2. seen' = Observe(seen, "SyncRequest")
    BY <2>1, Nones, ObservedOne, Zenon
  <2> QED BY <1>2, <2>2, ToldNext, Zenon
<1>3. ASSUME sstate' = sstate, asked' = FALSE PROVE seen' = seen
  <2>1. seen' = Observed(seen, <<>> \o <<>>)
    BY <1>3, SyncLists, Zenon DEF SendEvents
  <2> QED BY <2>1, Nones, ObservedNone, Zenon
<1>4. ASSUME sstate = "Download", sstate' \in {"Synced", "Failed"}, isSnapshot = TRUE, asked' = FALSE,
             seen = Told(TRUE, o, TRUE)
      PROVE  seen' = Told(TRUE, o, FALSE)
  <2>1. PICK e \in {"SyncSuccess", "SyncError"} : SyncEvents = <<e, "SyncDownloadOff">>
    <3>1. CASE sstate' = "Synced"
      BY <1>4, <3>1, SyncLists, Zenon
    <3>2. CASE sstate' = "Failed"
      BY <1>4, <3>2, SyncLists, Zenon
    <3> QED BY <1>4, <3>1, <3>2, Zenon
  <2>2. seen' = Observed(seen, <<e, "SyncDownloadOff">>)
    BY <2>1, Nones, Zenon DEF SendEvents
  <2>3. seen' = Observe(Observe(seen, e), "SyncDownloadOff")
    BY <2>2, ObservedTwo
  <2>4. Observe(seen, e) = Told(TRUE, o, TRUE)
    BY <1>4, ToldNext, Zenon
  <2> QED BY <2>3, <2>4, ToldNext, Zenon
<1> QED BY <1>1, <1>2, <1>3, <1>4, Zenon

LEMMA StopFour ==
    ASSUME NEW s, NEW a, NEW b, NEW c, NEW d
    PROVE  Observed(s, (<<a>> \o <<b, c>>) \o <<d>>) = Observe(Observe(Observe(Observe(s, a), b), c), d)
<1>1. <<a>> \o <<b, c>> = <<a, b, c>>
  BY OneAndPair, Zenon
<1>2. <<a, b, c>> \o <<d>> = <<a, b, c, d>>
  BY TripleAndOne, Zenon
<1>3. Observed(s, <<a, b, c, d>>) = Observe(Observe(Observe(Observe(s, a), b), c), d)
  BY ObservedFour
<1> QED BY <1>1, <1>2, <1>3, Zenon

LEMMA StopThree ==
    ASSUME NEW s, NEW a, NEW b, NEW c
    PROVE  Observed(s, (<<>> \o <<a, b>>) \o <<c>>) = Observe(Observe(Observe(s, a), b), c)
<1>1. <<>> \o <<a, b>> = <<a, b>>
  BY Nones, Zenon
<1>2. <<a, b>> \o <<c>> = <<a, b, c>>
  BY PairAndOne, Zenon
<1>3. Observed(s, <<a, b, c>>) = Observe(Observe(Observe(s, a), b), c)
  BY ObservedThree
<1> QED BY <1>1, <1>2, <1>3, Zenon

LEMMA StopTwo ==
    ASSUME NEW s, NEW a, NEW b
    PROVE  Observed(s, (<<a>> \o <<>>) \o <<b>>) = Observe(Observe(s, a), b)
<1>1. <<a>> \o <<>> = <<a>>
  BY Nones, Zenon
<1>2. <<a>> \o <<b>> = <<a, b>>
  BY Pairs, Zenon
<1>3. Observed(s, <<a, b>>) = Observe(Observe(s, a), b)
  BY ObservedTwo
<1> QED BY <1>1, <1>2, <1>3, Zenon

LEMMA StopLists ==
    ASSUME NEW s
    PROVE  /\ Observed(s, (<<"Offline">> \o <<"SyncError", "SyncDownloadOff">>) \o <<"Stopped">>)
                = Observe(Observe(Observe(Observe(s, "Offline"), "SyncError"), "SyncDownloadOff"), "Stopped")
           /\ Observed(s, (<<>> \o <<"SyncError", "SyncDownloadOff">>) \o <<"Stopped">>)
                = Observe(Observe(Observe(s, "SyncError"), "SyncDownloadOff"), "Stopped")
           /\ Observed(s, (<<"Offline">> \o <<>>) \o <<"Stopped">>)
                = Observe(Observe(s, "Offline"), "Stopped")
<1>1. Observed(s, (<<"Offline">> \o <<"SyncError", "SyncDownloadOff">>) \o <<"Stopped">>)
        = Observe(Observe(Observe(Observe(s, "Offline"), "SyncError"), "SyncDownloadOff"), "Stopped")
  BY StopFour
<1>2. Observed(s, (<<>> \o <<"SyncError", "SyncDownloadOff">>) \o <<"Stopped">>)
        = Observe(Observe(Observe(s, "SyncError"), "SyncDownloadOff"), "Stopped")
  BY StopThree
<1>3. Observed(s, (<<"Offline">> \o <<>>) \o <<"Stopped">>) = Observe(Observe(s, "Offline"), "Stopped")
  BY StopTwo
<1> QED BY <1>1, <1>2, <1>3, Zenon

\* What stopping tells: offline and out of the download first, if that is news.
LEMMA StopTold ==
    ASSUME isOnline \in BOOLEAN, isSnapshot \in BOOLEAN, seen = Told(TRUE, isOnline, isSnapshot),
           NEW es, SendEvents(ConnEvents \o es \o <<"Stopped">>),
           Called("change") = TRUE, cstate' = "Halted",
           es = IF isSnapshot THEN <<"SyncError", "SyncDownloadOff">> ELSE <<>>
    PROVE  seen' = Told(FALSE, FALSE, FALSE)
<1>1. ConnEvents = IF isOnline THEN <<"Offline">> ELSE <<>>
  BY Zenon DEF ConnEvents
<1>2. seen' = Observed(seen, (ConnEvents \o es) \o <<"Stopped">>)
  BY Zenon DEF SendEvents
<1>3. CASE isOnline = TRUE /\ isSnapshot = TRUE
  <2>1. seen' = Observed(seen, (<<"Offline">> \o <<"SyncError", "SyncDownloadOff">>) \o <<"Stopped">>)
    BY <1>1, <1>2, <1>3, Zenon
  <2>2. seen' = Observe(Observe(Observe(Observe(seen, "Offline"), "SyncError"), "SyncDownloadOff"), "Stopped")
    BY <2>1, StopLists, Zenon
  <2> QED BY <1>3, <2>2, ToldNext, Zenon
<1>4. CASE isOnline = TRUE /\ isSnapshot = FALSE
  <2>1. seen' = Observed(seen, (<<"Offline">> \o <<>>) \o <<"Stopped">>)
    BY <1>1, <1>2, <1>4, Zenon
  <2>2. seen' = Observe(Observe(seen, "Offline"), "Stopped")
    BY <2>1, StopLists, Zenon
  <2> QED BY <1>4, <2>2, ToldNext, Zenon
<1>5. CASE isOnline = FALSE /\ isSnapshot = TRUE
  <2>1. seen' = Observed(seen, (<<>> \o <<"SyncError", "SyncDownloadOff">>) \o <<"Stopped">>)
    BY <1>1, <1>2, <1>5, Zenon
  <2>2. seen' = Observe(Observe(Observe(seen, "SyncError"), "SyncDownloadOff"), "Stopped")
    BY <2>1, StopLists, Zenon
  <2> QED BY <1>5, <2>2, ToldNext, Zenon
<1>6. CASE isOnline = FALSE /\ isSnapshot = FALSE
  <2>1. seen' = Observed(seen, (<<>> \o <<>>) \o <<"Stopped">>)
    BY <1>1, <1>2, <1>6, Zenon
  <2>2. seen' = Observe(seen, "Stopped")
    BY <2>1, Nones, ObservedOne, Zenon
  <2> QED BY <1>6, <2>2, ToldNext, Zenon
<1> QED BY <1>3, <1>4, <1>5, <1>6, Zenon

-----------------------------------------------------------------------------
(* The inductive invariant.                                                *)

\* The two machines, their sockets, what the session remembers of them and
\* what the application was told.
Machines ==
    /\ cstate \in {"Halted", "Trying", "Stable"} /\ csock = (cstate # "Halted")
    /\ sstate \in {"Halted", "Download", "Failed", "Synced"}
    /\ indexCurr = 0 /\ indexNext = 0 /\ seqNum \in Nat
    /\ sopen = IF sstate \in {"Download", "Synced"} THEN {0} ELSE {}
    /\ cstate = "Halted" => sstate = "Halted"
    /\ isOnline = (cstate = "Stable") /\ isSnapshot = (sstate = "Download")
    /\ seen = Told(cstate # "Halted", isOnline, isSnapshot)

\* Start is the first operation and is served before any other.
Operations ==
    /\ ops \in Seq({"Start", "Sync", "Stop"})
    /\ \A i \in 1 .. Len(ops) : ops[i] = "Start" => i = 1 /\ cstate = "Halted"
    /\ sub = "none" => ops = <<>> /\ cstate = "Halted"
    /\ mode = "loop" /\ cstate = "Halted" /\ sub # "none" => ops # <<>> /\ ops[1] = "Start"

\* Only an open socket holds messages, that of sync_ only during a download,
\* and the completion of a snapshot is the last of them.
Replies == [type : {"begin", "elem", "compl"}, seqn : Nat]

Network ==
    /\ deliv \in Seq({"hugz", "updt"}) /\ (deliv # <<>> => cstate # "Halted")
    /\ snap \in Seq(Replies)
    /\ sstate # "Download" => snap = <<>> /\ stage = "none"
    /\ \A i \in 1 .. Len(snap) : snap[i].type = "compl" => i = Len(snap) /\ stage = "none"

Poller == Polls(items, csock, sopen # {})

\* What EmptyOnlyReopened says of the item being served.
Due(i) ==
    \/ Readable(i)
    \/ i = "delivery" /\ cstate = "Trying" /\ csock
    \/ i = "snapshot" /\ sstate \in {"Download", "Failed"}

\* It holds of every item of the batch, and none is there twice.
Batch ==
    /\ batch \in Seq(Items)
    /\ \A i, j \in 1 .. Len(batch) : batch[i] = batch[j] => i = j
    /\ \A i \in 1 .. Len(batch) : Due(batch[i])
    /\ mode # "loop" => batch = <<>>

SessionInv == Machines /\ Operations /\ Network /\ Poller /\ Batch

LEMMA TailOf ==
    ASSUME NEW S, NEW s \in Seq(S), s # <<>>
    PROVE  /\ Len(s) \in Nat /\ Len(s) >= 1 /\ Head(s) = s[1] /\ s[1] \in S
           /\ Tail(s) \in Seq(S) /\ Len(Tail(s)) = Len(s) - 1
           /\ \A i \in 1 .. Len(s) - 1 : Tail(s)[i] = s[i + 1]
  OBVIOUS

LEMMA DueOf ==
    /\ Due("oper") <=> ops # <<>>
    /\ Due("delivery") <=> deliv # <<>> \/ (cstate = "Trying" /\ csock)
    /\ Due("snapshot") <=> snap # <<>> \/ sstate \in {"Download", "Failed"}
    /\ Due("retry") <=> tryTick
    /\ Due("connTimeout") <=> ctmoTick
    /\ Due("syncTimeout") <=> stmoTick
  BY Zenon DEF Due, Readable

LEMMA DueOfNext ==
    /\ Due("oper")' <=> ops' # <<>>
    /\ Due("delivery")' <=> deliv' # <<>> \/ (cstate' = "Trying" /\ csock')
    /\ Due("snapshot")' <=> snap' # <<>> \/ sstate' \in {"Download", "Failed"}
    /\ Due("retry")' <=> tryTick'
    /\ Due("connTimeout")' <=> ctmoTick'
    /\ Due("syncTimeout")' <=> stmoTick'
  BY Zenon DEF Due, Readable

\* The other items stay due when the first has been served.
LEMMA BatchServed ==
    ASSUME Batch, batch # <<>>, mode = "loop", mode' = mode, batch' = Tail(batch),
           \A i \in Items \ {Head(batch)} : Due(i) => Due(i)'
    PROVE  Batch'
<1>1. /\ batch \in Seq(Items)
      /\ \A i, j \in 1 .. Len(batch) : batch[i] = batch[j] => i = j
      /\ \A i \in 1 .. Len(batch) : Due(batch[i])
  BY Zenon DEF Batch
<1>2. /\ Len(batch) \in Nat /\ Len(batch) >= 1 /\ Head(batch) = batch[1]
      /\ batch' \in Seq(Items) /\ Len(batch') = Len(batch) - 1
      /\ \A i \in 1 .. Len(batch) - 1 : batch'[i] = batch[i + 1]
  BY <1>1, TailOf, Zenon
<1>3. ASSUME NEW i \in 1 .. Len(batch') PROVE Due(batch[i])'
  <2>1. i + 1 \in 1 .. Len(batch) /\ i + 1 # 1 /\ 1 \in 1 .. Len(batch) /\ batch'[i] = batch[i + 1]
    BY <1>2, <1>3
  <2>2. batch[i + 1] \in Items /\ batch[i + 1] # batch[1] /\ Due(batch[i + 1])
    BY <1>1, <2>1
  <2>3. PICK it \in Items \ {Head(batch)} : it = batch[i + 1] /\ Due(it)
    BY <1>2, <2>2, Zenon
  <2>4. Due(it)'
    BY <2>3, Zenon
  <2>5. batch'[i] = it
    BY <2>1, <2>3, Zenon
  <2> QED BY <2>4, <2>5, Zenon DEF Due, Readable
<1>4. \A i, j \in 1 .. Len(batch') : batch'[i] = batch'[j] => i = j
  <2> SUFFICES ASSUME NEW i \in 1 .. Len(batch'), NEW j \in 1 .. Len(batch'), batch'[i] = batch'[j]
               PROVE  i = j
    BY Zenon
  <2>1. i + 1 \in 1 .. Len(batch) /\ j + 1 \in 1 .. Len(batch) /\ batch[i + 1] = batch[j + 1]
    BY <1>2
  <2> QED BY <1>1, <1>2, <2>1
<1> QED BY <1>2, <1>3, <1>4, Zenon DEF Batch

LEMMA BatchStays ==
    ASSUME Batch, batch' = batch, mode' = mode, \A i \in Items : Due(i) => Due(i)'
    PROVE  Batch'
<1>1. ASSUME NEW i \in 1 .. Len(batch') PROVE Due(batch[i])'
  <2>1. PICK it \in Items : it = batch[i] /\ Due(it)
    BY <1>1 DEF Batch
  <2>2. Due(it)'
    BY <2>1, Zenon
  <2>3. batch'[i] = it
    BY <2>1, Zenon
  <2> QED BY <2>2, <2>3, Zenon DEF Due, Readable
<1> QED BY <1>1 DEF Batch

-----------------------------------------------------------------------------
(* Each action keeps the invariant.                                        *)

\* The machines and the poller are left alone.
LEMMA MachinesStay ==
    ASSUME Machines, Poller, loopVars' = loopVars,
           UNCHANGED <<cstate, csock, sstate, indexCurr, indexNext, seqNum, sopen>>
    PROVE  Machines' /\ Poller'
<1>1. UNCHANGED <<items, isOnline, isSnapshot, seen>>
  BY Zenon DEF loopVars
<1>2. Machines'
  BY <1>1, Zenon DEF Machines
<1>3. Poller'
  BY <1>1, Zenon DEF Poller
<1> QED BY <1>2, <1>3, Zenon

LEMMA WaitKeeps == SessionInv /\ Wait => SessionInv'
<1> SUFFICES ASSUME SessionInv, Wait PROVE SessionInv'
  BY Zenon
<1>1. /\ Machines /\ Operations /\ Network /\ Poller /\ Batch
      /\ mode = "loop" /\ batch' = Selected(items, {i \in DOMAIN items : Readable(items[i])})
      /\ UNCHANGED <<connVars, syncVars, loopVars, sub, ops, deliv, snap, stage, mode>>
  BY Zenon DEF SessionInv, Wait
<1>2. UNCHANGED <<cstate, csock, sstate, indexCurr, indexNext, seqNum, sopen, tryTick, ctmoTick, stmoTick>>
  BY <1>1, Zenon DEF connVars, syncVars
<1>3. Machines' /\ Poller'
  BY <1>1, <1>2, MachinesStay, Zenon
<1>4. Operations' /\ Network'
  BY <1>1, <1>2, Zenon DEF Operations, Network
<1>5. Batch'
  <2> DEFINE places == {i \in DOMAIN items : Readable(items[i])}
  <2>1. items \in Seq(Items) /\ IsInjective(items) /\ Len(items) = Count(csock, sopen # {})
    BY <1>1, Zenon DEF Poller, Polls, Lists
  <2>2. Len(items) <= 6 /\ DOMAIN items = 1 .. Len(items)
    BY <2>1 DEF Count
  <2>3. \A i, j \in 1 .. Len(items) : items[i] = items[j] => i = j
    BY <2>1, <2>2, Zenon DEF IsInjective
  <2>4. \A p \in places : p \in 1 .. Len(items) /\ Readable(items[p])
    BY <2>2, Zenon
  <2>5. batch' = Selected(items, places)
    BY <1>1, Zenon
  <2> HIDE DEF places
  <2>6. Taken(Items, batch', items, places, Len(items))
    BY <2>1, <2>2, <2>3, <2>5, SelectedTaken, Zenon
  <2>7. ASSUME NEW i \in 1 .. Len(batch') PROVE Due(batch[i])'
    <3>1. PICK it \in Items : it = batch'[i] /\ Readable(it)
      BY <2>1, <2>4, <2>6, <2>7, SMTT(20) DEF Taken
    <3>2. Readable(it)'
      BY <1>1, <1>2, <3>1, Zenon DEF Readable
    <3> QED BY <3>1, <3>2, Zenon DEF Due, Readable
  <2> QED BY <1>1, <2>6, <2>7, Zenon DEF Batch, Taken
<1> QED BY <1>3, <1>4, <1>5, Zenon DEF SessionInv

LEMMA ThrowsKeeps == SessionInv /\ Throws => SessionInv'
<1> SUFFICES ASSUME SessionInv, Throws PROVE SessionInv'
  OBVIOUS
<1>1. /\ Machines /\ Operations /\ Network /\ Poller
      /\ mode' = "thrown" /\ batch' = <<>>
      /\ UNCHANGED <<connVars, syncVars, loopVars, sub, ops, deliv, snap, stage>>
  BY Zenon DEF SessionInv, Throws
<1>2. UNCHANGED <<cstate, csock, sstate, indexCurr, indexNext, seqNum, sopen>>
  BY <1>1, Zenon DEF connVars, syncVars
<1>3. Machines' /\ Poller'
  BY <1>1, <1>2, MachinesStay, Zenon
<1>4. Operations' /\ Network'
  BY <1>1, <1>2, Zenon DEF Operations, Network
<1>5. Batch'
  BY <1>1 DEF Batch
<1> QED BY <1>3, <1>4, <1>5 DEF SessionInv

LEMMA SubmitKeeps == SessionInv /\ Submit => SessionInv'
<1> SUFFICES ASSUME SessionInv, Submit PROVE SessionInv'
  OBVIOUS
<1>1. /\ Machines /\ Operations /\ Network /\ Poller /\ Batch
      /\ UNCHANGED <<connVars, syncVars, loopVars, deliv, snap, stage, batch, mode>>
  BY Zenon DEF SessionInv, Submit
<1>2. UNCHANGED <<cstate, csock, sstate, indexCurr, indexNext, seqNum, sopen, tryTick, ctmoTick, stmoTick>>
  BY <1>1, Zenon DEF connVars, syncVars
<1>3. Machines' /\ Poller'
  BY <1>1, <1>2, MachinesStay, Zenon
<1>4. Network'
  BY <1>1, <1>2, Zenon DEF Network
<1>5. PICK o \in {"Start", "Sync", "Stop"} :
        /\ ops' = Append(ops, o) /\ sub' # "none"
        /\ o = "Start" <=> sub = "none"
  BY Zenon DEF Submit
<1>6. /\ ops \in Seq({"Start", "Sync", "Stop"}) /\ ops' \in Seq({"Start", "Sync", "Stop"})
      /\ Len(ops) \in Nat /\ Len(ops') = Len(ops) + 1 /\ ops'[Len(ops) + 1] = o
      /\ \A i \in 1 .. Len(ops) : ops'[i] = ops[i]
      /\ ops' # <<>> /\ (ops = <<>> <=> Len(ops) = 0)
  BY <1>1, <1>5 DEF Operations
<1>7. Operations'
  <2>1. \A i \in 1 .. Len(ops') : ops'[i] = "Start" => i = 1 /\ cstate' = "Halted"
    BY <1>1, <1>2, <1>5, <1>6 DEF Operations
  <2>2. mode' = "loop" /\ cstate' = "Halted" => ops'[1] = "Start"
    BY <1>1, <1>2, <1>5, <1>6 DEF Operations
  <2> QED BY <1>5, <1>6, <2>1, <2>2, Zenon DEF Operations
<1>8. Batch'
  <2>1. \A i \in Items : Due(i) => Due(i)'
    BY <1>1, <1>2, <1>6, DueOf, DueOfNext, Zenon DEF Items, Always
  <2> QED BY <1>1, <2>1, BatchStays, Zenon
<1> QED BY <1>3, <1>4, <1>7, <1>8, Zenon DEF SessionInv

LEMMA ExpiryKeeps == SessionInv /\ Expiry => SessionInv'
<1> SUFFICES ASSUME SessionInv, Expiry PROVE SessionInv'
  OBVIOUS
<1>1. /\ Machines /\ Operations /\ Network /\ Poller /\ Batch
      /\ UNCHANGED <<loopVars, sub, ops, deliv, snap, stage, batch, mode>>
  BY Zenon DEF SessionInv, Expiry
<1>2. /\ UNCHANGED <<cstate, csock, sstate, indexCurr, indexNext, seqNum, sopen>>
      /\ tryTick => tryTick'
      /\ ctmoTick => ctmoTick'
      /\ stmoTick => stmoTick'
  BY DEF Expiry, connVars, syncVars, Conn!RetryExpires, Conn!TimeoutExpires, Conn!Try!TFire,
         Conn!Tmo!TFire, Sync!TimeoutExpires, Sync!Tmo!TFire
<1>3. Machines' /\ Poller'
  BY <1>1, <1>2, MachinesStay, Zenon
<1>4. Operations' /\ Network'
  BY <1>1, <1>2, Zenon DEF Operations, Network
<1>5. \A i \in Items : Due(i) => Due(i)'
  BY <1>1, <1>2, DueOf, DueOfNext, Zenon DEF Items, Always
<1>6. Batch'
  BY <1>1, <1>5, BatchStays, Zenon
<1> QED BY <1>3, <1>4, <1>6 DEF SessionInv

LEMMA ArrivesKeeps == SessionInv /\ Arrives => SessionInv'
<1> SUFFICES ASSUME SessionInv, Arrives PROVE SessionInv'
  OBVIOUS
<1>1. /\ Machines /\ Operations /\ Network /\ Poller /\ Batch /\ csock
      /\ UNCHANGED <<connVars, syncVars, loopVars, sub, ops, snap, stage, batch, mode>>
  BY Zenon DEF SessionInv, Arrives
<1>2. UNCHANGED <<cstate, csock, sstate, indexCurr, indexNext, seqNum, sopen, tryTick, ctmoTick, stmoTick>>
  BY <1>1, Zenon DEF connVars, syncVars
<1>3. Machines' /\ Poller'
  BY <1>1, <1>2, MachinesStay, Zenon
<1>4. PICK m \in {"hugz", "updt"} : deliv' = Append(deliv, m)
  BY Zenon DEF Arrives
<1>5. deliv \in Seq({"hugz", "updt"}) /\ deliv' \in Seq({"hugz", "updt"}) /\ deliv' # <<>>
  BY <1>1, <1>4 DEF Network
<1>6. Operations'
  BY <1>1, <1>2, Zenon DEF Operations
<1>7. Network'
  BY <1>1, <1>2, <1>5, Zenon DEF Network, Machines
<1>8. \A i \in Items : Due(i) => Due(i)'
  BY <1>1, <1>2, <1>5, DueOf, DueOfNext, Zenon DEF Items, Always
<1>9. Batch'
  BY <1>1, <1>8, BatchStays, Zenon
<1> QED BY <1>3, <1>6, <1>7, <1>9, Zenon DEF SessionInv

LEMMA AnswersKeeps == SessionInv /\ Answers => SessionInv'
<1> SUFFICES ASSUME SessionInv, Answers PROVE SessionInv'
  OBVIOUS
<1>1. /\ Machines /\ Operations /\ Network /\ Poller /\ Batch /\ sopen # {} /\ stage # "none"
      /\ UNCHANGED <<connVars, syncVars, loopVars, sub, ops, deliv, batch, mode>>
  BY Zenon DEF SessionInv, Answers
<1>2. UNCHANGED <<cstate, csock, sstate, indexCurr, indexNext, seqNum, sopen, tryTick, ctmoTick, stmoTick>>
  BY <1>1, Zenon DEF connVars, syncVars
<1>3. Machines' /\ Poller'
  BY <1>1, <1>2, MachinesStay, Zenon
<1>4. PICK m \in Replies : snap' = Append(snap, m) /\ (m.type = "compl" => stage' = "none")
  <2>1. seqNum \in Nat
    BY <1>1, Zenon DEF Machines
  <2>2. \A k \in {"begin", "elem", "compl"} :
          [type |-> k, seqn |-> seqNum] \in Replies /\ [type |-> k, seqn |-> seqNum].type = k
    BY <2>1, Zenon DEF Replies
  <2> QED BY <2>2, Zenon DEF Answers
<1>5. /\ snap \in Seq(Replies) /\ snap' \in Seq(Replies) /\ snap' # <<>> /\ Len(snap) \in Nat
      /\ Len(snap') = Len(snap) + 1 /\ snap'[Len(snap) + 1] = m
      /\ \A i \in 1 .. Len(snap) : snap'[i] = snap[i]
  BY <1>1, <1>4 DEF Network
<1>6. sstate = "Download"
  BY <1>1, Zenon DEF Network
<1>7. Operations'
  BY <1>1, <1>2, Zenon DEF Operations
<1>8. \A i \in 1 .. Len(snap') : snap'[i].type = "compl" => i = Len(snap') /\ stage' = "none"
  BY <1>1, <1>4, <1>5 DEF Network
<1>9. Network'
  BY <1>1, <1>2, <1>5, <1>6, <1>8, Zenon DEF Network
<1>10. \A i \in Items : Due(i) => Due(i)'
  BY <1>1, <1>2, <1>5, DueOf, DueOfNext, Zenon DEF Items, Always
<1>11. Batch'
  BY <1>1, <1>10, BatchStays, Zenon
<1> QED BY <1>3, <1>7, <1>9, <1>11, Zenon DEF SessionInv

\* The item being served is due; an operation is there when its socket is.
LEMMA TurnOf ==
    ASSUME Batch, NEW i, Turn(i)
    PROVE  batch # <<>> /\ mode = "loop" /\ Head(batch) = i /\ Due(i)
<1>1. batch # <<>> /\ mode = "loop" /\ Head(batch) = i
  BY Zenon DEF Turn
<1>2. Head(batch) = batch[1] /\ 1 \in 1 .. Len(batch)
  BY <1>1, TailOf DEF Batch
<1>3. Due(batch[1])
  BY <1>2, Zenon DEF Batch
<1> QED BY <1>1, <1>2, <1>3, Zenon

\* What is left of the operations after the first, while the session is up.
LEMMA OperationServed ==
    ASSUME Operations, ops # <<>>, ops' = Tail(ops), sub' = sub,
           mode' # "loop" \/ cstate' # "Halted"
    PROVE  Operations'
<1>1. /\ ops \in Seq({"Start", "Sync", "Stop"}) /\ Len(ops) \in Nat /\ Len(ops) >= 1
      /\ ops' \in Seq({"Start", "Sync", "Stop"}) /\ Len(ops') = Len(ops) - 1
      /\ \A i \in 1 .. Len(ops) - 1 : ops'[i] = ops[i + 1]
  BY TailOf, Zenon DEF Operations
<1>2. \A i \in 1 .. Len(ops') : ops'[i] # "Start"
  <2> SUFFICES ASSUME NEW i \in 1 .. Len(ops'), ops'[i] = "Start" PROVE FALSE
    BY Zenon
  <2>1. i + 1 \in 1 .. Len(ops) /\ i + 1 # 1 /\ ops[i + 1] = "Start"
    BY <1>1
  <2> QED BY <2>1, Zenon DEF Operations
<1>3. sub' # "none"
  BY Zenon DEF Operations
<1> QED BY <1>1, <1>2, <1>3, Zenon DEF Operations

\* A step of conn_ that opens the sockets anew.
LEMMA ReopensDelivery ==
    ASSUME Machines, Poller, items' = ConnSockets(items), sopen' = sopen,
           Called("close") = TRUE, Called("open") = TRUE, csock' = TRUE
    PROVE  Poller'
<1>1. items' = Reopened(items, "delivery", TRUE, TRUE)
  BY Zenon DEF ConnSockets
<1>2. Polls(items, csock, sopen # {}) /\ csock \in BOOLEAN /\ (sopen # {}) \in BOOLEAN
  BY Zenon DEF Poller, Machines
<1>3. PICK c \in BOOLEAN, o \in BOOLEAN : c = csock /\ o = (sopen # {})
  BY <1>2, Zenon
<1>4. Polls(items, c, o)
  BY <1>2, <1>3, Zenon
<1>5. Polls(items', TRUE, o)
  BY <1>1, <1>4, ConnPolls, Zenon
<1>6. o = (sopen' # {})
  BY <1>3, Zenon
<1> QED BY <1>5, <1>6, Zenon DEF Poller

LEMMA StartKeeps == SessionInv /\ StartReady => SessionInv'
<1> SUFFICES ASSUME SessionInv, StartReady PROVE SessionInv'
  OBVIOUS
<1>1. Machines /\ Operations /\ Network /\ Poller /\ Batch
  BY Zenon DEF SessionInv
<1>2. /\ Turn("oper") /\ Conn!OnStart /\ ConnStep(<<"Started">>) /\ deliv' = ConnQueue(deliv)
      /\ ops' = Tail(ops) /\ batch' = Tail(batch) /\ sub' = sub /\ mode' = mode
  BY Zenon DEF StartReady
<1>3. batch # <<>> /\ mode = "loop" /\ Head(batch) = "oper" /\ ops # <<>>
  BY <1>1, <1>2, TurnOf, DueOf, Zenon
<1>4. cstate = "Halted" /\ Conn!Trigger /\ ctmoTick' = ctmoTick
  BY <1>2, Zenon DEF Conn!OnStart
<1>5. /\ cstate' = "Trying" /\ csock' = TRUE /\ tryTick' = tryTick
      /\ Called("close") = TRUE /\ Called("open") = TRUE /\ Called("change") = TRUE
  BY <1>4, TriggerCalls, Zenon
<1>6. /\ items' = ConnSockets(items) /\ SendEvents(<<"Started">> \o ConnEvents)
      /\ isOnline' = IF Called("change") THEN cstate' = "Stable" ELSE isOnline
      /\ UNCHANGED <<syncVars, isSnapshot, snap, stage>>
  BY <1>2, Zenon DEF ConnStep
<1>7. UNCHANGED <<sstate, indexCurr, indexNext, seqNum, sopen, stmoTick, isSnapshot, snap, stage>>
  BY <1>6, Zenon DEF syncVars
<1>8. isOnline = FALSE /\ isOnline' = FALSE /\ isSnapshot = FALSE /\ seen = Told(FALSE, FALSE, FALSE)
  <2>1. isOnline = FALSE /\ isOnline' = FALSE /\ isSnapshot = FALSE /\ (cstate # "Halted") = FALSE
    BY <1>1, <1>4, <1>5, <1>6, Zenon DEF Machines
  <2>2. seen = Told(cstate # "Halted", isOnline, isSnapshot)
    BY <1>1, Zenon DEF Machines
  <2> QED BY <2>1, <2>2, Zenon
<1>9. seen' = Told(TRUE, FALSE, FALSE)
  <2>1. ConnEvents = <<>>
    BY <1>5, <1>8, Zenon DEF ConnEvents
  <2>2. seen' = Observed(seen, <<"Started">> \o <<>>)
    BY <1>6, <2>1, Zenon DEF SendEvents
  <2>3. seen' = Observe(seen, "Started")
    BY <2>2, Nones, ObservedOne, Zenon
  <2> QED BY <1>8, <2>3, ToldNext, Zenon
<1>10. Machines'
  <2>1. (cstate' # "Halted") = TRUE /\ (cstate' = "Stable") = FALSE
    BY <1>5, Zenon
  <2>2. seen' = Told(cstate' # "Halted", isOnline', isSnapshot')
    BY <1>7, <1>8, <1>9, <2>1, Zenon
  <2> QED BY <1>1, <1>4, <1>5, <1>7, <1>8, <2>2, Zenon DEF Machines
<1>11. Operations'
  BY <1>1, <1>2, <1>3, <1>5, OperationServed, Zenon
<1>12. deliv' = <<>>
  BY <1>2, <1>5, Zenon DEF ConnQueue
<1>13. Network'
  BY <1>1, <1>5, <1>7, <1>12 DEF Network
<1>14. Poller'
  BY <1>1, <1>5, <1>6, <1>7, ReopensDelivery, Zenon
<1>15. \A i \in Items \ {Head(batch)} : Due(i) => Due(i)'
  BY <1>3, <1>4, <1>5, <1>7, DueOf, DueOfNext, Zenon DEF Items, Always
<1>16. Batch'
  BY <1>1, <1>2, <1>3, <1>15, BatchServed, Zenon
<1> QED BY <1>10, <1>11, <1>13, <1>14, <1>16, Zenon DEF SessionInv

LEMMA ConnTimeoutKeeps == SessionInv /\ ConnTimeoutReady => SessionInv'
<1> SUFFICES ASSUME SessionInv, ConnTimeoutReady PROVE SessionInv'
  OBVIOUS
<1>1. Machines /\ Operations /\ Network /\ Poller /\ Batch
  BY DEF SessionInv
<1>2. /\ Turn("connTimeout") /\ Conn!OnTimerTimeoutFired /\ ConnStep(<<>>) /\ deliv' = ConnQueue(deliv)
      /\ batch' = Tail(batch) /\ sub' = sub /\ ops' = ops /\ mode' = mode
  BY Zenon DEF ConnTimeoutReady
<1>3. batch # <<>> /\ mode = "loop" /\ Head(batch) = "connTimeout"
  BY <1>1, <1>2, TurnOf, Zenon
<1>4. /\ items' = ConnSockets(items) /\ SendEvents(<<>> \o ConnEvents)
      /\ isOnline' = IF Called("change") THEN cstate' = "Stable" ELSE isOnline
      /\ UNCHANGED <<syncVars, isSnapshot, snap, stage>>
  BY <1>2, Zenon DEF ConnStep
<1>5. UNCHANGED <<sstate, indexCurr, indexNext, seqNum, sopen, stmoTick, isSnapshot, snap, stage>>
  BY <1>4, Zenon DEF syncVars
<1>6. CASE cstate = "Halted"
  <2>1. ccalls' = <<>> /\ UNCHANGED <<cstate, csock, tryTick>>
    BY <1>2, <1>6, Zenon DEF Conn!OnTimerTimeoutFired
  <2>2. Called("close") = FALSE /\ Called("open") = FALSE /\ Called("change") = FALSE
    BY <2>1, FewCalls, Zenon
  <2>3. items' = items /\ deliv' = deliv /\ isOnline' = isOnline /\ ConnEvents = <<>>
    BY <1>2, <1>4, <2>2, Zenon DEF ConnSockets, Reopened, ConnQueue, ConnEvents
  <2>4. seen' = seen
    <3>1. seen' = Observed(seen, <<>> \o <<>>)
      BY <1>4, <2>3, Zenon DEF SendEvents
    <3> QED BY <3>1, Nones, ObservedNone, Zenon
  <2>5. Machines' /\ Poller'
    BY <1>1, <1>5, <2>1, <2>3, <2>4, MachinesStay, Zenon DEF loopVars
  <2>6. Operations' /\ Network'
    BY <1>1, <1>2, <1>5, <2>1, <2>3, Zenon DEF Operations, Network
  <2>7. \A i \in Items \ {Head(batch)} : Due(i) => Due(i)'
    BY <1>2, <1>3, <1>5, <2>1, <2>3, DueOf, DueOfNext, Zenon DEF Items, Always
  <2>8. Batch'
    BY <1>1, <1>2, <1>3, <2>7, BatchServed, Zenon
  <2> QED BY <2>5, <2>6, <2>8 DEF SessionInv
<1>7. CASE cstate # "Halted"
  <2>1. Conn!Trigger
    BY <1>2, <1>7, Zenon DEF Conn!OnTimerTimeoutFired
  <2>2. /\ cstate' = "Trying" /\ csock' = TRUE /\ tryTick' = tryTick
        /\ Called("close") = TRUE /\ Called("open") = TRUE /\ Called("change") = (cstate # "Trying")
    BY <2>1, TriggerCalls, Zenon
  <2>3. isOnline' = FALSE /\ isOnline \in BOOLEAN /\ isSnapshot \in BOOLEAN
    BY <1>1, <1>4, <2>2, Zenon DEF Machines
  <2>4. seen = Told(TRUE, isOnline, isSnapshot)
    <3>1. (cstate # "Halted") = TRUE
      BY <1>7, Zenon
    <3> QED BY <1>1, <3>1, Zenon DEF Machines
  <2>5. seen' = Told(TRUE, isOnline', isSnapshot)
    BY <1>4, <2>3, <2>4, ConnTold, Zenon
  <2>6. Machines'
    <3>1. (cstate' # "Halted") = TRUE /\ (cstate' = "Stable") = FALSE
      BY <2>2, Zenon
    <3>2. seen' = Told(cstate' # "Halted", isOnline', isSnapshot')
      BY <1>5, <2>5, <3>1, Zenon
    <3> QED BY <1>1, <1>5, <2>2, <2>3, <3>2, Zenon DEF Machines
  <2>7. deliv' = <<>>
    BY <1>2, <2>2, Zenon DEF ConnQueue
  <2>8. Operations' /\ Network'
    BY <1>1, <1>2, <1>5, <1>7, <2>2, <2>7 DEF Operations, Network
  <2>9. Poller'
    BY <1>1, <1>4, <1>5, <2>2, ReopensDelivery, Zenon
  <2>10. \A i \in Items \ {Head(batch)} : Due(i) => Due(i)'
    BY <1>2, <1>3, <1>5, <2>2, DueOf, DueOfNext DEF Items, Always
  <2>11. Batch'
    BY <1>1, <1>2, <1>3, <2>10, BatchServed
  <2> QED BY <2>6, <2>8, <2>9, <2>11, Zenon DEF SessionInv
<1> QED BY <1>6, <1>7, Zenon

LEMMA RetryKeeps == SessionInv /\ RetryReady => SessionInv'
<1> SUFFICES ASSUME SessionInv, RetryReady PROVE SessionInv'
  OBVIOUS
<1>1. Machines /\ Operations /\ Network /\ Poller /\ Batch
  BY DEF SessionInv
<1>2. /\ Turn("retry") /\ Conn!OnTimerRetryFired /\ ConnStep(<<>>) /\ deliv' = ConnQueue(deliv)
      /\ batch' = Tail(batch) /\ sub' = sub /\ ops' = ops /\ mode' = mode
  BY Zenon DEF RetryReady
<1>3. batch # <<>> /\ mode = "loop" /\ Head(batch) = "retry"
  BY <1>1, <1>2, TurnOf, Zenon
<1>4. (ccalls' = <<>> \/ ccalls' = <<"pong">>) /\ UNCHANGED <<cstate, csock, ctmoTick>>
  BY <1>2, Zenon DEF Conn!OnTimerRetryFired
<1>5. Called("close") = FALSE /\ Called("open") = FALSE /\ Called("change") = FALSE
  BY <1>4, FewCalls, Zenon
<1>6. /\ items' = ConnSockets(items) /\ SendEvents(<<>> \o ConnEvents)
      /\ isOnline' = IF Called("change") THEN cstate' = "Stable" ELSE isOnline
      /\ UNCHANGED <<syncVars, isSnapshot, snap, stage>>
  BY <1>2, Zenon DEF ConnStep
<1>7. UNCHANGED <<sstate, indexCurr, indexNext, seqNum, sopen, stmoTick, isSnapshot, snap, stage>>
  BY <1>6 DEF syncVars
<1>8. items' = items /\ deliv' = deliv /\ isOnline' = isOnline /\ ConnEvents = <<>>
  BY <1>2, <1>5, <1>6, Zenon DEF ConnSockets, Reopened, ConnQueue, ConnEvents
<1>9. seen' = seen
  <2>1. seen' = Observed(seen, <<>> \o <<>>)
    BY <1>6, <1>8, Zenon DEF SendEvents
  <2> QED BY <2>1, Nones, ObservedNone, Zenon
<1>10. Machines' /\ Poller'
  BY <1>1, <1>4, <1>7, <1>8, <1>9, MachinesStay, Zenon DEF loopVars
<1>11. Operations' /\ Network'
  BY <1>1, <1>2, <1>4, <1>7, <1>8, Zenon DEF Operations, Network
<1>12. \A i \in Items \ {Head(batch)} : Due(i) => Due(i)'
  BY <1>2, <1>3, <1>4, <1>7, <1>8, DueOf, DueOfNext, Zenon DEF Items, Always
<1>13. Batch'
  BY <1>1, <1>2, <1>3, <1>12, BatchServed, Zenon
<1> QED BY <1>10, <1>11, <1>13 DEF SessionInv

\* What is left of the messages of zdelivery_ after the first.
LEMMA MessageServed ==
    ASSUME Network, deliv # <<>>, deliv' = Tail(deliv), cstate' # "Halted",
           UNCHANGED <<snap, stage, sstate>>
    PROVE  Network'
<1>1. deliv' \in Seq({"hugz", "updt"})
  BY TailOf, Zenon DEF Network
<1> QED BY <1>1, Zenon DEF Network

LEMMA DeliveryKeeps == SessionInv /\ DeliveryReady => SessionInv'
<1> SUFFICES ASSUME SessionInv, DeliveryReady PROVE SessionInv'
  OBVIOUS
<1>1. Machines /\ Operations /\ Network /\ Poller /\ Batch
  BY DEF SessionInv
<1>2. /\ Turn("delivery") /\ deliv # <<>> /\ deliv' = Tail(deliv) /\ batch' = Tail(batch)
      /\ sub' = sub /\ ops' = ops /\ mode' = mode
  BY Zenon DEF DeliveryReady
<1>3. batch # <<>> /\ mode = "loop" /\ Head(batch) = "delivery" /\ cstate # "Halted"
  BY <1>1, <1>2, TurnOf, Zenon DEF Network
<1>4. isOnline \in BOOLEAN /\ isSnapshot \in BOOLEAN /\ seen = Told(TRUE, isOnline, isSnapshot)
  <2>1. (cstate # "Halted") = TRUE
    BY <1>3, Zenon
  <2>2. seen = Told(TRUE, isOnline, isSnapshot)
    BY <1>1, <2>1, Zenon DEF Machines
  <2> QED BY <1>1, <2>2, Zenon DEF Machines
<1>5. CASE Head(deliv) = "hugz"
  <2>1. Conn!OnPing /\ ConnStep(<<>>)
    BY <1>5, Zenon DEF DeliveryReady
  <2>2. /\ cstate' = "Stable" /\ csock' = csock /\ tryTick' = tryTick /\ ctmoTick' = ctmoTick
        /\ Called("close") = FALSE /\ Called("open") = FALSE /\ Called("change") = (cstate # "Stable")
    BY <2>1, PingCalls, Zenon
  <2>3. /\ items' = ConnSockets(items) /\ SendEvents(<<>> \o ConnEvents)
        /\ isOnline' = IF Called("change") THEN cstate' = "Stable" ELSE isOnline
        /\ UNCHANGED <<syncVars, isSnapshot, snap, stage>>
    BY <2>1, Zenon DEF ConnStep
  <2>4. UNCHANGED <<sstate, indexCurr, indexNext, seqNum, sopen, stmoTick, isSnapshot, snap, stage>>
    BY <2>3 DEF syncVars
  <2>5. items' = items /\ isOnline' = TRUE
    BY <1>1, <2>2, <2>3, Zenon DEF ConnSockets, Reopened, Machines
  <2>6. seen' = Told(TRUE, isOnline', isSnapshot)
    BY <1>4, <2>3, ConnTold, Zenon
  <2>7. Machines'
    <3>1. (cstate' # "Halted") = TRUE /\ (cstate' = "Stable") = TRUE
      BY <2>2, Zenon
    <3>2. seen' = Told(cstate' # "Halted", isOnline', isSnapshot')
      BY <2>4, <2>6, <3>1, Zenon
    <3> QED BY <1>1, <1>3, <2>2, <2>4, <2>5, <3>2, Zenon DEF Machines
  <2>8. Operations'
    BY <1>1, <1>2, <1>3, <2>2, Zenon DEF Operations
  <2>9. Network'
    BY <1>1, <1>2, <2>2, <2>4, MessageServed, Zenon
  <2>10. Poller'
    BY <1>1, <2>2, <2>4, <2>5, Zenon DEF Poller
  <2>11. \A i \in Items \ {Head(batch)} : Due(i) => Due(i)'
    BY <1>2, <1>3, <2>2, <2>4, DueOf, DueOfNext, Zenon DEF Items, Always
  <2>12. Batch'
    BY <1>1, <1>2, <1>3, <2>11, BatchServed, Zenon
  <2> QED BY <2>7, <2>8, <2>9, <2>10, <2>12 DEF SessionInv
<1>6. CASE Head(deliv) # "hugz"
  <2>1. /\ \E es \in {<<>>, <<"Delivery">>} : SendEvents(es)
        /\ UNCHANGED <<connVars, syncVars, items, isOnline, isSnapshot, snap, stage>>
    BY <1>6, Zenon DEF DeliveryReady
  <2>2. UNCHANGED <<cstate, csock, sstate, indexCurr, indexNext, seqNum, sopen, tryTick, ctmoTick, stmoTick>>
    BY <2>1, Zenon DEF connVars, syncVars
  <2>3. seen' = seen
    <3>1. CASE SendEvents(<<>>)
      BY <3>1, ObservedNone, Zenon DEF SendEvents
    <3>2. CASE SendEvents(<<"Delivery">>)
      <4>1. seen' = Observe(seen, "Delivery")
        BY <3>2, ObservedOne, Zenon DEF SendEvents
      <4> QED BY <1>4, <4>1, ToldNext, Zenon
    <3> QED BY <2>1, <3>1, <3>2, Zenon
  <2>4. Machines' /\ Poller'
    BY <1>1, <2>1, <2>2, <2>3, MachinesStay, Zenon DEF loopVars
  <2>5. Operations'
    BY <1>1, <1>2, <2>2, Zenon DEF Operations
  <2>6. Network'
    BY <1>1, <1>2, <1>3, <2>1, <2>2, MessageServed, Zenon
  <2>7. \A i \in Items \ {Head(batch)} : Due(i) => Due(i)'
    BY <1>2, <1>3, <2>1, <2>2, DueOf, DueOfNext DEF Items, Always
  <2>8. Batch'
    BY <1>1, <1>2, <1>3, <2>7, BatchServed
  <2> QED BY <2>4, <2>5, <2>6, <2>8, Zenon DEF SessionInv
<1> QED BY <1>5, <1>6, Zenon

\* A step of sync_ and the poller.
LEMMA SyncPoller ==
    ASSUME NEW list, NEW c \in BOOLEAN, Polls(list, c, sopen # {}),
           sopen # {} /\ sclosed' = {} => sopen' # {}
    PROVE  Polls(SyncSockets(list), c, sopen' # {})
<1>1. PICK o \in BOOLEAN, p \in BOOLEAN, close \in BOOLEAN, opened \in BOOLEAN :
        /\ o = (sopen # {}) /\ p = (sopen' # {})
        /\ close = (sclosed' # {}) /\ opened = (sopen' # {} /\ (sopen = {} \/ sclosed' # {}))
  BY Zenon
<1>2. Polls(list, c, o) /\ SyncSockets(list) = Reopened(list, "snapshot", close, opened)
  BY <1>1, Zenon DEF SyncSockets
<1>3. (opened /\ o => close) /\ p = (opened \/ (o /\ ~close))
  BY <1>1, Zenon
<1>4. Polls(Reopened(list, "snapshot", close, opened), c, p)
  <2>1. Polls(Reopened(list, "snapshot", close, opened), c, opened \/ (o /\ ~close))
    BY <1>2, <1>3, SyncPolls
  <2> QED BY <1>3, <2>1, Zenon
<1> QED BY <1>1, <1>2, <1>4, Zenon

\* What the session knows while it is up.
LEMMA UpTold ==
    ASSUME Machines, cstate # "Halted"
    PROVE  isOnline \in BOOLEAN /\ isSnapshot \in BOOLEAN /\ seen = Told(TRUE, isOnline, isSnapshot)
<1>1. (cstate # "Halted") = TRUE
  BY Zenon
<1>2. seen = Told(TRUE, isOnline, isSnapshot)
  BY <1>1, Zenon DEF Machines
<1> QED BY <1>2, Zenon DEF Machines

\* A step of sync_, with the events es, keeps the machines and the poller.
LEMMA SyncKeeps ==
    ASSUME Machines, Poller, cstate # "Halted", items' = SyncSockets(items), isSnapshot' = Downloading,
           UNCHANGED <<connVars, isOnline>>,
           sstate' \in {"Download", "Failed", "Synced"} \/ sstate' = sstate,
           indexCurr' = 0, indexNext' = 0, seqNum' \in Nat,
           sopen' = IF sstate' \in {"Download", "Synced"} THEN {0} ELSE {},
           sopen # {} /\ sclosed' = {} => sopen' # {},
           NEW l \in BOOLEAN, l = (sstate' = "Download"), seen' = Told(TRUE, isOnline, l)
    PROVE  Machines' /\ Poller'
<1>1. UNCHANGED <<cstate, csock>>
  BY Zenon DEF connVars
<1>2. isSnapshot' = l
  BY Zenon DEF Downloading
<1>3. (cstate' # "Halted") = TRUE
  BY <1>1, Zenon
<1>4. seen' = Told(cstate' # "Halted", isOnline', isSnapshot')
  BY <1>2, <1>3, Zenon
<1>5. Machines'
  BY <1>1, <1>2, <1>4, Zenon DEF Machines
<1>6. csock \in BOOLEAN /\ Polls(items, csock, sopen # {})
  BY Zenon DEF Machines, Poller
<1>7. Polls(items', csock, sopen' # {})
  BY <1>6, SyncPoller, Zenon
<1> QED BY <1>1, <1>5, <1>7, Zenon DEF Poller

LEMMA SyncReadyKeeps == SessionInv /\ SyncReady => SessionInv'
<1> SUFFICES ASSUME SessionInv, SyncReady PROVE SessionInv'
  OBVIOUS
<1>1. Machines /\ Operations /\ Network /\ Poller /\ Batch
  BY DEF SessionInv
<1>2. /\ Turn("oper") /\ Head(ops) = "Sync" /\ ops' = Tail(ops) /\ batch' = Tail(batch)
      /\ sub' = sub /\ mode' = mode
  BY Zenon DEF SyncReady
<1>3. batch # <<>> /\ mode = "loop" /\ Head(batch) = "oper" /\ ops # <<>>
  BY <1>1, <1>2, TurnOf, DueOf, Zenon
<1>4. cstate # "Halted"
  <2>1. ops[1] # "Start" /\ sub # "none"
    BY <1>1, <1>2, <1>3, TailOf, Zenon DEF Operations
  <2> QED BY <1>1, <1>3, <2>1, Zenon DEF Operations
<1>5. CASE sstate = "Download"
  <2>1. UNCHANGED <<connVars, syncVars, loopVars, deliv, snap, stage>>
    BY <1>5, Zenon DEF SyncReady
  <2>2. UNCHANGED <<cstate, csock, sstate, indexCurr, indexNext, seqNum, sopen, tryTick, ctmoTick, stmoTick>>
    BY <2>1, Zenon DEF connVars, syncVars
  <2>3. Machines' /\ Poller'
    BY <1>1, <2>1, <2>2, MachinesStay, Zenon
  <2>4. Operations'
    BY <1>1, <1>2, <1>3, <1>4, <2>2, OperationServed, Zenon
  <2>5. Network'
    BY <1>1, <2>1, <2>2, Zenon DEF Network
  <2>6. \A i \in Items \ {Head(batch)} : Due(i) => Due(i)'
    BY <1>3, <2>1, <2>2, DueOf, DueOfNext, Zenon DEF Items, Always
  <2>7. Batch'
    BY <1>1, <1>2, <1>3, <2>6, BatchServed, Zenon
  <2> QED BY <2>3, <2>4, <2>5, <2>7 DEF SessionInv
<1>6. CASE sstate # "Download"
  <2>1. Sync!OnSync /\ SyncStep(<<>>) /\ snap' = SyncQueue(snap)
    BY <1>6, Zenon DEF SyncReady
  <2>2. /\ sstate' = "Download" /\ sclosed' = {} /\ asked' = TRUE /\ stmoTick' = stmoTick
        /\ indexCurr' = 0 /\ indexNext' = 0 /\ sopen' = {0} /\ seqNum' \in Nat
    BY <1>1, <1>6, <2>1 DEF Machines, Sync!OnSync, Sync!Sync, Sync!After, Sync!NextSeq
  <2>3. /\ items' = SyncSockets(items) /\ isSnapshot' = Downloading /\ stage' = "begin"
        /\ SendEvents(<<>> \o SyncEvents) /\ UNCHANGED <<connVars, isOnline, deliv>>
    BY <2>1, <2>2, Zenon DEF SyncStep
  <2>4. snap = <<>> /\ snap' = <<>> /\ deliv' = deliv
    BY <1>1, <1>6, <2>1, <2>2, <2>3, Zenon DEF SyncQueue, Network
  <2>5. seen' = Told(TRUE, isOnline, TRUE)
    <3>1. isSnapshot = FALSE
      BY <1>1, <1>6, Zenon DEF Machines
    <3>2. isOnline \in BOOLEAN /\ seen = Told(TRUE, isOnline, FALSE)
      BY <1>1, <1>4, <3>1, UpTold, Zenon
    <3> QED BY <1>6, <2>2, <2>3, <3>1, <3>2, SyncTold, Zenon
  <2>6. Machines' /\ Poller'
    BY <1>1, <1>4, <2>2, <2>3, <2>5, SyncKeeps, Zenon
  <2>7. UNCHANGED <<cstate, csock, tryTick, ctmoTick>>
    BY <2>3, Zenon DEF connVars
  <2>8. Operations'
    BY <1>1, <1>2, <1>3, <1>4, <2>7, OperationServed, Zenon
  <2>9. Network'
    BY <1>1, <2>2, <2>4, <2>7 DEF Network
  <2>10. \A i \in Items \ {Head(batch)} : Due(i) => Due(i)'
    BY <1>3, <2>2, <2>4, <2>7, DueOf, DueOfNext DEF Items, Always
  <2>11. Batch'
    BY <1>1, <1>2, <1>3, <2>10, BatchServed
  <2> QED BY <2>6, <2>8, <2>9, <2>11 DEF SessionInv
<1> QED BY <1>5, <1>6, Zenon

LEMMA SyncTimeoutKeeps == SessionInv /\ SyncTimeoutReady => SessionInv'
<1> SUFFICES ASSUME SessionInv, SyncTimeoutReady PROVE SessionInv'
  OBVIOUS
<1>1. Machines /\ Operations /\ Network /\ Poller /\ Batch
  BY DEF SessionInv
<1>2. /\ Turn("syncTimeout") /\ Sync!OnTimerTimeoutFired /\ SyncStep(<<>>) /\ snap' = SyncQueue(snap)
      /\ batch' = Tail(batch) /\ sub' = sub /\ ops' = ops /\ mode' = mode
  BY Zenon DEF SyncTimeoutReady
<1>3. batch # <<>> /\ mode = "loop" /\ Head(batch) = "syncTimeout"
  BY <1>1, <1>2, TurnOf, Zenon
<1>4. /\ items' = SyncSockets(items) /\ isSnapshot' = Downloading
      /\ stage' = IF asked' THEN "begin" ELSE IF sclosed' # {} THEN "none" ELSE stage
      /\ SendEvents(<<>> \o SyncEvents) /\ UNCHANGED <<connVars, isOnline, deliv>>
  BY <1>2, Zenon DEF SyncStep
<1>5. UNCHANGED <<cstate, csock, tryTick, ctmoTick, deliv>>
  BY <1>4, Zenon DEF connVars
<1>6. Operations'
  BY <1>1, <1>2, <1>5, Zenon DEF Operations
<1>7. CASE sstate # "Download"
  <2>1. sclosed' = {} /\ asked' = FALSE /\ UNCHANGED <<sstate, indexCurr, indexNext, seqNum, sopen>>
    BY <1>2, <1>7, Zenon DEF Sync!OnTimerTimeoutFired
  <2>2. snap' = snap /\ stage' = stage
    BY <1>2, <1>4, <2>1, Zenon DEF SyncQueue
  <2>3. items' = items
    BY <1>4, <2>1, Zenon DEF SyncSockets, Reopened
  <2>4. isSnapshot' = isSnapshot
    BY <1>1, <1>4, <1>7, <2>1, Zenon DEF Machines, Downloading
  <2>5. seen' = seen
    BY <1>4, <2>1, SyncTold, Zenon
  <2>6. Machines' /\ Poller'
    BY <1>1, <1>4, <1>5, <2>1, <2>3, <2>4, <2>5, MachinesStay, Zenon DEF loopVars
  <2>7. Network'
    BY <1>1, <1>5, <2>1, <2>2, Zenon DEF Network
  <2>8. \A i \in Items \ {Head(batch)} : Due(i) => Due(i)'
    BY <1>2, <1>3, <1>5, <2>1, <2>2, DueOf, DueOfNext, Zenon DEF Items, Always
  <2>9. Batch'
    BY <1>1, <1>2, <1>3, <2>8, BatchServed, Zenon
  <2> QED BY <1>6, <2>6, <2>7, <2>9, Zenon DEF SessionInv
<1>8. CASE sstate = "Download"
  <2>1. /\ sclosed' = {0} /\ indexCurr' = 0 /\ indexNext' = 0 /\ seqNum' \in Nat
        /\ \/ sstate' = "Failed" /\ asked' = FALSE /\ sopen' = {}
           \/ sstate' = "Download" /\ asked' = TRUE /\ sopen' = {0}
    BY <1>1, <1>2, <1>8 DEF Machines, Sync!OnTimerTimeoutFired, Sync!Fail, Sync!Retry, Sync!Sync,
                            Sync!After, Sync!NextSeq
  <2>2. snap' = <<>>
    BY <1>2, <2>1, Zenon DEF SyncQueue
  <2>3. cstate # "Halted" /\ isSnapshot = TRUE
    BY <1>1, <1>8, Zenon DEF Machines
  <2>4. isOnline \in BOOLEAN /\ seen = Told(TRUE, isOnline, TRUE)
    BY <1>1, <2>3, UpTold, Zenon
  <2>5. CASE sstate' = "Failed"
    <3>1. asked' = FALSE /\ sopen' = {} /\ stage' = "none"
      BY <1>4, <2>1, <2>5, Zenon
    <3>2. seen' = Told(TRUE, isOnline, FALSE)
      BY <1>4, <1>8, <2>3, <2>4, <2>5, <3>1, SyncTold, Zenon
    <3>3. Machines' /\ Poller'
      BY <1>1, <1>4, <2>1, <2>3, <2>5, <3>1, <3>2, SyncKeeps, Zenon
    <3>4. Network'
      BY <1>1, <1>5, <2>2, <3>1 DEF Network
    <3>5. \A i \in Items \ {Head(batch)} : Due(i) => Due(i)'
      BY <1>2, <1>3, <1>5, <2>5, DueOf, DueOfNext DEF Items, Always
    <3>6. Batch'
      BY <1>1, <1>2, <1>3, <3>5, BatchServed
    <3> QED BY <1>6, <3>3, <3>4, <3>6 DEF SessionInv
  <2>6. CASE sstate' = "Download"
    <3>1. asked' = TRUE /\ sopen' = {0}
      BY <2>1, <2>6, Zenon
    <3>2. seen' = Told(TRUE, isOnline, TRUE)
      BY <1>4, <1>8, <2>4, <2>6, <3>1, SyncTold, Zenon
    <3>3. Machines' /\ Poller'
      BY <1>1, <1>4, <2>1, <2>3, <2>6, <3>1, <3>2, SyncKeeps, Zenon
    <3>4. Network'
      BY <1>1, <1>5, <2>2, <2>6 DEF Network
    <3>5. \A i \in Items \ {Head(batch)} : Due(i) => Due(i)'
      BY <1>2, <1>3, <1>5, <2>6, DueOf, DueOfNext DEF Items, Always
    <3>6. Batch'
      BY <1>1, <1>2, <1>3, <3>5, BatchServed
    <3> QED BY <1>6, <3>3, <3>4, <3>6 DEF SessionInv
  <2> QED BY <2>1, <2>5, <2>6, Zenon
<1> QED BY <1>7, <1>8, Zenon

LEMMA StopKeeps == SessionInv /\ StopReady => SessionInv'
<1> SUFFICES ASSUME SessionInv, StopReady PROVE SessionInv'
  OBVIOUS
<1>1. Machines /\ Operations /\ Network /\ Poller /\ Batch
  BY DEF SessionInv
<1>2. /\ Turn("oper") /\ Conn!OnStop
      /\ IF sstate = "Halted" THEN UNCHANGED syncVars ELSE Sync!OnHalt
      /\ items' = IF sstate = "Halted" THEN ConnSockets(items) ELSE SyncSockets(ConnSockets(items))
      /\ isOnline' = FALSE /\ isSnapshot' = FALSE
      /\ SendEvents(ConnEvents \o (IF sstate = "Halted" THEN <<>> ELSE SyncEvents) \o <<"Stopped">>)
      /\ deliv' = <<>> /\ snap' = <<>> /\ stage' = "none"
      /\ ops' = Tail(ops) /\ batch' = <<>> /\ mode' = "ended" /\ sub' = sub
  BY Zenon DEF StopReady
<1>3. ops # <<>>
  BY <1>1, <1>2, TurnOf, DueOf, Zenon
<1>4. cstate # "Halted" /\ Conn!Halt
  BY <1>2, Zenon DEF Conn!OnStop
<1>5. /\ cstate' = "Halted" /\ csock' = FALSE
      /\ Called("close") = TRUE /\ Called("open") = FALSE /\ Called("change") = TRUE
  BY <1>4, HaltCalls, Zenon
<1>6. isOnline \in BOOLEAN /\ isSnapshot \in BOOLEAN /\ seen = Told(TRUE, isOnline, isSnapshot)
  BY <1>1, <1>4, UpTold, Zenon
<1>7. /\ sstate' = "Halted" /\ indexCurr' = 0 /\ indexNext' = 0 /\ seqNum' \in Nat /\ sopen' = {}
      /\ sstate # "Halted" => asked' = FALSE /\ (sopen # {} => sclosed' # {})
  <2>1. CASE sstate = "Halted"
    BY <1>1, <1>2, <2>1, Zenon DEF Machines, syncVars
  <2>2. CASE sstate # "Halted"
    BY <1>1, <1>2, <2>2 DEF Machines, Sync!OnHalt, Sync!HaltWith, Sync!After
  <2> QED BY <2>1, <2>2, Zenon
<1>8. seen' = Told(FALSE, FALSE, FALSE)
  <2>1. PICK es : es = IF sstate = "Halted" THEN <<>> ELSE SyncEvents
    BY Zenon
  <2>2. es = IF isSnapshot THEN <<"SyncError", "SyncDownloadOff">> ELSE <<>>
    <3>1. CASE sstate = "Halted"
      <4>1. isSnapshot = FALSE
        BY <1>1, <3>1, Zenon DEF Machines
      <4> QED BY <2>1, <3>1, <4>1, Zenon
    <3>2. CASE sstate = "Download"
      <4>1. isSnapshot = TRUE
        BY <1>1, <3>2, Zenon DEF Machines
      <4>2. asked' = FALSE /\ sstate' \in {"Failed", "Halted"}
        BY <1>7, <3>2, Zenon
      <4>3. SyncEvents = <<"SyncError", "SyncDownloadOff">>
        BY <3>2, <4>1, <4>2, SyncLists, Zenon
      <4> QED BY <2>1, <3>2, <4>1, <4>3, Zenon
    <3>3. CASE sstate \in {"Synced", "Failed"}
      <4>1. isSnapshot = FALSE
        BY <1>1, <3>3, Zenon DEF Machines
      <4>2. asked' = FALSE /\ sstate # "Halted"
        BY <1>7, <3>3, Zenon
      <4>3. SyncEvents = <<>>
        BY <1>7, <3>3, <4>1, <4>2, SyncLists, Zenon
      <4> QED BY <2>1, <4>1, <4>2, <4>3, Zenon
    <3> QED BY <1>1, <3>1, <3>2, <3>3, Zenon DEF Machines
  <2>3. SendEvents(ConnEvents \o es \o <<"Stopped">>)
    BY <1>2, <2>1, Zenon
  <2> QED BY <1>5, <1>6, <2>2, <2>3, StopTold, Zenon
<1>9. Machines'
  <2>1. (cstate' # "Halted") = FALSE
    BY <1>5, Zenon
  <2>2. seen' = Told(cstate' # "Halted", isOnline', isSnapshot')
    BY <1>2, <1>8, <2>1, Zenon
  <2> QED BY <1>2, <1>5, <1>7, <2>2, Zenon DEF Machines
<1>10. Operations'
  BY <1>1, <1>2, <1>3, OperationServed, Zenon
<1>11. Network'
  BY <1>2 DEF Network
<1>12. Poller'
  <2>1. PICK c \in BOOLEAN, o \in BOOLEAN : c = csock /\ o = (sopen # {})
    BY <1>1, Zenon DEF Machines
  <2>2. Polls(items, c, o) /\ ConnSockets(items) = Reopened(items, "delivery", TRUE, FALSE)
    BY <1>1, <1>5, <2>1, Zenon DEF Poller, ConnSockets
  <2>3. Polls(ConnSockets(items), FALSE, o)
    BY <2>2, ConnPolls, Zenon
  <2>4. Polls(ConnSockets(items), FALSE, sopen # {})
    BY <2>1, <2>3, Zenon
  <2>5. CASE sstate = "Halted"
    <3>1. items' = ConnSockets(items) /\ (sopen' # {}) = (sopen # {})
      BY <1>1, <1>2, <1>7, <2>5, Zenon DEF Machines
    <3> QED BY <1>5, <2>4, <3>1, Zenon DEF Poller
  <2>6. CASE sstate # "Halted"
    <3>1. items' = SyncSockets(ConnSockets(items)) /\ (sopen # {} => sclosed' # {})
      BY <1>2, <1>7, <2>6, Zenon
    <3>2. Polls(items', FALSE, sopen' # {})
      BY <2>4, <3>1, SyncPoller, Zenon
    <3> QED BY <1>5, <3>2, Zenon DEF Poller
  <2> QED BY <2>5, <2>6, Zenon
<1>13. Batch'
  BY <1>2 DEF Batch
<1> QED BY <1>9, <1>10, <1>11, <1>12, <1>13 DEF SessionInv

LEMMA SnapshotKeeps == SessionInv /\ SnapshotReady => SessionInv'
<1> SUFFICES ASSUME SessionInv, SnapshotReady PROVE SessionInv'
  OBVIOUS
<1>1. Machines /\ Operations /\ Network /\ Poller /\ Batch
  BY DEF SessionInv
<1>2. /\ Turn("snapshot") /\ snap # <<>> /\ snap' = Tail(snap) /\ batch' = Tail(batch)
      /\ sub' = sub /\ ops' = ops /\ mode' = mode
  BY Zenon DEF SnapshotReady
<1>3. batch # <<>> /\ mode = "loop" /\ Head(batch) = "snapshot"
  BY <1>1, <1>2, TurnOf, Zenon
<1>4. sstate = "Download" /\ cstate # "Halted" /\ isSnapshot = TRUE
  BY <1>1, <1>2, Zenon DEF Network, Machines
<1>5. isOnline \in BOOLEAN /\ seen = Told(TRUE, isOnline, TRUE)
  BY <1>1, <1>4, UpTold, Zenon
<1>6. /\ snap \in Seq(Replies) /\ Len(snap) \in Nat /\ Len(snap) >= 1 /\ Head(snap) = snap[1]
      /\ snap[1] \in Replies /\ snap' \in Seq(Replies) /\ Len(snap') = Len(snap) - 1
      /\ \A i \in 1 .. Len(snap) - 1 : snap'[i] = snap[i + 1]
  BY <1>1, <1>2, TailOf, Zenon DEF Network
<1>7. \A i \in 1 .. Len(snap') : snap'[i].type = "compl" => i = Len(snap') /\ stage = "none"
  <2> SUFFICES ASSUME NEW i \in 1 .. Len(snap'), snap'[i].type = "compl"
               PROVE  i = Len(snap') /\ stage = "none"
    BY Zenon
  <2>1. i + 1 \in 1 .. Len(snap) /\ snap[i + 1].type = "compl"
    BY <1>6
  <2>2. i + 1 = Len(snap) /\ stage = "none"
    BY <1>1, <2>1, Zenon DEF Network
  <2> QED BY <1>6, <2>2
<1>8. CASE Head(snap).type = "begin"
  <2>1. /\ SendEvents(<<"SyncBegin">>)
        /\ UNCHANGED <<connVars, syncVars, items, isOnline, isSnapshot, deliv, stage>>
    BY <1>8, Zenon DEF SnapshotReady
  <2>2. UNCHANGED <<cstate, csock, sstate, indexCurr, indexNext, seqNum, sopen, tryTick, ctmoTick, stmoTick>>
    BY <2>1, Zenon DEF connVars, syncVars
  <2>3. seen' = seen
    <3>1. seen' = Observe(seen, "SyncBegin")
      BY <2>1, ObservedOne, Zenon DEF SendEvents
    <3> QED BY <1>5, <3>1, ToldNext, Zenon
  <2>4. Machines' /\ Poller'
    BY <1>1, <2>1, <2>2, <2>3, MachinesStay, Zenon DEF loopVars
  <2>5. Operations'
    BY <1>1, <1>2, <2>2, Zenon DEF Operations
  <2>6. Network'
    BY <1>1, <1>4, <1>6, <1>7, <2>1, <2>2, Zenon DEF Network
  <2>7. \A i \in Items \ {Head(batch)} : Due(i) => Due(i)'
    BY <1>2, <1>3, <2>1, <2>2, DueOf, DueOfNext, Zenon DEF Items, Always
  <2>8. Batch'
    BY <1>1, <1>2, <1>3, <2>7, BatchServed
  <2> QED BY <2>4, <2>5, <2>6, <2>8 DEF SessionInv
<1>9. CASE Head(snap).type # "begin"
  <2>1. PICK m : m = Head(snap) /\ m.type \in {"elem", "compl"}
    BY <1>6, <1>9, Zenon DEF Replies
  <2>2. /\ Sync!OnReply(0, m.seqn, IF m.type = "elem" THEN "Snapshot" ELSE "Complete")
        /\ SyncStep(IF m.type = "elem" THEN <<"SyncElement">> ELSE <<>>)
    BY <1>9, <2>1, Zenon DEF SnapshotReady
  <2>3. /\ sclosed' = {} /\ asked' = FALSE /\ stmoTick' = stmoTick
        /\ UNCHANGED <<indexCurr, indexNext, seqNum, sopen>>
        /\ sstate' = sstate \/ (sstate' = "Synced" /\ m.type = "compl")
    BY <2>1, <2>2, Zenon DEF Sync!OnReply, Sync!Tmo!TStop, Sync!Tmo!TStart
  <2>4. /\ items' = SyncSockets(items) /\ isSnapshot' = Downloading /\ stage' = stage
        /\ SendEvents((IF m.type = "elem" THEN <<"SyncElement">> ELSE <<>>) \o SyncEvents)
        /\ UNCHANGED <<connVars, isOnline, deliv>>
    BY <2>2, <2>3, Zenon DEF SyncStep
  <2>5. UNCHANGED <<cstate, csock, tryTick, ctmoTick, deliv>>
    BY <2>4, Zenon DEF connVars
  <2>6. seen' = Told(TRUE, isOnline, sstate' = "Download")
    <3>1. CASE m.type = "elem"
      <4>1. SyncEvents = <<>> /\ (sstate' = "Download") = TRUE
        BY <1>4, <2>3, <3>1, SyncLists, Zenon
      <4>2. seen' = Observed(seen, <<"SyncElement">> \o <<>>)
        BY <2>4, <3>1, <4>1, Zenon DEF SendEvents
      <4>3. seen' = Observe(seen, "SyncElement")
        BY <4>2, Nones, ObservedOne, Zenon
      <4>4. seen' = Told(TRUE, isOnline, TRUE)
        BY <1>5, <4>3, ToldNext, Zenon
      <4> QED BY <4>1, <4>4, Zenon
    <3>2. CASE m.type = "compl"
      <4>1. SendEvents(<<>> \o SyncEvents)
        BY <2>4, <3>2, Zenon
      <4>2. CASE sstate' = sstate
        <5>1. (sstate' = "Download") = TRUE
          BY <1>4, <4>2, Zenon
        <5>2. seen' = seen
          BY <2>3, <4>1, <4>2, SyncTold, Zenon
        <5> QED BY <1>5, <5>1, <5>2, Zenon
      <4>3. CASE sstate' = "Synced"
        <5>1. (sstate' = "Download") = FALSE
          BY <4>3, Zenon
        <5>2. seen' = Told(TRUE, isOnline, FALSE)
          BY <1>4, <1>5, <2>3, <4>1, <4>3, SyncTold, Zenon
        <5> QED BY <5>1, <5>2, Zenon
      <4> QED BY <2>3, <4>2, <4>3, Zenon
    <3> QED BY <2>1, <3>1, <3>2, Zenon
  <2>7. indexCurr' = 0 /\ indexNext' = 0 /\ seqNum' \in Nat /\ sopen' = {0}
        /\ sstate' \in {"Download", "Synced"}
    BY <1>1, <1>4, <2>3, Zenon DEF Machines
  <2>8. Machines' /\ Poller'
    <3>1. PICK l \in BOOLEAN : l = (sstate' = "Download")
      BY Zenon
    <3>2. seen' = Told(TRUE, isOnline, l)
      BY <2>6, <3>1, Zenon
    <3> QED BY <1>1, <1>4, <2>3, <2>4, <2>7, <3>1, <3>2, SyncKeeps, Zenon
  <2>9. Operations'
    BY <1>1, <1>2, <2>5, Zenon DEF Operations
  <2>10. sstate' # "Download" => snap' = <<>> /\ stage' = "none"
    <3> SUFFICES ASSUME sstate' # "Download" PROVE snap' = <<>> /\ stage' = "none"
      BY Zenon
    <3>1. snap[1].type = "compl" /\ 1 \in 1 .. Len(snap)
      BY <1>4, <1>6, <2>1, <2>3
    <3>2. Len(snap) = 1 /\ stage = "none"
      BY <1>1, <3>1, Zenon DEF Network
    <3> QED BY <1>6, <2>4, <3>2
  <2>11. Network'
    BY <1>1, <1>6, <1>7, <2>4, <2>5, <2>10, Zenon DEF Network
  <2>12. \A i \in Items \ {Head(batch)} : Due(i) => Due(i)'
    BY <1>2, <1>3, <2>3, <2>5, DueOf, DueOfNext DEF Items, Always
  <2>13. Batch'
    BY <1>1, <1>2, <1>3, <2>12, BatchServed
  <2> QED BY <2>8, <2>9, <2>11, <2>13 DEF SessionInv
<1> QED BY <1>8, <1>9, Zenon

-----------------------------------------------------------------------------
(* The invariant, and what follows.                                        *)

LEMMA SessionInit == WInit => SessionInv
<1> SUFFICES ASSUME WInit PROVE SessionInv
  BY Zenon
<1>1. /\ cstate = "Halted" /\ csock = FALSE /\ sstate = "Halted" /\ indexCurr = 0 /\ indexNext = 0
      /\ seqNum = 0 /\ sopen = {} /\ isOnline = FALSE /\ isSnapshot = FALSE /\ seen = Quiet
      /\ items = <<"oper", "retry", "connTimeout", "syncTimeout">>
      /\ sub = "none" /\ ops = <<>> /\ deliv = <<>> /\ snap = <<>> /\ stage = "none"
      /\ batch = <<>> /\ mode = "loop"
  BY Zenon DEF WInit, Conn!Init, Sync!Init, Sync!After
<1>2. Machines
  <2>1. seen = Told(cstate # "Halted", isOnline, isSnapshot)
    BY <1>1, Zenon DEF Told, Quiet
  <2> QED BY <1>1, <2>1, Zenon DEF Machines
<1>3. Operations /\ Network /\ Batch
  BY <1>1 DEF Operations, Network, Batch
<1>4. Poller
  <2>1. Len(items) = 4 /\ DOMAIN items = {1, 2, 3, 4} /\ items \in Seq(Items)
    BY <1>1 DEF Items, Always
  <2>2. items[1] = "oper" /\ items[2] = "retry" /\ items[3] = "connTimeout" /\ items[4] = "syncTimeout"
    BY <1>1, Zenon
  <2>3. IsInjective(items)
    BY <2>1, <2>2 DEF IsInjective
  <2>4. Range(items) = Polled(csock, sopen # {})
    BY <1>1, <2>1, <2>2 DEF Range, Polled, Always
  <2>5. Count(csock, sopen # {}) = 4
    BY <1>1 DEF Count
  <2> QED BY <2>1, <2>3, <2>4, <2>5, Zenon DEF Poller, Polls, Lists
<1> QED BY <1>2, <1>3, <1>4, Zenon DEF SessionInv

LEMMA SessionNext == SessionInv /\ [WNext]_wvars => SessionInv'
<1> SUFFICES ASSUME SessionInv, [WNext]_wvars PROVE SessionInv'
  BY Zenon
<1>1. CASE WNext
  BY <1>1, WaitKeeps, ThrowsKeeps, SubmitKeeps, ExpiryKeeps, ArrivesKeeps, AnswersKeeps, StartKeeps,
     StopKeeps, SyncReadyKeeps, DeliveryKeeps, SnapshotKeeps, RetryKeeps, ConnTimeoutKeeps,
     SyncTimeoutKeeps, Zenon DEF WNext, Serve
<1>2. CASE UNCHANGED wvars
  <2>1. UNCHANGED <<cstate, csock, sstate, indexCurr, indexNext, seqNum, sopen, tryTick, ctmoTick, stmoTick>>
    BY <1>2, Zenon DEF wvars, connVars, syncVars
  <2>2. UNCHANGED <<loopVars, sub, ops, deliv, snap, stage, batch, mode>>
    BY <1>2, Zenon DEF wvars
  <2>3. Machines /\ Operations /\ Network /\ Poller /\ Batch
    BY Zenon DEF SessionInv
  <2>4. Machines' /\ Poller'
    BY <2>1, <2>2, <2>3, MachinesStay, SMTT(20)
  <2>5. Operations' /\ Network'
    BY <2>1, <2>2, <2>3, Zenon DEF Operations, Network
  <2>6. \A i \in Items : Due(i) => Due(i)'
    BY <2>1, <2>2, DueOf, DueOfNext, Zenon DEF Items, Always
  <2>7. Batch'
    BY <2>2, <2>3, <2>6, BatchStays, Zenon
  <2> QED BY <2>4, <2>5, <2>7, Zenon DEF SessionInv
<1> QED BY <1>1, <1>2, Zenon

\* However often updateOnClose() and updateOnOpen() remove the network sockets
\* from the ZMQ poller and add them again, the poller of a session has exactly
\* those that are open, each once.
THEOREM PollerFollows == WSpec => []PolledIsOpen
<1>1. SessionInv => PolledIsOpen
  <2> SUFFICES ASSUME SessionInv PROVE PolledIsOpen
    BY Zenon
  <2>1. IsInjective(items) /\ Range(items) = Polled(csock, sopen # {})
    BY Zenon DEF SessionInv, Poller, Polls, Lists
  <2> QED BY <2>1, Zenon DEF PolledIsOpen, Polled, Always
<1> QED BY <1>1, SessionInit, SessionNext, PTL DEF WSpec

\* In whatever order operations, messages and stale expiries are served, the
\* events a session sends come in an order an application can follow.
THEOREM EventsInOrder == WSpec => []EventProtocol
<1>1. SessionInv => EventProtocol
  <2> SUFFICES ASSUME SessionInv PROVE EventProtocol
    OBVIOUS
  <2>1. seen = Told(cstate # "Halted", isOnline, isSnapshot)
    BY Zenon DEF SessionInv, Machines
  <2> QED BY <2>1, Zenon DEF EventProtocol, Told
<1> QED BY <1>1, SessionInit, SessionNext, PTL DEF WSpec

\* socketReady() finds nothing to read only while the connection is being tried
\* again, or the download is retried or has failed, for any number of messages and
\* of operations that wait.
THEOREM NothingElseEmpty == WSpec => []EmptyOnlyReopened
<1>1. SessionInv => EmptyOnlyReopened
  <2> SUFFICES ASSUME SessionInv, batch # <<>> PROVE Due(Head(batch))
    BY Zenon DEF EmptyOnlyReopened, Due
  <2>1. Batch
    BY Zenon DEF SessionInv
  <2>2. Head(batch) = batch[1] /\ 1 \in 1 .. Len(batch)
    BY <2>1, TailOf DEF Batch
  <2>3. Due(batch[1])
    BY <2>1, <2>2, Zenon DEF Batch
  <2> QED BY <2>2, <2>3, Zenon
<1> QED BY <1>1, SessionInit, SessionNext, PTL DEF WSpec
=============================================================================
