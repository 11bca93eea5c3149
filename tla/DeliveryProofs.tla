---------------------------- MODULE DeliveryProofs ----------------------------
(***************************************************************************)
(* Theorems about Delivery: what the broker's storage holds is the last it *)
(* accepted, and a topic is relayed and delivered at most once and in      *)
(* order. The first parts are about lists and LRU caches, and what         *)
(* storeTopic() does to the two that it fills. The induction principle is  *)
(* over a set of numbers, which the provers can instantiate, where the one *)
(* of NaturalsInduction is over an operator.                               *)
(***************************************************************************)
EXTENDS Delivery, WellFoundedInduction, TLAPS

-----------------------------------------------------------------------------
(* What the proofs need of the operators on sequences.                     *)

LEMMA EmptyList ==
    ASSUME NEW S
    PROVE  /\ <<>> \in Seq(S)
           /\ Len(<<>>) = 0
           /\ \A s \in Seq(S) : (s = <<>>) <=> (Len(s) = 0)
  OBVIOUS

LEMMA ListLength ==
    ASSUME NEW S, NEW s \in Seq(S)
    PROVE  Len(s) \in Nat /\ DOMAIN s = 1 .. Len(s)
  OBVIOUS

LEMMA ListElement ==
    ASSUME NEW S, NEW s \in Seq(S), NEW i \in 1 .. Len(s)
    PROVE  s[i] \in S
  OBVIOUS

LEMMA Appended ==
    ASSUME NEW S, NEW s \in Seq(S), NEW e \in S
    PROVE  /\ Append(s, e) \in Seq(S)
           /\ Append(s, e) # <<>>
           /\ Len(Append(s, e)) = Len(s) + 1
           /\ \A i \in 1 .. Len(s) : Append(s, e)[i] = s[i]
           /\ Append(s, e)[Len(s) + 1] = e
  OBVIOUS

LEMMA HeadAndTail ==
    ASSUME NEW S, NEW s \in Seq(S), s # <<>>
    PROVE  /\ Head(s) \in S
           /\ Tail(s) \in Seq(S)
           /\ Len(Tail(s)) = Len(s) - 1
           /\ \A i \in 1 .. Len(Tail(s)) : Tail(s)[i] = s[i + 1]
  OBVIOUS

LEMMA Widened ==
    ASSUME NEW S, NEW T, S \subseteq T, NEW s \in Seq(S)
    PROVE  s \in Seq(T)
  OBVIOUS

LEMMA Replaced ==
    ASSUME NEW S, NEW s \in Seq(S), NEW i \in 1 .. Len(s), NEW e \in S
    PROVE  /\ [s EXCEPT ![i] = e] \in Seq(S)
           /\ Len([s EXCEPT ![i] = e]) = Len(s)
           /\ \A j \in 1 .. Len(s) : [s EXCEPT ![i] = e][j] = IF j = i THEN e ELSE s[j]
  OBVIOUS

LEMMA Prefix ==
    ASSUME NEW S, NEW s \in Seq(S), NEW n \in 0 .. Len(s)
    PROVE  /\ SubSeq(s, 1, n) \in Seq(S)
           /\ Len(SubSeq(s, 1, n)) = n
           /\ \A i \in 1 .. n : SubSeq(s, 1, n)[i] = s[i]
  OBVIOUS

LEMMA Listed ==
    ASSUME NEW S, NEW n \in Nat, NEW f \in [1 .. n -> S]
    PROVE  f \in Seq(S) /\ Len(f) = n
  OBVIOUS

-----------------------------------------------------------------------------
(* Induction.                                                              *)

Before == {ss \in Nat \X Nat : ss[1] < ss[2]}

LEMMA BeforeWellFounded == IsWellFoundedOn(Before, Nat)
  BY NatLessThanWellFounded, Zenon DEF OpToRel, Before

LEMMA SetInduction ==
    ASSUME NEW G \in SUBSET Nat, 0 \in G, \A n \in G : n + 1 \in G
    PROVE  G = Nat
<1> SUFFICES ASSUME Nat \ G # {} PROVE FALSE
  BY Zenon
<1>1. PICK x \in Nat \ G : \A y \in Nat \ G : ~ (<<y, x>> \in Before)
  BY BeforeWellFounded, WFMin, Zenon
<1>2. x # 0 /\ x - 1 \in Nat
  BY <1>1
<1>3. x - 1 \in Nat \ G
  BY <1>1, <1>2
<1>4. <<x - 1, x>> \in Before
  BY <1>1, <1>2 DEF Before
<1> QED BY <1>1, <1>3, <1>4, Zenon

-----------------------------------------------------------------------------
(* Selected.                                                               *)

UpTo(f, s, places, n) ==
    \A i \in 0 .. n : f[i] = IF i = 0 THEN <<>>
                             ELSE IF i \in places THEN Append(f[i - 1], s[i]) ELSE f[i - 1]

LEMMA UpToExists ==
    ASSUME NEW S, NEW s \in Seq(S), NEW places
    PROVE  \E f \in [0 .. Len(s) -> Seq(S)] : UpTo(f, s, places, Len(s))
<1> DEFINE G == {n \in Nat : n <= Len(s) => \E f \in [0 .. n -> Seq(S)] : UpTo(f, s, places, n)}
<1>1. 0 \in G
  <2>1. [i \in 0 .. 0 |-> <<>>] \in [0 .. 0 -> Seq(S)]
    BY EmptyList, Zenon
  <2>2. UpTo([i \in 0 .. 0 |-> <<>>], s, places, 0)
    BY DEF UpTo
  <2> QED BY <2>1, <2>2, Zenon
<1>2. ASSUME NEW n \in G PROVE n + 1 \in G
  <2> SUFFICES ASSUME n + 1 <= Len(s)
               PROVE  \E f \in [0 .. n + 1 -> Seq(S)] : UpTo(f, s, places, n + 1)
    OBVIOUS
  <2>0. Len(s) \in Nat /\ n \in Nat /\ s[n + 1] \in S
    BY ListLength, ListElement
  <2>1. PICK f \in [0 .. n -> Seq(S)] : UpTo(f, s, places, n)
    BY <2>0
  <2> DEFINE new == IF n + 1 \in places THEN Append(f[n], s[n + 1]) ELSE f[n]
             g == [i \in 0 .. n + 1 |-> IF i = n + 1 THEN new ELSE f[i]]
  <2>2. new \in Seq(S)
    BY <2>0, <2>1, Appended
  <2>3. g \in [0 .. n + 1 -> Seq(S)]
    BY <2>0, <2>1, <2>2
  <2>4. \A i \in 0 .. n : g[i] = f[i]
    BY <2>0
  <2>5. g[n + 1] = new
    BY <2>0
  <2> HIDE DEF g
  <2>6. UpTo(g, s, places, n + 1)
    <3> SUFFICES ASSUME NEW i \in 0 .. n + 1
                 PROVE  g[i] = IF i = 0 THEN <<>>
                               ELSE IF i \in places THEN Append(g[i - 1], s[i]) ELSE g[i - 1]
      BY Zenon DEF UpTo
    <3>1. CASE i = n + 1
      <4>1. i # 0 /\ i - 1 = n /\ n \in 0 .. n
        BY <2>0, <3>1
      <4>2. g[i - 1] = f[n] /\ g[i] = new
        BY <2>4, <2>5, <3>1, <4>1, Zenon
      <4> QED BY <3>1, <4>1, <4>2, Zenon
    <3>2. CASE i \in 0 .. n
      <4>1. f[i] = IF i = 0 THEN <<>>
                   ELSE IF i \in places THEN Append(f[i - 1], s[i]) ELSE f[i - 1]
        BY <2>1, <3>2, Zenon DEF UpTo
      <4>2. g[i] = f[i] /\ (i # 0 => g[i - 1] = f[i - 1])
        <5>1. i # 0 => i - 1 \in 0 .. n
          BY <2>0, <3>2
        <5> QED BY <2>4, <3>2, <5>1, Zenon
      <4> QED BY <4>1, <4>2, Zenon
    <3> QED BY <2>0, <3>1, <3>2
  <2> QED BY <2>3, <2>6, Zenon
<1> HIDE DEF G
<1>3. G = Nat
  <2>1. G \in SUBSET Nat
    BY Zenon DEF G
  <2> QED BY <1>1, <1>2, <2>1, SetInduction, Zenon
<1>4. Len(s) \in G /\ Len(s) \in Nat
  BY <1>3, ListLength, Zenon
<1> QED BY <1>4 DEF G

\* The places of what is selected, in order.
PlacesOf(m, q, s, places) ==
    /\ m \in [1 .. Len(q) -> DOMAIN s \cap places]
    /\ \A k \in 1 .. Len(q) : q[k] = s[m[k]]
    /\ \A j, k \in 1 .. Len(q) : j < k => m[j] < m[k]
    /\ \A i \in DOMAIN s \cap places : \E k \in 1 .. Len(q) : m[k] = i

\* The same for the loop that has gone through n elements.
PlacesUpTo(m, q, s, places, n) ==
    /\ m \in [1 .. Len(q) -> 1 .. n \cap places]
    /\ \A k \in 1 .. Len(q) : q[k] = s[m[k]]
    /\ \A j, k \in 1 .. Len(q) : j < k => m[j] < m[k]
    /\ \A i \in 1 .. n \cap places : \E k \in 1 .. Len(q) : m[k] = i

LEMMA UpToPlaces ==
    ASSUME NEW S, NEW s \in Seq(S), NEW places, NEW f, UpTo(f, s, places, Len(s))
    PROVE  \A n \in 0 .. Len(s) : f[n] \in Seq(S) /\ \E m : PlacesUpTo(m, f[n], s, places, n)
<1>0. Len(s) \in Nat
  BY ListLength, Zenon
<1> DEFINE G == {n \in Nat : n <= Len(s) =>
                    f[n] \in Seq(S) /\ \E m : PlacesUpTo(m, f[n], s, places, n)}
<1>1. 0 \in G
  <2>1. f[0] = <<>> /\ <<>> \in Seq(S) /\ Len(<<>>) = 0
    BY <1>0, EmptyList DEF UpTo
  <2>2. 1 .. 0 = {}
    OBVIOUS
  <2>3. PlacesUpTo([k \in {} |-> 0], <<>>, s, places, 0)
    BY <2>1, <2>2, Zenon DEF PlacesUpTo
  <2> QED BY <2>1, <2>3, Zenon
<1>2. ASSUME NEW n \in G PROVE n + 1 \in G
  <2> SUFFICES ASSUME n + 1 <= Len(s)
               PROVE  f[n + 1] \in Seq(S) /\ \E m : PlacesUpTo(m, f[n + 1], s, places, n + 1)
    OBVIOUS
  <2>0. n \in Nat /\ s[n + 1] \in S
    BY <1>0, ListElement
  <2>1. f[n] \in Seq(S) /\ \E m : PlacesUpTo(m, f[n], s, places, n)
    BY <1>0, <2>0
  <2>2. PICK m : PlacesUpTo(m, f[n], s, places, n)
    BY <2>1, Zenon
  <2>3. f[n + 1] = IF n + 1 \in places THEN Append(f[n], s[n + 1]) ELSE f[n]
    BY <1>0, <2>0 DEF UpTo
  <2>4. Len(f[n]) \in Nat
    BY <2>1, ListLength, Zenon
  <2>5. CASE n + 1 \notin places
    <3>1. f[n + 1] = f[n]
      BY <2>3, <2>5, Zenon
    <3>2. 1 .. (n + 1) \cap places = 1 .. n \cap places
      BY <2>0, <2>5
    <3>3. PlacesUpTo(m, f[n + 1], s, places, n + 1)
      BY <2>2, <3>1, <3>2, Zenon DEF PlacesUpTo
    <3> QED BY <2>1, <3>1, <3>3, Zenon
  <2>6. CASE n + 1 \in places
    <3> DEFINE len == Len(f[n])
               w == [k \in 1 .. len + 1 |-> IF k = len + 1 THEN n + 1 ELSE m[k]]
    <3>1. /\ f[n + 1] = Append(f[n], s[n + 1]) /\ f[n + 1] \in Seq(S)
          /\ Len(f[n + 1]) = len + 1 /\ f[n + 1][len + 1] = s[n + 1]
          /\ \A k \in 1 .. len : f[n + 1][k] = f[n][k]
      BY <2>0, <2>1, <2>3, <2>6, Appended
    <3>2. m \in [1 .. len -> 1 .. n \cap places]
      BY <2>2, Zenon DEF PlacesUpTo
    <3>3. w[len + 1] = n + 1 /\ \A k \in 1 .. len : w[k] = m[k]
      BY <2>4
    <3>4. \A k \in 1 .. len : m[k] \in 1 .. n
      BY <3>2, Zenon
    <3>5. w \in [1 .. len + 1 -> 1 .. n + 1 \cap places]
      BY <2>0, <2>4, <2>6, <3>2
    <3> HIDE DEF w, len
    <3>6. len \in Nat
      BY <2>4, Zenon DEF len
    <3>7. \A k \in 1 .. len + 1 : f[n + 1][k] = s[w[k]]
      <4>1. \A k \in 1 .. len : f[n][k] = s[m[k]]
        BY <2>2, Zenon DEF PlacesUpTo, len
      <4> QED BY <3>1, <3>3, <3>6, <4>1
    <3>8. \A j, k \in 1 .. len + 1 : j < k => w[j] < w[k]
      <4>1. \A j, k \in 1 .. len : j < k => m[j] < m[k]
        BY <2>2, Zenon DEF PlacesUpTo, len
      <4> SUFFICES ASSUME NEW j \in 1 .. len + 1, NEW k \in 1 .. len + 1, j < k PROVE w[j] < w[k]
        BY Zenon
      <4>2. j \in 1 .. len /\ (k \in 1 .. len \/ k = len + 1)
        BY <3>6
      <4>3. CASE k \in 1 .. len
        BY <3>3, <4>1, <4>2, <4>3, Zenon
      <4>4. CASE k = len + 1
        <5>1. w[j] \in 1 .. n /\ w[k] = n + 1
          BY <3>3, <3>4, <4>2, <4>4, Zenon
        <5> QED BY <2>0, <5>1
      <4> QED BY <4>2, <4>3, <4>4, Zenon
    <3>9. \A i \in 1 .. n + 1 \cap places : \E k \in 1 .. len + 1 : w[k] = i
      <4>1. \A i \in 1 .. n \cap places : \E k \in 1 .. len : m[k] = i
        BY <2>2, Zenon DEF PlacesUpTo, len
      <4> TAKE i \in 1 .. n + 1 \cap places
      <4>2. CASE i = n + 1
        BY <3>3, <3>6, <4>2
      <4>3. CASE i # n + 1
        <5>1. i \in 1 .. n \cap places
          BY <2>0, <4>3
        <5> QED BY <3>3, <3>6, <4>1, <5>1
      <4> QED BY <4>2, <4>3, Zenon
    <3>10. PlacesUpTo(w, f[n + 1], s, places, n + 1)
      BY <3>1, <3>5, <3>7, <3>8, <3>9, Zenon DEF PlacesUpTo
    <3> QED BY <3>1, <3>10, Zenon
  <2> QED BY <2>5, <2>6, Zenon
<1> HIDE DEF G
<1>3. G = Nat
  <2>1. G \in SUBSET Nat
    BY Zenon DEF G
  <2> QED BY <1>1, <1>2, <2>1, SetInduction, Zenon
<1> QED BY <1>0, <1>3 DEF G

\* A selection has the elements at the places asked for, in their order.
LEMMA SelectedPlaces ==
    ASSUME NEW S, NEW s \in Seq(S), NEW places
    PROVE  /\ Selected(s, places) \in Seq(S)
           /\ \E m : PlacesOf(m, Selected(s, places), s, places)
<1>0. Len(s) \in Nat /\ DOMAIN s = 1 .. Len(s)
  BY ListLength, Zenon
<1> DEFINE Is(f) == f = [i \in 0 .. Len(s) |->
                IF i = 0 THEN <<>>
                ELSE IF i \in places THEN Append(f[i - 1], s[i]) ELSE f[i - 1]]
           loop == CHOOSE f : Is(f)
<1>1. Selected(s, places) = loop[Len(s)]
  BY Zenon DEF Selected
<1>2. \E f : Is(f)
  <2>1. PICK f \in [0 .. Len(s) -> Seq(S)] : UpTo(f, s, places, Len(s))
    BY UpToExists, Zenon
  <2>2. Is(f)
    BY <2>1, Zenon DEF UpTo
  <2> QED BY <2>2, Zenon
<1>3. Is(loop)
  BY <1>2, Zenon
<1> HIDE DEF loop
<1>4. UpTo(loop, s, places, Len(s))
  BY <1>3, Zenon DEF UpTo
<1>5. loop[Len(s)] \in Seq(S) /\ \E m : PlacesUpTo(m, loop[Len(s)], s, places, Len(s))
  BY <1>0, <1>4, UpToPlaces
<1>6. PICK m : PlacesUpTo(m, loop[Len(s)], s, places, Len(s))
  BY <1>5, Zenon
<1>7. PlacesOf(m, loop[Len(s)], s, places)
  BY <1>0, <1>6, Zenon DEF PlacesUpTo, PlacesOf
<1> QED BY <1>1, <1>5, <1>7, Zenon

-----------------------------------------------------------------------------
(* The caches.                                                             *)

Items(K, V) == [key : K, val : V]

Distinct(c) == \A i, j \in DOMAIN c : c[i].key = c[j].key => i = j

\* The item of a key.
LEMMA AtKey ==
    ASSUME NEW c, NEW k \in KeysOf(c)
    PROVE  At(c, k) \in DOMAIN c /\ c[At(c, k)].key = k
BY Zenon DEF At, KeysOf

LEMMA FindKey ==
    ASSUME NEW c, Distinct(c), NEW i \in DOMAIN c
    PROVE  /\ c[i].key \in KeysOf(c) /\ At(c, c[i].key) = i
           /\ Find(c, c[i].key) = c[i].val
<1>1. c[i].key \in KeysOf(c)
  BY Zenon DEF KeysOf
<1>2. At(c, c[i].key) \in DOMAIN c /\ c[At(c, c[i].key)].key = c[i].key
  BY <1>1, AtKey, Zenon
<1>3. At(c, c[i].key) = i
  BY <1>2, Zenon DEF Distinct
<1> QED BY <1>1, <1>3, Zenon DEF Find

\* What put() does to a cache: the new item is the last of the list, the
\* others were there before, and none is lost unless the cache was full.
PutsIn(p, c, cap, k, v) ==
    /\ Distinct(p)
    /\ Len(p) \in Nat \ {0} /\ DOMAIN p = 1 .. Len(p)
    /\ p[Len(p)] = [key |-> k, val |-> v]
    /\ \A i \in 1 .. Len(p) - 1 : \E j \in DOMAIN c : p[i] = c[j] /\ c[j].key # k
    /\ k \in KeysOf(c) \/ Len(c) < cap =>
         \A j \in DOMAIN c : c[j].key # k => \E i \in 1 .. Len(p) - 1 : p[i] = c[j]

\* The part of put() before the new item is added.
RoomIn(c, cap, k) == IF k \in KeysOf(c) THEN Selected(c, DOMAIN c \ {At(c, k)}) ELSE Evict(c, cap)

Leaves(d, c, cap, k) ==
    /\ Distinct(d)
    /\ \A i \in 1 .. Len(d) : \E j \in DOMAIN c : d[i] = c[j] /\ c[j].key # k
    /\ k \in KeysOf(c) \/ Len(c) < cap =>
         \A j \in DOMAIN c : c[j].key # k => \E i \in 1 .. Len(d) : d[i] = c[j]

LEMMA MadeRoom ==
    ASSUME NEW S, NEW c \in Seq(S), Distinct(c), NEW cap \in Nat, NEW k
    PROVE  RoomIn(c, cap, k) \in Seq(S) /\ Leaves(RoomIn(c, cap, k), c, cap, k)
<1> SUFFICES ASSUME NEW d, d = RoomIn(c, cap, k)
             PROVE  d \in Seq(S) /\ Leaves(d, c, cap, k)
  BY Zenon
<1>0. Len(c) \in Nat /\ DOMAIN c = 1 .. Len(c)
  BY ListLength, Zenon
<1>1. CASE k \in KeysOf(c)
  <2> DEFINE a == At(c, k)
  <2>1. a \in 1 .. Len(c) /\ c[a].key = k
    BY <1>0, <1>1, AtKey, Zenon
  <2> HIDE DEF a
  <2>2. d = Selected(c, DOMAIN c \ {a})
    BY <1>1, Zenon DEF a, RoomIn
  <2>3. d \in Seq(S) /\ \E m : PlacesOf(m, d, c, DOMAIN c \ {a})
    BY <2>2, SelectedPlaces, Zenon
  <2>4. PICK m : PlacesOf(m, d, c, DOMAIN c \ {a})
    BY <2>3, Zenon
  <2>5. Len(d) \in Nat /\ DOMAIN d = 1 .. Len(d)
    BY <2>3, ListLength, Zenon
  <2>6. \A i \in 1 .. Len(d) : m[i] \in DOMAIN c /\ m[i] # a /\ d[i] = c[m[i]]
    BY <2>4, Zenon DEF PlacesOf
  <2>7. Distinct(d)
    <3> SUFFICES ASSUME NEW i \in 1 .. Len(d), NEW j \in 1 .. Len(d), d[i].key = d[j].key
                 PROVE  i = j
      BY <2>5, Zenon DEF Distinct
    <3>1. m[i] = m[j]
      BY <2>6 DEF Distinct
    <3>2. m[i] \in 1 .. Len(c)
      BY <1>0, <2>6, Zenon
    <3>3. ~(i < j) /\ ~(j < i)
      BY <1>0, <2>4, <3>1, <3>2 DEF PlacesOf
    <3> QED BY <2>5, <3>3
  <2>8. \A i \in 1 .. Len(d) : \E j \in DOMAIN c : d[i] = c[j] /\ c[j].key # k
    <3>1. \A j \in DOMAIN c : j # a => c[j].key # k
      BY <1>0, <2>1, Zenon DEF Distinct
    <3> QED BY <2>6, <3>1, Zenon
  <2>9. ASSUME NEW j \in DOMAIN c, c[j].key # k
        PROVE  \E i \in 1 .. Len(d) : d[i] = c[j]
    <3>1. j \in DOMAIN c \cap (DOMAIN c \ {a})
      BY <2>1, <2>9, Zenon
    <3> QED BY <2>4, <2>6, <3>1 DEF PlacesOf
  <2> QED BY <2>3, <2>7, <2>8, <2>9, Zenon DEF Leaves
<1>2. CASE k \notin KeysOf(c)
  <2>1. \A j \in DOMAIN c : c[j].key # k
    BY <1>2, Zenon DEF KeysOf
  <2>2. CASE cap > 0 /\ Len(c) >= cap
    <3>1. d = Tail(c) /\ c # <<>>
      BY <1>0, <1>2, <2>2 DEF Evict, RoomIn
    <3>2. /\ d \in Seq(S) /\ Len(d) = Len(c) - 1
          /\ \A i \in 1 .. Len(d) : d[i] = c[i + 1]
      BY <3>1, HeadAndTail, Zenon
    <3>3. DOMAIN d = 1 .. Len(d)
      BY <3>2, ListLength, Zenon
    <3>4. \A i \in 1 .. Len(c) - 1 : i + 1 \in DOMAIN c
      BY <1>0
    <3>5. Distinct(d)
      <4> SUFFICES ASSUME NEW i \in 1 .. Len(d), NEW j \in 1 .. Len(d), d[i].key = d[j].key
                   PROVE  i = j
        BY <3>3, Zenon DEF Distinct
      <4>1. i + 1 \in DOMAIN c /\ j + 1 \in DOMAIN c /\ c[i + 1].key = c[j + 1].key
        BY <3>2, <3>4, Zenon
      <4>2. i + 1 = j + 1
        BY <4>1, Zenon DEF Distinct
      <4>3. i \in Int /\ j \in Int
        BY <1>0, <3>2
      <4> QED BY <4>2, <4>3
    <3>6. ~(Len(c) < cap)
      BY <1>0, <2>2
    <3> QED BY <1>2, <2>1, <3>2, <3>4, <3>5, <3>6, Zenon DEF Leaves
  <2>3. CASE ~(cap > 0 /\ Len(c) >= cap)
    <3>1. d = c
      BY <1>2, <2>3, Zenon DEF Evict, RoomIn
    <3> QED BY <1>0, <2>1, <3>1, Zenon DEF Leaves
  <2> QED BY <2>2, <2>3, Zenon
<1> QED BY <1>1, <1>2, Zenon

LEMMA PutItem ==
    ASSUME NEW K, NEW V, NEW c \in Seq(Items(K, V)), Distinct(c), NEW cap \in Nat,
           NEW k \in K, NEW v \in V
    PROVE  Put(c, cap, k, v) \in Seq(Items(K, V)) /\ PutsIn(Put(c, cap, k, v), c, cap, k, v)
<1> DEFINE S == Items(K, V)
           new == [key |-> k, val |-> v]
           d == RoomIn(c, cap, k)
<1>1. new \in S /\ new.key = k
  BY Zenon DEF Items
<1>2. /\ d \in Seq(S) /\ Distinct(d)
      /\ \A i \in 1 .. Len(d) : \E j \in DOMAIN c : d[i] = c[j] /\ c[j].key # k
      /\ k \in KeysOf(c) \/ Len(c) < cap =>
            \A j \in DOMAIN c : c[j].key # k => \E i \in 1 .. Len(d) : d[i] = c[j]
  <2>1. d \in Seq(S) /\ Leaves(d, c, cap, k)
    BY MadeRoom, Zenon
  <2> HIDE DEF d, S
  <2> QED BY <2>1, Zenon DEF Leaves
<1>3. Put(c, cap, k, v) = Append(d, new)
  BY Zenon DEF Put, RoomIn
<1> HIDE DEF d, new, S
<1>4. PICK p : p = Append(d, new)
  BY Zenon
<1>5. /\ p \in Seq(S) /\ Len(p) = Len(d) + 1 /\ p[Len(d) + 1] = new
      /\ \A i \in 1 .. Len(d) : p[i] = d[i]
  BY <1>1, <1>2, <1>4, Appended
<1>6. Len(d) \in Nat /\ DOMAIN p = 1 .. Len(p) /\ DOMAIN d = 1 .. Len(d)
  BY <1>2, <1>5, ListLength, Zenon
<1>7. Len(p) - 1 = Len(d) /\ Len(p) \in Nat \ {0}
  BY <1>5, <1>6
<1>8. \A i \in 1 .. Len(d) : p[i].key # k
  BY <1>2, <1>5
<1>9. Distinct(p)
  <2> SUFFICES ASSUME NEW i \in 1 .. Len(d) + 1, NEW j \in 1 .. Len(d) + 1, p[i].key = p[j].key
               PROVE  i = j
    BY <1>5, <1>6, Zenon DEF Distinct
  <2>1. CASE i \in 1 .. Len(d) /\ j \in 1 .. Len(d)
    BY <1>2, <1>5, <1>6, <2>1 DEF Distinct
  <2>2. CASE i = Len(d) + 1 \/ j = Len(d) + 1
    <3>1. p[Len(d) + 1].key = k
      BY <1>1, <1>5, Zenon
    <3>2. i \notin 1 .. Len(d) /\ j \notin 1 .. Len(d)
      BY <1>8, <2>2, <3>1, Zenon
    <3> QED BY <1>6, <3>2
  <2> QED BY <1>6, <2>1, <2>2
<1>10. \A i \in 1 .. Len(p) - 1 : \E j \in DOMAIN c : p[i] = c[j] /\ c[j].key # k
  BY <1>2, <1>5, <1>7
<1>11. k \in KeysOf(c) \/ Len(c) < cap =>
            \A j \in DOMAIN c : c[j].key # k => \E i \in 1 .. Len(p) - 1 : p[i] = c[j]
  BY <1>2, <1>5, <1>7
<1> QED BY <1>3, <1>4, <1>5, <1>6, <1>7, <1>9, <1>10, <1>11 DEF PutsIn, S, new

\* A set of at most n elements: no list of different ones is longer.
AtMost(n, K) ==
    \A s \in Seq(K) : (\A i, j \in DOMAIN s : s[i] = s[j] => i = j) => Len(s) <= n

\* A cache whose keys are of such a set has room for one it does not hold.
LEMMA RoomForKey ==
    ASSUME NEW K, NEW cap \in Nat, AtMost(cap, K), NEW V, NEW c \in Seq(Items(K, V)), Distinct(c),
           NEW k \in K \ KeysOf(c)
    PROVE  Len(c) < cap
<1>0. Len(c) \in Nat /\ DOMAIN c = 1 .. Len(c)
  BY ListLength, Zenon
<1>1. \A i \in 1 .. Len(c) : c[i].key \in K \ {k}
  <2> TAKE i \in 1 .. Len(c)
  <2>1. c[i] \in Items(K, V)
    BY ListElement
  <2>2. c[i].key \in KeysOf(c)
    BY <1>0, Zenon DEF KeysOf
  <2> QED BY <2>1, <2>2, Zenon DEF Items
<1>2. PICK s : s = [i \in 1 .. Len(c) + 1 |-> IF i = Len(c) + 1 THEN k ELSE c[i].key]
  BY Zenon
<1>3. \A i \in 1 .. Len(c) + 1 : s[i] = (IF i = Len(c) + 1 THEN k ELSE c[i].key) /\ s[i] \in K
  BY <1>0, <1>1, <1>2
<1>4. s \in Seq(K) /\ Len(s) = Len(c) + 1 /\ DOMAIN s = 1 .. Len(c) + 1
  <2>1. s \in [1 .. Len(c) + 1 -> K] /\ Len(c) + 1 \in Nat
    BY <1>0, <1>2, <1>3
  <2> QED BY <1>2, <2>1, Listed
<1>5. \A i, j \in DOMAIN s : s[i] = s[j] => i = j
  <2> SUFFICES ASSUME NEW i \in 1 .. Len(c) + 1, NEW j \in 1 .. Len(c) + 1, s[i] = s[j]
               PROVE  i = j
    BY <1>4, Zenon
  <2>1. CASE i = Len(c) + 1 \/ j = Len(c) + 1
    BY <1>0, <1>1, <1>3, <2>1
  <2>2. CASE i \in 1 .. Len(c) /\ j \in 1 .. Len(c)
    <3>1. c[i].key = c[j].key
      BY <1>0, <1>3, <2>2
    <3> QED BY <1>0, <2>2, <3>1, Zenon DEF Distinct
  <2> QED BY <1>0, <2>1, <2>2
<1>6. Len(s) <= cap
  BY <1>4, <1>5, Zenon DEF AtMost
<1> QED BY <1>0, <1>4, <1>6

-----------------------------------------------------------------------------
(* storeTopic().                                                           *)

Topic == [worker : Workers, seqNum : Nat, name : Names, type : {"State", "Event"}]

NumberCaches == {c \in Seq(Items(Workers, Nat)) : Distinct(c)}

TopicLists == {c \in Seq(Items(Workers, Topic)) : Distinct(c)}
TopicCaches == {c \in Seq(Items(Names, TopicLists)) : Distinct(c)}

\* LastSeqNum as a function of what storWorker_ holds.
NumberIn(c, w) == IF w \in KeysOf(c) THEN Find(c, w) ELSE 0

LEMMA NumberType ==
    ASSUME NEW c \in NumberCaches, NEW w
    PROVE  NumberIn(c, w) \in Nat
<1>1. CASE w \in KeysOf(c)
  <2>1. At(c, w) \in DOMAIN c
    BY <1>1, AtKey, Zenon
  <2>2. DOMAIN c = 1 .. Len(c) /\ c \in Seq(Items(Workers, Nat))
    BY ListLength, Zenon DEF NumberCaches
  <2>3. c[At(c, w)] \in Items(Workers, Nat)
    BY <2>1, <2>2, ListElement, Zenon
  <2> QED BY <1>1, <2>3, Zenon DEF NumberIn, Find, Items
<1>2. CASE w \notin KeysOf(c)
  BY <1>2, Zenon DEF NumberIn
<1> QED BY <1>1, <1>2, Zenon

\* An item tells the number of its worker.
LEMMA NumberOf ==
    ASSUME NEW c, Distinct(c), NEW i \in DOMAIN c
    PROVE  NumberIn(c, c[i].key) = c[i].val
BY FindKey, Zenon DEF NumberIn

\* With no more workers than the capacity of storWorker_, put() changes the
\* number of one worker and loses none.
LEMMA NumberPut ==
    ASSUME AtMost(WorkerCap, Workers),
           NEW c \in NumberCaches, NEW w \in Workers, NEW n \in Nat,
           NEW p, p = Put(c, WorkerCap, w, n)
    PROVE  /\ p \in NumberCaches
           /\ NumberIn(p, w) = n
           /\ \A v \in Workers \ {w} : NumberIn(p, v) = NumberIn(c, v)
<1>0. c \in Seq(Items(Workers, Nat)) /\ Distinct(c) /\ WorkerCap \in Nat
  BY BrokerAssumption, Zenon DEF NumberCaches
<1>1. p \in Seq(Items(Workers, Nat)) /\ PutsIn(p, c, WorkerCap, w, n)
  BY <1>0, PutItem, Zenon
<1>2. p \in NumberCaches
  BY <1>1, Zenon DEF PutsIn, NumberCaches
<1>3. /\ Distinct(p) /\ Len(p) \in DOMAIN p /\ Len(p) \in Nat \ {0} /\ DOMAIN p = 1 .. Len(p)
      /\ p[Len(p)] = [key |-> w, val |-> n]
  BY <1>1 DEF PutsIn
<1>4. NumberIn(p, w) = n
  <2>1. NumberIn(p, p[Len(p)].key) = p[Len(p)].val
    BY <1>3, NumberOf, Zenon
  <2> QED BY <1>3, <2>1
<1>5. w \in KeysOf(c) \/ Len(c) < WorkerCap
  <2>1. CASE w \in KeysOf(c)
    BY <2>1, Zenon
  <2>2. CASE w \notin KeysOf(c)
    BY <1>0, <2>2, RoomForKey, Zenon
  <2> QED BY <2>1, <2>2, Zenon
<1>6. ASSUME NEW v \in Workers \ {w}
      PROVE  NumberIn(p, v) = NumberIn(c, v)
  <2>1. CASE v \in KeysOf(c)
    <3>1. PICK j \in DOMAIN c : c[j].key = v
      BY <2>1, Zenon DEF KeysOf
    <3>2. PICK i \in 1 .. Len(p) - 1 : p[i] = c[j]
      BY <1>1, <1>5, <3>1, Zenon DEF PutsIn
    <3>3. i \in DOMAIN p
      BY <1>3
    <3>4. NumberIn(p, p[i].key) = p[i].val /\ NumberIn(c, c[j].key) = c[j].val
      BY <1>0, <1>3, <3>3, NumberOf, Zenon
    <3> QED BY <3>1, <3>2, <3>4, Zenon
  <2>2. CASE v \notin KeysOf(c)
    <3>1. \A i \in DOMAIN p : p[i].key # v
      <4> TAKE i \in DOMAIN p
      <4>1. CASE i = Len(p)
        BY <1>3, <4>1
      <4>2. CASE i # Len(p)
        <5>1. i \in 1 .. Len(p) - 1
          BY <1>3, <4>2
        <5>2. PICK j \in DOMAIN c : p[i] = c[j]
          BY <1>1, <5>1, Zenon DEF PutsIn
        <5> QED BY <2>2, <5>2, Zenon DEF KeysOf
      <4> QED BY <4>1, <4>2, Zenon
    <3> QED BY <2>2, <3>1, Zenon DEF NumberIn, KeysOf
  <2> QED BY <2>1, <2>2, Zenon
<1> QED BY <1>2, <1>4, <1>6, Zenon

\* WithName and the rest of storeTopic(), as functions of what storTopic_
\* holds.
NamedIn(c, n) == IF n \in KeysOf(c) THEN c ELSE Put(c, TopicCap, n, <<>>)

TopicIn(c, t) ==
    LET q == NamedIn(c, t.name) IN
    Update(q, t.name, Put(Find(q, t.name), UuidCap, t.worker, t))

LEMMA TopicCacheItems ==
    ASSUME NEW c \in TopicCaches
    PROVE  /\ c \in Seq(Items(Names, TopicLists)) /\ Distinct(c)
           /\ Len(c) \in Nat /\ DOMAIN c = 1 .. Len(c)
           /\ \A i \in DOMAIN c : c[i].key \in Names /\ c[i].val \in TopicLists
                                  /\ c[i] = [key |-> c[i].key, val |-> c[i].val]
<1>1. c \in Seq(Items(Names, TopicLists)) /\ Distinct(c)
  BY Zenon DEF TopicCaches
<1>2. Len(c) \in Nat /\ DOMAIN c = 1 .. Len(c)
  BY <1>1, ListLength, Zenon
<1>3. \A i \in DOMAIN c : c[i] \in Items(Names, TopicLists)
  BY <1>1, <1>2, ListElement, Zenon
<1> QED BY <1>1, <1>2, <1>3, Zenon DEF Items

\* A name that was not there has no topic yet.
LEMMA NameStored ==
    ASSUME NEW c \in TopicCaches, NEW n \in Names, NEW q, q = NamedIn(c, n)
    PROVE  /\ q \in TopicCaches /\ n \in KeysOf(q)
           /\ \A i \in DOMAIN q : q[i].val = <<>> \/ \E j \in DOMAIN c : q[i] = c[j]
<1>1. CASE n \in KeysOf(c)
  BY <1>1, Zenon DEF NamedIn
<1>2. CASE n \notin KeysOf(c)
  <2>0. q = Put(c, TopicCap, n, <<>>)
    BY <1>2, Zenon DEF NamedIn
  <2>1. <<>> \in TopicLists
    <3>1. <<>> \in Seq(Items(Workers, Topic))
      BY EmptyList, Zenon
    <3>2. Distinct(<<>>)
      BY DEF Distinct
    <3> QED BY <3>1, <3>2, Zenon DEF TopicLists
  <2>2. q \in Seq(Items(Names, TopicLists)) /\ PutsIn(q, c, TopicCap, n, <<>>)
    BY <2>0, <2>1, BrokerAssumption, TopicCacheItems, PutItem
  <2>3. q \in TopicCaches
    BY <2>2, Zenon DEF PutsIn, TopicCaches
  <2>4. Len(q) \in Nat \ {0} /\ DOMAIN q = 1 .. Len(q) /\ q[Len(q)] = [key |-> n, val |-> <<>>]
    BY <2>2, Zenon DEF PutsIn
  <2>5. n \in KeysOf(q)
    BY <2>4 DEF KeysOf
  <2>6. ASSUME NEW i \in DOMAIN q
        PROVE  q[i].val = <<>> \/ \E j \in DOMAIN c : q[i] = c[j]
    <3>1. CASE i = Len(q)
      BY <2>4, <3>1
    <3>2. CASE i # Len(q)
      <4>1. i \in 1 .. Len(q) - 1
        BY <2>4, <3>2
      <4> QED BY <2>2, <4>1, Zenon DEF PutsIn
    <3> QED BY <3>1, <3>2, Zenon
  <2> QED BY <2>3, <2>5, <2>6, Zenon
<1> QED BY <1>1, <1>2, Zenon

\* The entry of the name ends with the topic, the others are as they were.
EndsWith(r, c, t) ==
    \A i \in DOMAIN r :
        \/ r[i].key = t.name /\ r[i].val # <<>> /\ Back(r[i].val) = t
        \/ r[i].key # t.name /\ (r[i].val = <<>> \/ \E j \in DOMAIN c : r[i] = c[j])

LEMMA TopicStored ==
    ASSUME NEW c \in TopicCaches, NEW t \in Topic, NEW r, r = TopicIn(c, t)
    PROVE  r \in TopicCaches /\ EndsWith(r, c, t)
<1>0. t.name \in Names /\ t.worker \in Workers
  BY Zenon DEF Topic
<1>1. PICK q : q = NamedIn(c, t.name)
  BY Zenon
<1>2. /\ q \in TopicCaches /\ t.name \in KeysOf(q)
      /\ \A i \in DOMAIN q : q[i].val = <<>> \/ \E j \in DOMAIN c : q[i] = c[j]
  BY <1>0, <1>1, NameStored
<1>3. PICK a : a = At(q, t.name)
  BY Zenon
<1>4. a \in DOMAIN q /\ q[a].key = t.name
  BY <1>2, <1>3, AtKey, Zenon
<1>5. PICK l : l = Put(q[a].val, UuidCap, t.worker, t)
  BY Zenon
<1>6. q[a].val \in TopicLists
  BY <1>2, <1>4, TopicCacheItems, Zenon
<1>7. l \in Seq(Items(Workers, Topic)) /\ PutsIn(l, q[a].val, UuidCap, t.worker, t)
  BY <1>0, <1>5, <1>6, BrokerAssumption, PutItem, Zenon DEF TopicLists
<1>8. l \in TopicLists
  BY <1>7, Zenon DEF PutsIn, TopicLists
<1>9. l # <<>> /\ Back(l) = t
  <2>1. Len(l) \in Nat \ {0} /\ l[Len(l)] = [key |-> t.worker, val |-> t]
    BY <1>7, Zenon DEF PutsIn
  <2> QED BY <2>1 DEF Back
<1>10. r = [q EXCEPT ![a].val = l]
  BY <1>1, <1>3, <1>5, Zenon DEF TopicIn, Update, Find
<1>11. /\ q \in Seq(Items(Names, TopicLists)) /\ Distinct(q)
       /\ Len(q) \in Nat /\ DOMAIN q = 1 .. Len(q)
       /\ \A i \in DOMAIN q : q[i].key \in Names /\ q[i].val \in TopicLists
                              /\ q[i] = [key |-> q[i].key, val |-> q[i].val]
  BY <1>2, TopicCacheItems, Zenon
<1>12. PICK e : e = [key |-> t.name, val |-> l]
  BY Zenon
<1>13. r = [q EXCEPT ![a] = e]
  <2>1. [q[a] EXCEPT !.val = l] = e
    <3>1. q[a] = [key |-> t.name, val |-> q[a].val]
      BY <1>4, <1>11, Zenon
    <3> QED BY <1>12, <3>1
  <2> QED BY <1>10, <2>1, Zenon
<1>14. e \in Items(Names, TopicLists) /\ e.key = t.name /\ e.val = l
  BY <1>0, <1>8, <1>12, Zenon DEF Items
<1>15. /\ r \in Seq(Items(Names, TopicLists)) /\ Len(r) = Len(q)
       /\ \A i \in 1 .. Len(q) : r[i] = IF i = a THEN e ELSE q[i]
  BY <1>4, <1>11, <1>13, <1>14, Replaced
<1>16. DOMAIN r = DOMAIN q
  BY <1>11, <1>13, Zenon
<1>17. \A i \in DOMAIN r : r[i].key = q[i].key
  BY <1>4, <1>11, <1>14, <1>15, <1>16, Zenon
<1>18. r \in TopicCaches
  BY <1>11, <1>15, <1>16, <1>17 DEF Distinct, TopicCaches
<1>19. ASSUME NEW i \in DOMAIN r
       PROVE  \/ r[i].key = t.name /\ r[i].val # <<>> /\ Back(r[i].val) = t
              \/ r[i].key # t.name /\ (r[i].val = <<>> \/ \E j \in DOMAIN c : r[i] = c[j])
  <2>1. CASE i = a
    BY <1>9, <1>11, <1>14, <1>15, <1>16, <2>1, Zenon
  <2>2. CASE i # a
    <3>1. r[i] = q[i] /\ i \in DOMAIN q
      BY <1>11, <1>15, <1>16, <2>2, Zenon
    <3>2. r[i].key # t.name
      BY <1>4, <1>11, <2>2, <3>1, Zenon DEF Distinct
    <3> QED BY <1>2, <3>1, <3>2, Zenon
  <2> QED BY <2>1, <2>2, Zenon
<1> QED BY <1>18, <1>19, Zenon DEF EndsWith

LEMMA TopicsOf ==
    ASSUME NEW q \in Seq(Topic)
    PROVE  /\ Len(q) \in Nat /\ DOMAIN q = 1 .. Len(q)
           /\ \A i \in 1 .. Len(q) :
                q[i] \in Topic /\ q[i].worker \in Workers /\ q[i].seqNum \in Nat /\ q[i].name \in Names
<1>1. Len(q) \in Nat /\ DOMAIN q = 1 .. Len(q)
  BY ListLength, Zenon
<1>2. \A i \in 1 .. Len(q) : q[i] \in Topic
  BY ListElement, Zenon
<1>3. \A t \in Topic : t.worker \in Workers /\ t.seqNum \in Nat /\ t.name \in Names
  BY Zenon DEF Topic
<1> QED BY <1>1, <1>2, <1>3, Zenon

LEMMA BackType ==
    ASSUME NEW l \in TopicLists, l # <<>>
    PROVE  Back(l) \in Topic
<1>1. l \in Seq(Items(Workers, Topic))
  BY Zenon DEF TopicLists
<1>2. Len(l) \in 1 .. Len(l)
  BY <1>1, EmptyList
<1>3. l[Len(l)] \in Items(Workers, Topic)
  BY <1>1, <1>2, ListElement, Zenon
<1> QED BY <1>3, Zenon DEF Back, Items

\* replySnapshot() sends the last topics of stored names, and all of those
\* that are states of subscribed names.
LEMMA SnapshotTopics ==
    ASSUME storTopic \in TopicCaches, NoEmptyTopic, NEW names
    PROVE  /\ Snapshot(names) \in Seq(Topic)
           /\ \A k \in DOMAIN Snapshot(names) : \E i \in DOMAIN storTopic :
                Snapshot(names)[k] = Back(storTopic[i].val)
           /\ \A i \in Sendable(names) : \E k \in DOMAIN Snapshot(names) :
                Snapshot(names)[k] = Back(storTopic[i].val)
<1> DEFINE S == Items(Names, TopicLists)
<1>0. /\ storTopic \in Seq(S) /\ DOMAIN storTopic = 1 .. Len(storTopic)
      /\ \A i \in DOMAIN storTopic : storTopic[i].val \in TopicLists
  BY TopicCacheItems, Zenon
<1> HIDE DEF S
<1>1. PICK q : q = Selected(storTopic, Sendable(names))
  BY Zenon
<1>2. q \in Seq(S) /\ \E m : PlacesOf(m, q, storTopic, Sendable(names))
  BY <1>0, <1>1, SelectedPlaces, Zenon
<1>3. PICK m : PlacesOf(m, q, storTopic, Sendable(names))
  BY <1>2, Zenon
<1>4. Len(q) \in Nat /\ DOMAIN q = 1 .. Len(q)
  BY <1>2, ListLength, Zenon
<1>5. Snapshot(names) = [k \in 1 .. Len(q) |-> Back(q[k].val)]
  BY <1>1, <1>4, Zenon DEF Snapshot
<1>6. \A k \in 1 .. Len(q) : m[k] \in DOMAIN storTopic /\ q[k] = storTopic[m[k]]
  BY <1>3, Zenon DEF PlacesOf
<1>7. \A k \in 1 .. Len(q) : Back(q[k].val) \in Topic
  BY <1>0, <1>6, BackType, Zenon DEF NoEmptyTopic
<1>8. Snapshot(names) \in Seq(Topic)
  <2>1. Snapshot(names) \in [1 .. Len(q) -> Topic]
    BY <1>5, <1>7, Zenon
  <2> QED BY <1>4, <2>1, Listed, Zenon
<1>9. DOMAIN Snapshot(names) = 1 .. Len(q)
  BY <1>5, Zenon
<1>10. \A i \in Sendable(names) : \E k \in 1 .. Len(q) : m[k] = i
  BY <1>3, Zenon DEF PlacesOf, Sendable
<1> QED BY <1>5, <1>6, <1>8, <1>9, <1>10

-----------------------------------------------------------------------------
(* Types.                                                                  *)

LinkTypes ==
    /\ storTopic \in TopicCaches /\ storWorker \in NumberCaches
    /\ seqNum \in [Workers -> Nat]
    /\ up \in [Workers -> [Channels -> Seq(Topic)]]
    /\ \A w \in Workers, c \in Channels : \A i \in 1 .. Len(up[w][c]) : up[w][c][i].worker = w

ReceiverTypes ==
    /\ down \in Seq(Topic) /\ snap \in Seq(Topic \cup {Complete})
    /\ seen \in [Workers -> Nat]
    /\ syncing \in BOOLEAN /\ request \in BOOLEAN

GhostTypes ==
    /\ events \in [Workers -> Seq(Topic)] /\ relayed \in [Workers -> Seq(Topic)]
    /\ elements \subseteq Topic
    /\ last \in [Names -> Topic \cup {NoTopic}]
    /\ kept \in BOOLEAN /\ fresh \in BOOLEAN

DTypes == LinkTypes /\ ReceiverTypes /\ GhostTypes

LEMMA DTypesInit == DInit => DTypes
<1> SUFFICES ASSUME DInit PROVE DTypes
  BY Zenon
<1>0. \A S : <<>> \in Seq(S) /\ Len(<<>>) = 0
  BY EmptyList, Zenon
<1>1. storTopic \in TopicCaches /\ storWorker \in NumberCaches
  <2>1. Distinct(<<>>)
    BY DEF Distinct
  <2> QED BY <1>0, <2>1, Zenon DEF DInit, BrInit, TopicCaches, NumberCaches
<1>2. LinkTypes
  BY <1>0, <1>1 DEF DInit, LinkTypes
<1>3. ReceiverTypes
  BY <1>0, Zenon DEF DInit, ReceiverTypes
<1>4. GhostTypes
  BY <1>0, Zenon DEF DInit, GhostTypes, None
<1> QED BY <1>2, <1>3, <1>4, Zenon DEF DTypes

\* What a step does to the channel it reads.
LEMMA UpTail ==
    ASSUME DTypes, NEW w \in Workers, NEW c \in Channels, up[w][c] # <<>>,
           up' = [up EXCEPT ![w][c] = Tail(@)]
    PROVE  /\ Head(up[w][c]) \in Topic /\ Head(up[w][c]).worker = w
           /\ up[w][c] \in Seq(Topic) /\ Len(up[w][c]) \in Nat \ {0} /\ Head(up[w][c]) = up[w][c][1]
           /\ up' \in [Workers -> [Channels -> Seq(Topic)]]
           /\ \A v \in Workers, d \in Channels : \A i \in 1 .. Len(up'[v][d]) :
                \E j \in 1 .. Len(up[v][d]) : up'[v][d][i] = up[v][d][j]
<1>0. up \in [Workers -> [Channels -> Seq(Topic)]]
  BY Zenon DEF DTypes, LinkTypes
<1>1. PICK q : q = up[w][c]
  BY Zenon
<1>2. q \in Seq(Topic) /\ q # <<>> /\ Len(q) \in Nat \ {0}
  BY <1>0, <1>1, EmptyList
<1>3. Head(q) \in Topic /\ Head(q) = q[1]
  BY <1>2, HeadAndTail
<1>4. 1 \in 1 .. Len(q)
  BY <1>2
<1>5. Head(q).worker = w
  BY <1>1, <1>3, <1>4 DEF DTypes, LinkTypes
<1>6. /\ Tail(q) \in Seq(Topic) /\ Len(Tail(q)) = Len(q) - 1
      /\ \A i \in 1 .. Len(Tail(q)) : Tail(q)[i] = q[i + 1]
  BY <1>2, HeadAndTail, Zenon
<1>7. up' = [up EXCEPT ![w][c] = Tail(q)]
  BY <1>1, Zenon
<1>8. up' \in [Workers -> [Channels -> Seq(Topic)]]
  <2>1. up' = [up EXCEPT ![w] = [up[w] EXCEPT ![c] = Tail(q)]]
    BY <1>7, Zenon
  <2>2. up[w] \in [Channels -> Seq(Topic)]
    BY <1>0, Zenon
  <2>3. [up[w] EXCEPT ![c] = Tail(q)] \in [Channels -> Seq(Topic)]
    BY <1>6, <2>2, Zenon
  <2> QED BY <1>0, <2>1, <2>3, Zenon
<1>9. \A v \in Workers, d \in Channels :
          up'[v][d] = IF v = w /\ d = c THEN Tail(q) ELSE up[v][d]
  <2> TAKE v \in Workers, d \in Channels
  <2>1. up'[v] = IF v = w THEN [up[w] EXCEPT ![c] = Tail(q)] ELSE up[v]
    BY <1>0, <1>7, Zenon
  <2>2. up[w] \in [Channels -> Seq(Topic)]
    BY <1>0, Zenon
  <2>3. [up[w] EXCEPT ![c] = Tail(q)][d] = IF d = c THEN Tail(q) ELSE up[w][d]
    BY <2>2, Zenon
  <2>4. CASE v = w
    <3>1. up'[v][d] = [up[w] EXCEPT ![c] = Tail(q)][d]
      BY <2>1, <2>4, Zenon
    <3> QED BY <2>3, <2>4, <3>1, Zenon
  <2>5. CASE v # w
    BY <2>1, <2>5
  <2> QED BY <2>4, <2>5, Zenon
<1>10. ASSUME NEW v \in Workers, NEW d \in Channels, NEW i \in 1 .. Len(up'[v][d])
       PROVE  \E j \in 1 .. Len(up[v][d]) : up'[v][d][i] = up[v][d][j]
  <2>1. CASE v = w /\ d = c
    <3>1. i \in 1 .. Len(Tail(q)) /\ up'[v][d][i] = q[i + 1]
      BY <1>6, <1>9, <2>1, Zenon
    <3>2. i + 1 \in 1 .. Len(q)
      BY <1>2, <1>6, <3>1
    <3> QED BY <1>1, <2>1, <3>1, <3>2, Zenon
  <2>2. CASE ~(v = w /\ d = c)
    BY <1>9, <2>2
  <2> QED BY <2>1, <2>2, Zenon
<1> QED BY <1>1, <1>2, <1>3, <1>5, <1>8, <1>10, Zenon

\* What Dispatch does to the channels of its worker.
LEMMA UpAppended ==
    ASSUME DTypes, NEW w \in Workers, Dispatch(w)
    PROVE  /\ seqNum' \in [Workers -> Nat]
           /\ seqNum'[w] = seqNum[w] + 1 /\ \A v \in Workers : v # w => seqNum'[v] = seqNum[v]
           /\ up' \in [Workers -> [Channels -> Seq(Topic)]]
           /\ \A v \in Workers, d \in Channels : \A i \in 1 .. Len(up'[v][d]) :
                \/ v = w /\ up'[v][d][i].worker = w /\ up'[v][d][i].seqNum = seqNum[w] + 1
                \/ \E j \in 1 .. Len(up[v][d]) : up'[v][d][i] = up[v][d][j]
<1>0. up \in [Workers -> [Channels -> Seq(Topic)]] /\ seqNum \in [Workers -> Nat]
  BY Zenon DEF DTypes, LinkTypes
<1>1. seqNum' = [seqNum EXCEPT ![w] = seqNum[w] + 1]
  BY Zenon DEF Dispatch
<1>2. /\ seqNum' \in [Workers -> Nat] /\ seqNum[w] \in Nat
      /\ seqNum'[w] = seqNum[w] + 1 /\ \A v \in Workers : v # w => seqNum'[v] = seqNum[v]
  BY <1>0, <1>1
<1>3. PICK k \in Kinds, lost \in (IF MayLose THEN SUBSET Channels ELSE {{}}) :
          up' = [up EXCEPT ![w] = [c \in Channels |->
                   IF c \in lost THEN @[c]
                   ELSE Append(@[c], [worker |-> w, seqNum |-> seqNum[w] + 1,
                                      name |-> k.name, type |-> k.type])]]
  BY Zenon DEF Dispatch
<1>4. PICK t : t = [worker |-> w, seqNum |-> seqNum[w] + 1, name |-> k.name, type |-> k.type]
  BY Zenon
<1>5. t \in Topic /\ t.worker = w /\ t.seqNum = seqNum[w] + 1
  <2>1. k.name \in Names /\ k.type \in {"State", "Event"}
    BY DeliveryAssumption, Zenon
  <2> QED BY <1>2, <1>4, <2>1, Zenon DEF Topic
<1>6. PICK q : q = [c \in Channels |-> IF c \in lost THEN up[w][c] ELSE Append(up[w][c], t)]
  BY Zenon
<1>7. up' = [up EXCEPT ![w] = q]
  BY <1>3, <1>4, <1>6, Zenon
<1>8. \A c \in Channels : up[w][c] \in Seq(Topic) /\ Append(up[w][c], t) \in Seq(Topic)
  BY <1>0, <1>5, Appended
<1>9. q \in [Channels -> Seq(Topic)]
  BY <1>6, <1>8, Zenon
<1>10. up' \in [Workers -> [Channels -> Seq(Topic)]]
  BY <1>0, <1>7, <1>9, Zenon
<1>11. ASSUME NEW v \in Workers, NEW d \in Channels, NEW i \in 1 .. Len(up'[v][d])
       PROVE  \/ v = w /\ up'[v][d][i].worker = w /\ up'[v][d][i].seqNum = seqNum[w] + 1
              \/ \E j \in 1 .. Len(up[v][d]) : up'[v][d][i] = up[v][d][j]
  <2>1. CASE v # w
    <3>1. up'[v] = up[v]
      BY <1>0, <1>7, <2>1, Zenon
    <3> QED BY <3>1, Zenon
  <2>2. CASE v = w /\ d \in lost
    <3>1. up'[v] = q /\ q[d] = up[w][d]
      BY <1>0, <1>6, <1>7, <2>2, Zenon
    <3> QED BY <2>2, <3>1, Zenon
  <2>3. CASE v = w /\ d \notin lost
    <3>1. up'[v] = q /\ q[d] = Append(up[w][d], t)
      BY <1>0, <1>6, <1>7, <2>3, Zenon
    <3>2. i \in 1 .. Len(Append(up[w][d], t)) /\ up'[v][d][i] = Append(up[w][d], t)[i]
      BY <3>1, Zenon
    <3>3. /\ Len(Append(up[w][d], t)) = Len(up[w][d]) + 1 /\ Len(up[w][d]) \in Nat
          /\ \A j \in 1 .. Len(up[w][d]) : Append(up[w][d], t)[j] = up[w][d][j]
          /\ Append(up[w][d], t)[Len(up[w][d]) + 1] = t
      BY <1>5, <1>8, Appended, ListLength, SMTT(20)
    <3>4. CASE i = Len(up[w][d]) + 1
      BY <1>5, <2>3, <3>2, <3>3, <3>4, Zenon
    <3>5. CASE i # Len(up[w][d]) + 1
      <4>1. i \in 1 .. Len(up[w][d])
        BY <3>2, <3>3, <3>5
      <4> QED BY <2>3, <3>2, <3>3, <4>1, Zenon
    <3> QED BY <3>4, <3>5, Zenon
  <2> QED BY <2>1, <2>2, <2>3, Zenon
<1> QED BY <1>2, <1>10, <1>11, Zenon

\* What the broker's handler does: it stores and relays the topic, or makes
\* at most an empty entry of its name.
Relays(t, lost) ==
    /\ t.seqNum > NumberIn(storWorker, t.worker)
    /\ storWorker' = Put(storWorker, WorkerCap, t.worker, t.seqNum)
    /\ storTopic' = TopicIn(storTopic, t)
    /\ relayed' = [relayed EXCEPT ![t.worker] = Append(relayed[t.worker], t)]
    /\ last' = [last EXCEPT ![t.name] = t]
    /\ down' = IF lost \/ t.name \notin Subscribed THEN down ELSE Append(down, t)
    /\ kept' = (kept /\ ~lost) /\ fresh' = (fresh /\ ~lost)

Drops(t) ==
    /\ storTopic' = NamedIn(storTopic, t.name)
    /\ UNCHANGED <<storWorker, relayed, last, down, kept, fresh>>

LEMMA CollectEffect ==
    ASSUME DTypes, NEW w \in Workers, NEW c \in Channels, CollectWorkerMessage(w, c)
    PROVE  /\ UNCHANGED <<seqNum, receiver, events, elements>>
           /\ up' = [up EXCEPT ![w][c] = Tail(@)] /\ up[w][c] # <<>>
           /\ Head(up[w][c]) \in Topic /\ Head(up[w][c]).worker = w
           /\ Drops(Head(up[w][c])) \/ \E lost \in BOOLEAN : Relays(Head(up[w][c]), lost)
<1>1. /\ UNCHANGED <<seqNum, receiver, events, elements>>
      /\ up' = [up EXCEPT ![w][c] = Tail(@)] /\ up[w][c] # <<>>
  BY Zenon DEF CollectWorkerMessage
<1>2. PICK t : t = Head(up[w][c])
  BY Zenon
<1>3. t \in Topic /\ t.worker = w
  BY <1>1, <1>2, UpTail, Zenon
<1>4. LastSeqNum(t.worker) = NumberIn(storWorker, t.worker)
  BY Zenon DEF LastSeqNum, NumberIn
<1>5. CASE Accepts(t)
  <2>1. /\ StoreTopic(t)
        /\ relayed' = [relayed EXCEPT ![w] = Append(@, t)]
        /\ last' = [last EXCEPT ![t.name] = t]
        /\ \E lost \in {FALSE, MayLose} :
              /\ down' = IF lost \/ t.name \notin Subscribed THEN down ELSE Append(down, t)
              /\ kept' = (kept /\ ~lost) /\ fresh' = (fresh /\ ~lost)
    BY <1>2, <1>5, Zenon DEF CollectWorkerMessage
  <2>2. PICK lost \in {FALSE, MayLose} :
              /\ down' = IF lost \/ t.name \notin Subscribed THEN down ELSE Append(down, t)
              /\ kept' = (kept /\ ~lost) /\ fresh' = (fresh /\ ~lost)
    BY <2>1, Zenon
  <2>3. lost \in BOOLEAN
    BY DeliveryAssumption, Zenon
  <2>4. storWorker' = Put(storWorker, WorkerCap, t.worker, t.seqNum)
    BY <1>5, <2>1, Zenon DEF StoreTopic
  <2>5. storTopic' = TopicIn(storTopic, t)
    BY <1>5, <2>1, Zenon DEF StoreTopic, TopicIn, NamedIn, WithName
  <2>6. t.seqNum > NumberIn(storWorker, t.worker)
    BY <1>4, <1>5, Zenon DEF Accepts
  <2>7. Relays(t, lost)
    BY <1>3, <2>1, <2>2, <2>4, <2>5, <2>6, Zenon DEF Relays
  <2> QED BY <1>1, <1>2, <1>3, <2>3, <2>7, Zenon
<1>6. CASE ~Accepts(t)
  <2>1. StoreTopic(t) /\ UNCHANGED <<relayed, last, down, kept, fresh>>
    BY <1>2, <1>6, Zenon DEF CollectWorkerMessage
  <2>2. Drops(t)
    BY <1>6, <2>1, Zenon DEF Drops, StoreTopic, NamedIn, WithName
  <2> QED BY <1>1, <1>2, <1>3, <2>2, Zenon
<1> QED BY <1>5, <1>6, Zenon

LEMMA DTypesLinks ==
    ASSUME DTypes, NEW w \in Workers,
           Dispatch(w) \/ RestartWorker(w) \/ \E c \in Channels : CollectWorkerMessage(w, c)
    PROVE  DTypes'
<1>1. CASE Dispatch(w)
  <2>1. UNCHANGED <<store, down, receiver, ghosts>>
    BY <1>1, Zenon DEF Dispatch
  <2>2. LinkTypes'
    <3>1. ASSUME NEW v \in Workers, NEW d \in Channels, NEW i \in 1 .. Len(up'[v][d])
          PROVE  up'[v][d][i].worker = v
      <4>1. \/ v = w /\ up'[v][d][i].worker = w
            \/ \E j \in 1 .. Len(up[v][d]) : up'[v][d][i] = up[v][d][j]
        <5>1. \A x \in Workers, e \in Channels : \A k \in 1 .. Len(up'[x][e]) :
                 \/ x = w /\ up'[x][e][k].worker = w /\ up'[x][e][k].seqNum = seqNum[w] + 1
                 \/ \E j \in 1 .. Len(up[x][e]) : up'[x][e][k] = up[x][e][j]
          BY <1>1, UpAppended, Zenon
        <5> QED BY <5>1, Zenon
      <4>2. \A j \in 1 .. Len(up[v][d]) : up[v][d][j].worker = v
        BY Zenon DEF DTypes, LinkTypes
      <4> QED BY <4>1, <4>2, Zenon
    <3>2. seqNum' \in [Workers -> Nat] /\ up' \in [Workers -> [Channels -> Seq(Topic)]]
      BY <1>1, UpAppended, Zenon
    <3>3. UNCHANGED <<storTopic, storWorker>>
      BY <2>1, Zenon DEF store
    <3>4. storTopic' \in TopicCaches /\ storWorker' \in NumberCaches
      BY <3>3, Zenon DEF DTypes, LinkTypes
    <3> QED BY <3>1, <3>2, <3>4, Zenon DEF LinkTypes
  <2>3. ReceiverTypes' /\ GhostTypes'
    BY <2>1, Zenon DEF DTypes, ReceiverTypes, GhostTypes, receiver, ghosts
  <2> QED BY <2>2, <2>3, Zenon DEF DTypes
<1>2. CASE RestartWorker(w)
  <2>1. seqNum' = [seqNum EXCEPT ![w] = 0] /\ UNCHANGED <<store, up, down, receiver, ghosts>>
    BY <1>2, Zenon DEF RestartWorker
  <2>2. LinkTypes'
    BY <2>1, Zenon DEF DTypes, LinkTypes, store
  <2>3. ReceiverTypes' /\ GhostTypes'
    BY <2>1, Zenon DEF DTypes, ReceiverTypes, GhostTypes, receiver, ghosts
  <2> QED BY <2>2, <2>3 DEF DTypes
<1>3. ASSUME NEW c \in Channels, CollectWorkerMessage(w, c) PROVE DTypes'
  <2>1. PICK t : t = Head(up[w][c])
    BY Zenon
  <2>2. /\ UNCHANGED <<seqNum, receiver, events, elements>>
        /\ up' = [up EXCEPT ![w][c] = Tail(@)] /\ up[w][c] # <<>>
        /\ t \in Topic /\ t.worker = w
        /\ Drops(t) \/ \E lost \in BOOLEAN : Relays(t, lost)
    BY <1>3, <2>1, CollectEffect
  <2>3. /\ up' \in [Workers -> [Channels -> Seq(Topic)]]
        /\ \A v \in Workers, d \in Channels : \A i \in 1 .. Len(up'[v][d]) :
              \E j \in 1 .. Len(up[v][d]) : up'[v][d][i] = up[v][d][j]
    BY <2>2, UpTail, Zenon
  <2>4. \A v \in Workers, d \in Channels : \A i \in 1 .. Len(up'[v][d]) : up'[v][d][i].worker = v
    <3>1. \A v \in Workers, d \in Channels : \A j \in 1 .. Len(up[v][d]) : up[v][d][j].worker = v
      BY Zenon DEF DTypes, LinkTypes
    <3> TAKE v \in Workers, d \in Channels
    <3> TAKE i \in 1 .. Len(up'[v][d])
    <3>2. PICK j \in 1 .. Len(up[v][d]) : up'[v][d][i] = up[v][d][j]
      BY <2>3, Zenon
    <3> QED BY <3>1, <3>2
  <2>5. t.name \in Names /\ t.seqNum \in Nat
    BY <2>2, Zenon DEF Topic
  <2>6. /\ storTopic \in TopicCaches /\ storWorker \in NumberCaches /\ seqNum' \in [Workers -> Nat]
    BY <2>2, Zenon DEF DTypes, LinkTypes
  <2>7. CASE Drops(t)
    <3>1. storTopic' \in TopicCaches
      BY <2>5, <2>6, <2>7, NameStored, Zenon DEF Drops
    <3>2. LinkTypes'
      BY <2>3, <2>4, <2>6, <2>7, <3>1, Zenon DEF LinkTypes, Drops
    <3>3. ReceiverTypes' /\ GhostTypes'
      BY <2>2, <2>7, Zenon DEF DTypes, ReceiverTypes, GhostTypes, receiver, Drops
    <3> QED BY <3>2, <3>3, Zenon DEF DTypes
  <2>8. ASSUME NEW lost \in BOOLEAN, Relays(t, lost) PROVE DTypes'
    <3>1. storTopic' \in TopicCaches
      <4>1. storTopic' = TopicIn(storTopic, t)
        BY <2>8, Zenon DEF Relays
      <4> QED BY <2>2, <2>6, <4>1, TopicStored, Zenon
    <3>2. storWorker' \in NumberCaches
      <4>1. storWorker \in Seq(Items(Workers, Nat)) /\ Distinct(storWorker)
        BY <2>6, Zenon DEF NumberCaches
      <4>2. /\ storWorker' \in Seq(Items(Workers, Nat))
            /\ PutsIn(storWorker', storWorker, WorkerCap, t.worker, t.seqNum)
        BY <2>2, <2>5, <2>8, <4>1, PutItem, BrokerAssumption, Zenon DEF Relays
      <4> QED BY <4>2, Zenon DEF PutsIn, NumberCaches
    <3>3. LinkTypes'
      BY <2>3, <2>4, <2>6, <3>1, <3>2, Zenon DEF LinkTypes
    <3>4. ReceiverTypes'
      <4>1. down' \in Seq(Topic)
        BY <2>2, <2>8, Appended, Zenon DEF DTypes, ReceiverTypes, Relays
      <4> QED BY <2>2, <4>1, Zenon DEF DTypes, ReceiverTypes, receiver
    <3>5. GhostTypes'
      <4>1. relayed' \in [Workers -> Seq(Topic)]
        <5>1. relayed \in [Workers -> Seq(Topic)]
          BY Zenon DEF DTypes, GhostTypes
        <5>2. Append(relayed[t.worker], t) \in Seq(Topic)
          BY <2>2, <5>1, Appended, Zenon
        <5> QED BY <2>2, <2>8, <5>1, <5>2, Zenon DEF Relays
      <4>2. last' \in [Names -> Topic \cup {NoTopic}]
        BY <2>2, <2>5, <2>8, Zenon DEF DTypes, GhostTypes, Relays
      <4>3. kept' \in BOOLEAN /\ fresh' \in BOOLEAN
        BY <2>8, Zenon DEF DTypes, GhostTypes, Relays
      <4> QED BY <2>2, <4>1, <4>2, <4>3, Zenon DEF DTypes, GhostTypes
    <3> QED BY <3>3, <3>4, <3>5, Zenon DEF DTypes
  <2> QED BY <2>2, <2>7, <2>8, Zenon
<1> QED BY <1>1, <1>2, <1>3, Zenon

\* The steps of the receiver, and those that lose what is under way.
LEMMA DTypesReceiver ==
    ASSUME DTypes,
           \/ CollectBrokerMessage \/ Reconnect \/ SendSync \/ SyncError \/ ReplySnapshot
           \/ RecvElement \/ RecvComplete \/ RestartBroker \/ RestartReceiver
    PROVE  DTypes'
<1>0. /\ LinkTypes /\ ReceiverTypes /\ GhostTypes
      /\ \A S : <<>> \in Seq(S)
  BY EmptyList, Zenon DEF DTypes
<1>1. CASE CollectBrokerMessage
  <2>1. PICK t : t = Head(down)
    BY Zenon
  <2>2. t \in Topic /\ Tail(down) \in Seq(Topic)
    BY <1>0, <1>1, <2>1, HeadAndTail, Zenon DEF CollectBrokerMessage, ReceiverTypes
  <2>3. t.worker \in Workers /\ t.seqNum \in Nat
    BY <2>2, Zenon DEF Topic
  <2>4. LinkTypes'
    <3>1. UNCHANGED <<storTopic, storWorker, seqNum, up>>
      BY <1>1, Zenon DEF CollectBrokerMessage, store
    <3> QED BY <1>0, <3>1, Zenon DEF LinkTypes
  <2>5. \/ UNCHANGED <<seen, events>>
        \/ seen' = [seen EXCEPT ![t.worker] = t.seqNum]
           /\ events' = [events EXCEPT ![t.worker] = Append(events[t.worker], t)]
    BY <1>1, <2>1, Zenon DEF CollectBrokerMessage
  <2>6. seen' \in [Workers -> Nat]
    BY <1>0, <2>3, <2>5, Zenon DEF ReceiverTypes
  <2>7. events' \in [Workers -> Seq(Topic)]
    <3>1. events \in [Workers -> Seq(Topic)]
      BY <1>0, Zenon DEF GhostTypes
    <3>2. Append(events[t.worker], t) \in Seq(Topic)
      BY <2>2, <2>3, <3>1, Appended, Zenon
    <3> QED BY <2>5, <3>1, <3>2, Zenon
  <2>8. ReceiverTypes'
    BY <1>0, <1>1, <2>2, <2>6, Zenon DEF CollectBrokerMessage, ReceiverTypes
  <2>9. GhostTypes'
    BY <1>0, <1>1, <2>7, Zenon DEF CollectBrokerMessage, GhostTypes
  <2> QED BY <2>4, <2>8, <2>9, Zenon DEF DTypes
<1>2. CASE Reconnect
  BY <1>0, <1>2, Zenon DEF Reconnect, DTypes, LinkTypes, ReceiverTypes, GhostTypes, store, receiver
<1>3. CASE SendSync
  <2>1. request' \in BOOLEAN
    BY <1>3, DeliveryAssumption, Zenon DEF SendSync
  <2> QED BY <1>0, <1>3, <2>1, Zenon DEF SendSync, DTypes, LinkTypes, ReceiverTypes, GhostTypes, store
<1>4. CASE SyncError
  BY <1>0, <1>4, Zenon DEF SyncError, DTypes, LinkTypes, ReceiverTypes, GhostTypes, store, ghosts
<1>5. CASE ReplySnapshot
  <2>1. PICK all : all = Append(Snapshot(Subscribed), Complete)
    BY Zenon
  <2>2. all \in Seq(Topic \cup {Complete})
    <3>1. Snapshot(Subscribed) \in Seq(Topic)
      BY <1>0, <1>5, SnapshotTopics, Zenon DEF ReplySnapshot, LinkTypes
    <3>2. Snapshot(Subscribed) \in Seq(Topic \cup {Complete})
      BY <3>1, Widened, Zenon
    <3> QED BY <2>1, <3>2, Appended, Zenon
  <2>3. PICK n \in 0 .. Len(all) : snap' = SubSeq(all, 1, n)
    BY <1>5, <2>1 DEF ReplySnapshot
  <2>4. snap' \in Seq(Topic \cup {Complete})
    BY <2>2, <2>3, Prefix, Zenon
  <2>5. LinkTypes' /\ ReceiverTypes'
    BY <1>0, <1>5, <2>4, Zenon DEF ReplySnapshot, LinkTypes, ReceiverTypes, store
  <2>6. GhostTypes'
    BY <1>0, <1>5, Zenon DEF ReplySnapshot, GhostTypes
  <2> QED BY <2>5, <2>6, Zenon DEF DTypes
<1>6. CASE RecvElement
  <2>1. PICK t : t = Head(snap)
    OBVIOUS
  <2>2. t \in Topic /\ Tail(snap) \in Seq(Topic \cup {Complete})
    BY <1>0, <1>6, <2>1, HeadAndTail DEF RecvElement, ReceiverTypes
  <2>3. t.worker \in Workers /\ t.seqNum \in Nat
    BY <2>2, Zenon DEF Topic
  <2>4. seen' = [seen EXCEPT ![t.worker] = t.seqNum] \/ seen' = seen
    BY <1>6, <2>1, Zenon DEF RecvElement
  <2>5. seen' \in [Workers -> Nat]
    BY <1>0, <2>3, <2>4, Zenon DEF ReceiverTypes
  <2>6. elements' = elements \cup {t}
    BY <1>6, <2>1, Zenon DEF RecvElement
  <2>7. LinkTypes' /\ ReceiverTypes'
    BY <1>0, <1>6, <2>2, <2>5, Zenon DEF RecvElement, LinkTypes, ReceiverTypes, store
  <2>8. GhostTypes'
    BY <1>0, <1>6, <2>2, <2>6, Zenon DEF RecvElement, GhostTypes
  <2> QED BY <2>7, <2>8, Zenon DEF DTypes
<1>7. CASE RecvComplete
  <2>1. Tail(snap) \in Seq(Topic \cup {Complete})
    BY <1>0, <1>7, HeadAndTail, Zenon DEF RecvComplete, ReceiverTypes
  <2> QED BY <1>0, <1>7, <2>1, Zenon DEF RecvComplete, DTypes, LinkTypes, ReceiverTypes, GhostTypes, store
<1>8. CASE RestartBroker
  <2>1. DOMAIN <<>> = {}
    OBVIOUS
  <2>2. storTopic' \in TopicCaches /\ storWorker' \in NumberCaches
    BY <1>0, <1>8, <2>1, Zenon DEF RestartBroker, TopicCaches, NumberCaches, Distinct
  <2>3. up' = [w \in Workers |-> [c \in Channels |-> <<>>]] /\ UNCHANGED seqNum
    BY <1>8, Zenon DEF RestartBroker
  <2>4. Len(<<>>) = 0
    BY EmptyList, Zenon
  <2>5. LinkTypes'
    BY <1>0, <2>2, <2>3, <2>4 DEF LinkTypes
  <2>6. ReceiverTypes'
    BY <1>0, <1>8, Zenon DEF RestartBroker, ReceiverTypes
  <2>7. GhostTypes'
    BY <1>0, <1>8, Zenon DEF RestartBroker, GhostTypes, None
  <2> QED BY <2>5, <2>6, <2>7 DEF DTypes
<1>9. CASE RestartReceiver
  <2>1. LinkTypes'
    BY <1>0, <1>9, Zenon DEF RestartReceiver, LinkTypes, store
  <2>2. ReceiverTypes'
    BY <1>0, <1>9, Zenon DEF RestartReceiver, ReceiverTypes
  <2>3. GhostTypes'
    BY <1>0, <1>9, Zenon DEF RestartReceiver, GhostTypes, None
  <2> QED BY <2>1, <2>2, <2>3 DEF DTypes
<1> QED BY <1>1, <1>2, <1>3, <1>4, <1>5, <1>6, <1>7, <1>8, <1>9, Zenon

LEMMA DTypesNext == DTypes /\ [DNext]_dvars => DTypes'
<1>1. ASSUME DTypes, UNCHANGED dvars PROVE DTypes'
  BY <1>1, Zenon DEF dvars, store, receiver, ghosts, DTypes, LinkTypes, ReceiverTypes, GhostTypes
<1>2. ASSUME DTypes, DNext PROVE DTypes'
  BY <1>2, DTypesLinks, DTypesReceiver, Zenon DEF DNext
<1> QED BY <1>1, <1>2, Zenon

LEMMA DTypesAlways == DSpec => []DTypes
BY DTypesInit, DTypesNext, PTL DEF DSpec

-----------------------------------------------------------------------------
(* Topics are accepted once, by the broker and by the receiver.            *)

\* Nothing relayed by this session of the broker is ahead of storWorker_.
Accepted ==
    \A w \in Workers : /\ Increasing(relayed[w])
                       /\ \A i \in DOMAIN relayed[w] : relayed[w][i].seqNum <= NumberIn(storWorker, w)

\* Nothing delivered is ahead of workerSeqNum_.
Seen ==
    \A w \in Workers : /\ Increasing(events[w])
                       /\ \A i \in DOMAIN events[w] : events[w][i].seqNum <= seen[w]

\* The steps that change what the broker holds.
LEMMA BrokerSteps ==
    ASSUME [DNext]_dvars
    PROVE  \/ UNCHANGED <<storTopic, storWorker, last, relayed>>
           \/ \E w \in Workers, c \in Channels : CollectWorkerMessage(w, c)
           \/ RestartBroker
<1>1. CASE UNCHANGED dvars
  BY <1>1, Zenon DEF dvars, store, ghosts
<1>2. ASSUME NEW w \in Workers, Dispatch(w) \/ RestartWorker(w)
      PROVE  UNCHANGED <<storTopic, storWorker, last, relayed>>
  BY <1>2, Zenon DEF Dispatch, RestartWorker, store, ghosts
<1>3. ASSUME \/ CollectBrokerMessage \/ Reconnect \/ SendSync \/ SyncError \/ ReplySnapshot
             \/ RecvElement \/ RecvComplete \/ RestartReceiver
      PROVE  UNCHANGED <<storTopic, storWorker, last, relayed>>
  BY <1>3, Zenon DEF CollectBrokerMessage, Reconnect, SendSync, SyncError, ReplySnapshot,
              RecvElement, RecvComplete, RestartReceiver, store, ghosts
<1> QED BY <1>1, <1>2, <1>3, Zenon DEF DNext

LEMMA LatestNext == DTypes /\ BackIsLatest /\ [DNext]_dvars => BackIsLatest'
<1> SUFFICES ASSUME DTypes, BackIsLatest, [DNext]_dvars PROVE BackIsLatest'
  BY Zenon
<1>1. CASE UNCHANGED <<storTopic, storWorker, last, relayed>>
  BY <1>1, Zenon DEF BackIsLatest, Back
<1>2. CASE RestartBroker
  <2>1. storTopic' = <<>> /\ DOMAIN <<>> = {}
    BY <1>2 DEF RestartBroker
  <2> QED BY <2>1, Zenon DEF BackIsLatest
<1>3. ASSUME NEW w \in Workers, NEW c \in Channels, CollectWorkerMessage(w, c)
      PROVE  BackIsLatest'
  <2>1. PICK t : t = Head(up[w][c])
    BY Zenon
  <2>2. t \in Topic /\ (Drops(t) \/ \E lost \in BOOLEAN : Relays(t, lost))
    BY <1>3, <2>1, CollectEffect
  <2>3. t.name \in Names /\ storTopic \in TopicCaches /\ last \in [Names -> Topic \cup {NoTopic}]
    BY <2>2, Zenon DEF Topic, DTypes, LinkTypes, GhostTypes
  <2> SUFFICES ASSUME NEW i \in DOMAIN storTopic', storTopic'[i].val # <<>>
               PROVE  Back(storTopic'[i].val) = last'[storTopic'[i].key]
    BY Zenon DEF BackIsLatest, Back
  <2>4. CASE Drops(t)
    <3>1. PICK j \in DOMAIN storTopic : storTopic'[i] = storTopic[j]
      <4>1. storTopic' = NamedIn(storTopic, t.name)
        BY <2>4, Zenon DEF Drops
      <4>2. \A k \in DOMAIN storTopic' : \/ storTopic'[k].val = <<>>
                                         \/ \E j \in DOMAIN storTopic : storTopic'[k] = storTopic[j]
        BY <2>3, <4>1, NameStored
      <4> QED BY <4>2, Zenon
    <3>2. last' = last
      BY <2>4, Zenon DEF Drops
    <3> QED BY <3>1, <3>2, Zenon DEF BackIsLatest
  <2>5. ASSUME NEW lost \in BOOLEAN, Relays(t, lost)
        PROVE  Back(storTopic'[i].val) = last'[storTopic'[i].key]
    <3>1. last' = [last EXCEPT ![t.name] = t]
      BY <2>5, Zenon DEF Relays
    <3>2. \/ storTopic'[i].key = t.name /\ Back(storTopic'[i].val) = t
          \/ storTopic'[i].key # t.name /\ \E j \in DOMAIN storTopic : storTopic'[i] = storTopic[j]
      <4>1. storTopic' = TopicIn(storTopic, t)
        BY <2>5, Zenon DEF Relays
      <4>2. EndsWith(storTopic', storTopic, t)
        BY <2>2, <2>3, <4>1, TopicStored, Zenon
      <4> QED BY <4>2, Zenon DEF EndsWith
    <3>3. CASE storTopic'[i].key = t.name /\ Back(storTopic'[i].val) = t
      BY <2>3, <3>1, <3>3, Zenon
    <3>4. CASE storTopic'[i].key # t.name /\ \E j \in DOMAIN storTopic : storTopic'[i] = storTopic[j]
      <4>1. PICK j \in DOMAIN storTopic : storTopic'[i] = storTopic[j]
        BY <3>4, Zenon
      <4>2. storTopic[j].key \in Names /\ storTopic[j].key # t.name
        BY <2>3, <3>4, <4>1, TopicCacheItems, Zenon
      <4>3. last'[storTopic[j].key] = last[storTopic[j].key]
        BY <2>3, <3>1, <4>2, Zenon
      <4> QED BY <4>1, <4>3, Zenon DEF BackIsLatest
    <3> QED BY <3>2, <3>3, <3>4, Zenon
  <2> QED BY <2>2, <2>4, <2>5, Zenon
<1> QED BY <1>1, <1>2, <1>3, BrokerSteps, Zenon

\* For any workers, channels, names and capacities, whatever is lost, evicted
\* or restarted: what storTopic_ has last for a name is the last topic that
\* storeTopic() accepted for it.
THEOREM StoredIsLatest == DSpec => []BackIsLatest
<1>1. DInit => BackIsLatest
  BY DEF DInit, BrInit, BackIsLatest
<1> QED BY <1>1, DTypesAlways, LatestNext, PTL DEF DSpec

\* A topic whose number is ahead of all those of a list continues it.
LEMMA OneMore ==
    ASSUME NEW q \in Seq(Topic), Increasing(q), NEW n \in Nat, NEW t \in Topic, t.seqNum > n,
           \A i \in DOMAIN q : q[i].seqNum <= n
    PROVE  /\ Increasing(Append(q, t))
           /\ \A i \in DOMAIN Append(q, t) : Append(q, t)[i].seqNum <= t.seqNum
<1>0. t.seqNum \in Nat
  BY Zenon DEF Topic
<1>1. PICK r : r = Append(q, t)
  BY Zenon
<1>2. Len(q) \in Nat /\ DOMAIN q = 1 .. Len(q) /\ \A i \in 1 .. Len(q) : q[i].seqNum \in Nat
  BY TopicsOf, Zenon
<1>3. /\ r \in Seq(Topic) /\ Len(r) = Len(q) + 1
      /\ r[Len(q) + 1] = t /\ \A i \in 1 .. Len(q) : r[i] = q[i]
  BY <1>1, Appended
<1>4. DOMAIN r = 1 .. Len(q) + 1
  BY <1>3, ListLength, Zenon
<1>5. ASSUME NEW i \in 1 .. Len(q) PROVE r[i].seqNum < t.seqNum
  <2>1. r[i].seqNum = q[i].seqNum /\ q[i].seqNum \in Nat /\ q[i].seqNum <= n
    BY <1>2, <1>3, Zenon
  <2> QED BY <1>0, <2>1
<1>6. Increasing(r)
  <2> SUFFICES ASSUME NEW i \in 1 .. Len(q) + 1, NEW j \in 1 .. Len(q) + 1, i < j
               PROVE  r[i].seqNum < r[j].seqNum
    BY <1>4, Zenon DEF Increasing
  <2>1. i \in 1 .. Len(q)
    BY <1>2
  <2>2. CASE j = Len(q) + 1
    BY <1>3, <1>5, <2>1, <2>2, Zenon
  <2>3. CASE j \in 1 .. Len(q)
    BY <1>2, <1>3, <2>1, <2>3, Zenon DEF Increasing
  <2> QED BY <1>2, <2>2, <2>3
<1>7. ASSUME NEW i \in 1 .. Len(q) + 1 PROVE r[i].seqNum <= t.seqNum
  <2>1. CASE i = Len(q) + 1
    BY <1>0, <1>3, <2>1
  <2>2. CASE i \in 1 .. Len(q)
    BY <1>0, <1>2, <1>3, <1>5, <2>2
  <2> QED BY <1>2, <2>1, <2>2
<1> QED BY <1>1, <1>4, <1>6, <1>7, Zenon

LEMMA AcceptedNext ==
    ASSUME AtMost(WorkerCap, Workers)
    PROVE  DTypes /\ Accepted /\ [DNext]_dvars => Accepted'
<1> SUFFICES ASSUME DTypes, Accepted, [DNext]_dvars PROVE Accepted'
  BY Zenon
<1>1. CASE UNCHANGED <<storTopic, storWorker, last, relayed>>
  BY <1>1, Zenon DEF Accepted, Increasing
<1>2. CASE RestartBroker
  <2>1. \A w \in Workers : relayed'[w] = <<>> /\ DOMAIN <<>> = {}
    BY <1>2 DEF RestartBroker, None
  <2> QED BY <2>1, Zenon DEF Accepted, Increasing
<1>3. ASSUME NEW w \in Workers, NEW c \in Channels, CollectWorkerMessage(w, c)
      PROVE  Accepted'
  <2>1. PICK t : t = Head(up[w][c])
    BY Zenon
  <2>2. t \in Topic /\ t.worker = w /\ (Drops(t) \/ \E lost \in BOOLEAN : Relays(t, lost))
    BY <1>3, <2>1, CollectEffect
  <2>3. t.seqNum \in Nat /\ storWorker \in NumberCaches /\ relayed \in [Workers -> Seq(Topic)]
    BY <2>2, Zenon DEF Topic, DTypes, LinkTypes, GhostTypes
  <2>4. CASE Drops(t)
    BY <2>4, Zenon DEF Drops, Accepted, Increasing
  <2>5. ASSUME NEW lost \in BOOLEAN, Relays(t, lost) PROVE Accepted'
    <3>1. /\ t.seqNum > NumberIn(storWorker, w)
          /\ storWorker' = Put(storWorker, WorkerCap, w, t.seqNum)
          /\ relayed' = [relayed EXCEPT ![w] = Append(relayed[w], t)]
      BY <2>2, <2>5, Zenon DEF Relays
    <3>2. /\ NumberIn(storWorker', w) = t.seqNum
          /\ \A v \in Workers \ {w} : NumberIn(storWorker', v) = NumberIn(storWorker, v)
      BY <2>3, <3>1, NumberPut
    <3> SUFFICES ASSUME NEW v \in Workers
                 PROVE  /\ Increasing(relayed'[v])
                        /\ \A i \in DOMAIN relayed'[v] : relayed'[v][i].seqNum <= NumberIn(storWorker', v)
      BY Zenon DEF Accepted, Increasing
    <3>3. /\ Increasing(relayed[v])
          /\ \A i \in DOMAIN relayed[v] : relayed[v][i].seqNum <= NumberIn(storWorker, v)
      BY Zenon DEF Accepted
    <3>4. CASE v # w
      BY <2>3, <3>1, <3>2, <3>3, <3>4, Zenon
    <3>5. CASE v = w
      <4>1. relayed'[v] = Append(relayed[w], t) /\ relayed[w] \in Seq(Topic)
        BY <2>3, <3>1, <3>5, Zenon
      <4>2. NumberIn(storWorker, w) \in Nat
        BY <2>3, NumberType, Zenon
      <4>3. /\ Increasing(Append(relayed[w], t))
            /\ \A i \in DOMAIN Append(relayed[w], t) : Append(relayed[w], t)[i].seqNum <= t.seqNum
        BY <2>2, <3>1, <3>3, <3>5, <4>1, <4>2, OneMore, Zenon
      <4> QED BY <3>2, <3>5, <4>1, <4>3, Zenon
    <3> QED BY <3>4, <3>5, Zenon
  <2> QED BY <2>2, <2>4, <2>5, Zenon
<1> QED BY <1>1, <1>2, <1>3, BrokerSteps, Zenon

\* As long as storWorker_ has room for every worker, a session of the broker
\* relays each topic of a worker at most once and in order, by however many
\* channels it arrives.
THEOREM RelaysOnce ==
    ASSUME AtMost(WorkerCap, Workers)
    PROVE  DSpec => []RelayedOnce
<1>1. DInit => Accepted
  BY DEF DInit, None, Accepted, Increasing
<1>2. Accepted => RelayedOnce
  BY Zenon DEF Accepted, RelayedOnce
<1> QED BY <1>1, <1>2, DTypesAlways, AcceptedNext, PTL DEF DSpec

\* Reading one of the receiver's lists: its head is a topic, or the end of
\* the snapshot.
LEMMA FirstOf ==
    ASSUME NEW S, NEW q \in Seq(S), q # <<>>
    PROVE  /\ Len(q) \in Nat \ {0} /\ Head(q) = q[1] /\ Head(q) \in S
           /\ Tail(q) \in Seq(S) /\ Len(Tail(q)) = Len(q) - 1
           /\ \A i \in 1 .. Len(q) - 1 : Tail(q)[i] = q[i + 1]
<1>1. Len(q) \in Nat \ {0}
  BY EmptyList
<1>2. /\ Head(q) \in S /\ Tail(q) \in Seq(S) /\ Len(Tail(q)) = Len(q) - 1
      /\ \A i \in 1 .. Len(Tail(q)) : Tail(q)[i] = q[i + 1]
  BY HeadAndTail, Zenon
<1>3. Head(q) = q[1]
  OBVIOUS
<1> QED BY <1>1, <1>2, <1>3, Zenon

\* workerSeqNum_ never decreases but in a new session.
LEMMA SeenGrows ==
    ASSUME DTypes, CollectBrokerMessage \/ RecvElement, NEW w \in Workers
    PROVE  seen'[w] \in Nat /\ seen[w] \in Nat /\ seen[w] <= seen'[w]
<1>0. seen \in [Workers -> Nat] /\ down \in Seq(Topic) /\ snap \in Seq(Topic \cup {Complete})
  BY Zenon DEF DTypes, ReceiverTypes
<1>1. PICK t \in Topic : \/ UNCHANGED seen
                         \/ t.seqNum > seen[t.worker] /\ seen' = [seen EXCEPT ![t.worker] = t.seqNum]
  <2>1. CASE CollectBrokerMessage
    <3>1. Head(down) \in Topic
      BY <1>0, <2>1, FirstOf, Zenon DEF CollectBrokerMessage
    <3>2. \/ UNCHANGED seen
          \/ /\ AcceptTopic(Head(down))
             /\ seen' = [seen EXCEPT ![Head(down).worker] = Head(down).seqNum]
      BY <2>1, Zenon DEF CollectBrokerMessage
    <3> QED BY <3>1, <3>2, Zenon DEF AcceptTopic
  <2>2. CASE RecvElement
    <3>1. Head(snap) \in Topic
      BY <1>0, <2>2, FirstOf DEF RecvElement
    <3> QED BY <2>2, <3>1, Zenon DEF RecvElement, AcceptTopic
  <2> QED BY <2>1, <2>2, Zenon
<1>2. t.worker \in Workers /\ t.seqNum \in Nat
  BY Zenon DEF Topic
<1> QED BY <1>0, <1>1, <1>2

LEMMA SeenNext == DTypes /\ Seen /\ [DNext]_dvars => Seen'
<1> SUFFICES ASSUME DTypes, Seen, [DNext]_dvars PROVE Seen'
  BY Zenon
<1>0. /\ seen \in [Workers -> Nat] /\ down \in Seq(Topic) /\ snap \in Seq(Topic \cup {Complete})
      /\ events \in [Workers -> Seq(Topic)]
  BY Zenon DEF DTypes, ReceiverTypes, GhostTypes
<1>1. ASSUME UNCHANGED <<seen, events>> PROVE Seen'
  BY <1>1, Zenon DEF Seen, Increasing
<1>2. CASE CollectBrokerMessage
  <2>1. PICK t : t = Head(down)
    BY Zenon
  <2>2. t \in Topic
    BY <1>0, <1>2, <2>1, FirstOf, Zenon DEF CollectBrokerMessage
  <2>3. t.worker \in Workers /\ t.seqNum \in Nat
    BY <2>2, Zenon DEF Topic
  <2>4. CASE ~AcceptTopic(t)
    BY <1>1, <1>2, <2>1, <2>4, Zenon DEF CollectBrokerMessage
  <2>5. CASE AcceptTopic(t)
    <3>1. /\ seen' = [seen EXCEPT ![t.worker] = t.seqNum]
          /\ events' = [events EXCEPT ![t.worker] = Append(events[t.worker], t)]
      BY <1>2, <2>1, <2>5, Zenon DEF CollectBrokerMessage
    <3> SUFFICES ASSUME NEW v \in Workers
                 PROVE  /\ Increasing(events'[v])
                        /\ \A i \in DOMAIN events'[v] : events'[v][i].seqNum <= seen'[v]
      BY Zenon DEF Seen, Increasing
    <3>2. Increasing(events[v]) /\ \A i \in DOMAIN events[v] : events[v][i].seqNum <= seen[v]
      BY Zenon DEF Seen
    <3>3. CASE v # t.worker
      BY <1>0, <3>1, <3>2, <3>3, Zenon
    <3>4. CASE v = t.worker
      <4>1. events'[v] = Append(events[v], t) /\ seen'[v] = t.seqNum
        BY <1>0, <2>3, <3>1, <3>4, Zenon
      <4>2. t.seqNum > seen[v] /\ seen[v] \in Nat /\ events[v] \in Seq(Topic)
        BY <1>0, <2>5, <3>4, Zenon DEF AcceptTopic
      <4> QED BY <2>2, <3>2, <4>1, <4>2, OneMore, Zenon
    <3> QED BY <3>3, <3>4, Zenon
  <2> QED BY <2>4, <2>5, Zenon
<1>3. CASE RecvElement
  <2>1. UNCHANGED events
    BY <1>3, Zenon DEF RecvElement
  <2> SUFFICES ASSUME NEW v \in Workers
               PROVE  /\ Increasing(events'[v])
                      /\ \A i \in DOMAIN events'[v] : events'[v][i].seqNum <= seen'[v]
    BY DEF Seen, Increasing
  <2>2. seen'[v] \in Nat /\ seen[v] \in Nat /\ seen[v] <= seen'[v]
    BY <1>3, SeenGrows
  <2>3. Increasing(events[v]) /\ \A i \in DOMAIN events[v] : events[v][i].seqNum <= seen[v]
    BY DEF Seen
  <2>4. \A i \in DOMAIN events[v] : events[v][i].seqNum \in Nat
    BY <1>0, TopicsOf, Zenon
  <2> QED BY <2>1, <2>2, <2>3, <2>4
<1>4. CASE RestartReceiver
  <2>1. \A v \in Workers : events'[v] = <<>> /\ DOMAIN <<>> = {}
    BY <1>4 DEF RestartReceiver, None
  <2> QED BY <2>1, Zenon DEF Seen, Increasing
<1>5. ASSUME NEW w \in Workers,
             Dispatch(w) \/ RestartWorker(w) \/ \E c \in Channels : CollectWorkerMessage(w, c)
      PROVE  UNCHANGED <<seen, events>>
  BY <1>5, Zenon DEF Dispatch, RestartWorker, CollectWorkerMessage, receiver, ghosts
<1>6. ASSUME \/ Reconnect \/ SendSync \/ SyncError \/ ReplySnapshot \/ RecvComplete \/ RestartBroker
      PROVE  UNCHANGED <<seen, events>>
  BY <1>6, Zenon DEF Reconnect, SendSync, SyncError, ReplySnapshot, RecvComplete, RestartBroker,
              receiver, ghosts
<1>7. CASE UNCHANGED dvars
  BY <1>1, <1>7, Zenon DEF dvars, receiver, ghosts
<1> QED BY <1>1, <1>2, <1>3, <1>4, <1>5, <1>6, <1>7, Zenon DEF DNext

\* For any workers, channels and capacities, and any restarts and losses: a
\* session of a worker gives each topic at most once by a Delivery event and
\* in order, snapshots in between included.
THEOREM DeliversOnce == DSpec => []DeliveredOnce
<1>1. DInit => Seen
  BY DEF DInit, None, Seen, Increasing
<1>2. Seen => DeliveredOnce
  BY Zenon DEF Seen, DeliveredOnce
<1> QED BY <1>1, <1>2, DTypesAlways, SeenNext, PTL DEF DSpec
=============================================================================
