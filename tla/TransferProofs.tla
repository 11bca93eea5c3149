--------------------------- MODULE TransferProofs ---------------------------
(***************************************************************************)
(* Theorems about objects that threads pass on to each other: the strings  *)
(* of a Uuid, and the Parts of a message.                                  *)
(***************************************************************************)
EXTENDS Uuids, Transfer, TLAPS

-----------------------------------------------------------------------------
(* StringsTrue, for any number of objects and threads: a thread that makes *)
(* a string is alone with it, and has made all but the halves still to be  *)
(* written.                                                                *)

ITypeOK ==
    /\ bytes \in [Uuids -> UuidBytes]
    /\ cached \in [Uuids -> BOOLEAN]
    /\ srepr \in [Uuids -> [1 .. 2 -> UuidBytes]]
    /\ reprMux \in [Uuids -> Readers \cup {Nobody}]
    /\ halves \in [Uuids -> 0 .. 2]
    /\ view \in [Readers -> SUBSET Uuids]

\* Strings that are read are kept, those kept are whole, and the one being made
\* is neither.
Made ==
    \A u \in Uuids :
        /\ \A t \in Readers : u \in view[t] => cached[u]
        /\ cached[u] => reprMux[u] = Nobody /\ \A i \in 1 .. 2 : srepr[u][i] = bytes[u]
        /\ reprMux[u] # Nobody => \A i \in 1 .. 2 : i > halves[u] => srepr[u][i] = bytes[u]

UuidsInv == ITypeOK /\ Made

-----------------------------------------------------------------------------
LEMMA UuidsInit == IInit => UuidsInv
BY UuidsAssumption DEF IInit, UuidsInv, ITypeOK, Made

\* The operations of the owner.
LEMMA ChangeSteps ==
    ASSUME UuidsInv, NEW t \in Readers, NEW u \in Uuids,
           (\E v \in Uuids : AssignUuid(t, u, v)) \/ (\E b \in UuidBytes : FromBytes(t, u, b))
    PROVE UuidsInv'
<1>1. ASSUME NEW v \in Uuids, AssignUuid(t, u, v) PROVE UuidsInv'
    <2>1. ITypeOK'
        BY <1>1, Zenon DEF AssignUuid, UuidsInv, ITypeOK
    <2>2. Made'
        BY <1>1 DEF AssignUuid, Changes, UuidsInv, ITypeOK, Made
    <2> QED BY <2>1, <2>2, Zenon DEF UuidsInv
<1>2. ASSUME NEW b \in UuidBytes, FromBytes(t, u, b) PROVE UuidsInv'
    <2>1. PICK s \in [1 .. 2 -> UuidBytes] : srepr' = [srepr EXCEPT ![u] = s]
        BY <1>2, Zenon DEF FromBytes
    <2>2. ITypeOK'
        BY <1>2, <2>1, Zenon DEF FromBytes, UuidsInv, ITypeOK
    <2>3. Made'
        BY <1>2, <2>1 DEF FromBytes, Changes, UuidsInv, ITypeOK, Made
    <2> QED BY <2>2, <2>3, Zenon DEF UuidsInv
<1> QED BY <1>1, <1>2, Zenon

\* The operations of those who read.
LEMMA ReadSteps ==
    ASSUME UuidsInv, NEW t \in Readers, NEW u \in Uuids, ToString(t, u) \/ DropView(t, u)
    PROVE UuidsInv'
<1>1. CASE ToString(t, u) /\ cached[u]
    <2>1. view' = [view EXCEPT ![t] = @ \cup {u}] /\ UNCHANGED <<bytes, cached, srepr, reprMux, halves>>
        BY <1>1, Zenon DEF ToString
    <2>2. ITypeOK'
        BY <2>1, Zenon DEF UuidsInv, ITypeOK
    <2>3. Made'
        BY <1>1, <2>1 DEF UuidsInv, ITypeOK, Made
    <2> QED BY <2>2, <2>3, Zenon DEF UuidsInv
<1>2. CASE ToString(t, u) /\ ~cached[u]
    <2>1. /\ reprMux' = [reprMux EXCEPT ![u] = t] /\ halves' = [halves EXCEPT ![u] = 2]
          /\ UNCHANGED <<bytes, cached, srepr, view>>
        BY <1>2, Zenon DEF ToString
    <2>2. ITypeOK'
        BY <2>1 DEF UuidsInv, ITypeOK
    <2>3. Made'
        BY <1>2, <2>1 DEF UuidsInv, ITypeOK, Made
    <2> QED BY <2>2, <2>3 DEF UuidsInv
<1>3. CASE DropView(t, u)
    BY <1>3 DEF DropView, UuidsInv, ITypeOK, Made
<1> QED BY <1>1, <1>2, <1>3, Zenon

\* cacheSrepr() at work.
LEMMA CacheSteps ==
    ASSUME UuidsInv, NEW t \in Readers, NEW u \in Uuids, WriteHalf(t, u) \/ Cached(t, u)
    PROVE UuidsInv'
<1>0. reprMux[u] = t => reprMux[u] # Nobody
    BY UuidsAssumption, Zenon
<1>1. CASE WriteHalf(t, u)
    <2>1. halves[u] \in 1 .. 2 /\ bytes[u] \in UuidBytes
        BY <1>1 DEF WriteHalf, UuidsInv, ITypeOK
    <2>2. ITypeOK'
        BY <1>1, <2>1 DEF WriteHalf, UuidsInv, ITypeOK
    <2>3. \A w \in Uuids, i \in 1 .. 2 :
            srepr'[w][i] = IF w = u /\ i = halves[u] THEN bytes[u] ELSE srepr[w][i]
        BY <1>1, <2>1, Zenon DEF WriteHalf, UuidsInv, ITypeOK
    <2>4. Made'
        BY <1>0, <1>1, <2>1, <2>3 DEF WriteHalf, UuidsInv, ITypeOK, Made
    <2> QED BY <2>2, <2>4 DEF UuidsInv
<1>2. CASE Cached(t, u)
    <2>1. ITypeOK'
        BY <1>2 DEF Cached, UuidsInv, ITypeOK
    <2>2. \A i \in 1 .. 2 : srepr[u][i] = bytes[u]
        BY <1>0, <1>2 DEF Cached, UuidsInv, Made
    <2>3. Made'
        BY <1>2, <2>2 DEF Cached, UuidsInv, ITypeOK, Made
    <2> QED BY <2>1, <2>3 DEF UuidsInv
<1> QED BY <1>1, <1>2, Zenon

\* What toString() gives stands whole for the bytes of its Uuid while it is
\* read, for any number of objects and of threads that ask.
THEOREM StringsAreTrue == ISpec => []StringsTrue
<1>1. ASSUME UuidsInv, [INext]_ivars PROVE UuidsInv'
    <2>1. CASE UNCHANGED ivars
        BY <1>1, <2>1, Zenon DEF ivars, UuidsInv, ITypeOK, Made
    <2>2. CASE INext
        BY <1>1, <2>2, ChangeSteps, ReadSteps, CacheSteps, Zenon DEF INext
    <2> QED BY <1>1, <2>1, <2>2, Zenon
<1>2. UuidsInv => StringsTrue
    BY Zenon DEF UuidsInv, Made, StringsTrue
<1> QED BY <1>1, <1>2, UuidsInit, PTL DEF ISpec

-----------------------------------------------------------------------------
(* The messages of zmq::Socket.                                            *)

Held == Values \cup {Blank}
Frame == [buf : Buffers, more : BOOLEAN]

\* What the variables are, and how many frames the calls at work have made.
Shapes ==
    /\ msg \in [Parts -> Buffers \cup {NoBuffer}] /\ content \in [Buffers -> Held]
    /\ pipe \in Seq(Frame) /\ unsent \in Seq(Frame)
    /\ calls \in Seq(Held \X Held)
    /\ sent \in {0, 1} /\ rcvd \in {0, 1} /\ Len(unsent) = sent
    /\ 2 * Len(calls) = Len(pipe) + rcvd + 2 * sent

\* A buffer is in one Part or in one frame.
OneOwner(m, u, p) ==
    /\ \A v, w \in Parts : m[v] = m[w] /\ m[v] # NoBuffer => v = w
    /\ \A v \in Parts, i \in 1 .. Len(p) : m[v] # p[i].buf
    /\ \A i, j \in 1 .. Len(p) : p[i].buf = p[j].buf => i = j
    /\ \A i \in 1 .. Len(u) : /\ \A v \in Parts : m[v] # u[i].buf
                              /\ \A j \in 1 .. Len(p) : u[i].buf # p[j].buf

\* Frames hold what the calls of send() were given, counted from the first
\* Part that recv() has not gone through.
InPipe ==
    \A j \in 1 .. Len(calls) :
        /\ 2 * j - 1 - rcvd \in 1 .. Len(pipe) => content[pipe[2 * j - 1 - rcvd].buf] = calls[j][1]
        /\ 2 * j - rcvd \in 1 .. Len(pipe) => content[pipe[2 * j - rcvd].buf] = calls[j][2]
InRecv == rcvd = 1 => Has(In[1]) /\ content[msg[In[1]]] = calls[1][1]
InSend ==
    sent = 1 => /\ Has(Out[2])
                /\ content[unsent[1].buf] = calls[Len(calls)][1]
                /\ content[msg[Out[2]]] = calls[Len(calls)][2]

TransferInv == Shapes /\ OneOwner(msg, unsent, pipe) /\ InPipe /\ InRecv /\ InSend /\ got = wanted

\* A buffer that a Part or a frame has.
Owned(m, u, p, b) ==
    \/ \E v \in Parts : m[v] = b
    \/ \E i \in 1 .. Len(p) : p[i].buf = b
    \/ \E i \in 1 .. Len(u) : u[i].buf = b

\* Parts and frames as they may be at any time.
Places(m, u, p) ==
    /\ m \in [Parts -> Buffers \cup {NoBuffer}]
    /\ u \in Seq(Frame) /\ Len(u) \in {0, 1} /\ p \in Seq(Frame)
    /\ OneOwner(m, u, p)

\* What Owners() counts.
Count(m, u, p, b) ==
    Cardinality({v \in Parts : m[v] = b}) + Cardinality({i \in DOMAIN (u \o p) : (u \o p)[i].buf = b})

\* The Parts' names differ.
LEMMA PartNames ==
    /\ Out[1] = "token" /\ Out[2] = "operation" /\ In[1] = "tok" /\ In[2] = "oper"
    /\ Len(Out) = 2 /\ Len(In) = 2
    /\ Parts = {"token", "operation", "tok", "oper"}
BY Zenon DEF Out, In, Parts

\* Cardinality of a set with at most one element.
LEMMA NoneCounted == Cardinality({}) = 0
<1> DEFINE D(f, T) == IF T = {} THEN 0 ELSE 1 + f[T \ {CHOOSE x : x \in T}]
<1> DEFINE CS == CHOOSE f : f = [T \in SUBSET {} |-> D(f, T)]
<1> DEFINE g == [T \in SUBSET {} |-> 0]
<1>1. g = [T \in SUBSET {} |-> D(g, T)]
  BY Zenon
<1>2. CS = [T \in SUBSET {} |-> D(CS, T)]
  <2> HIDE DEF D, g
  <2> QED BY <1>1, Zenon
<1>3. CS[{}] = 0
  <2> HIDE DEF CS
  <2> QED BY <1>2, Zenon
<1> QED BY <1>3, Zenon DEF Cardinality

LEMMA OneCounted == ASSUME NEW e PROVE Cardinality({e}) = 1
<1> DEFINE D(f, T) == IF T = {} THEN 0 ELSE 1 + f[T \ {CHOOSE x : x \in T}]
<1> DEFINE CS == CHOOSE f : f = [T \in SUBSET {e} |-> D(f, T)]
<1> DEFINE g == [T \in SUBSET {e} |-> IF T = {} THEN 0 ELSE 1]
<1>0. \A T \in SUBSET {e} : T = {} \/ (T = {e} /\ T \ {CHOOSE x : x \in T} = {})
  BY Zenon
<1>1. g = [T \in SUBSET {e} |-> D(g, T)]
  BY <1>0
<1>2. CS = [T \in SUBSET {e} |-> D(CS, T)]
  <2> HIDE DEF D, g
  <2> QED BY <1>1, Zenon
<1>3. CS[{}] = 0 /\ CS[{e}] = 1
  <2> HIDE DEF CS
  <2>1. CS[{}] = 0
    BY <1>2, Zenon
  <2>2. {e} # {} /\ {e} \ {CHOOSE x : x \in {e}} = {}
    BY <1>0, Zenon
  <2>3. CS[{e}] = D(CS, {e})
    BY <1>2, Zenon
  <2> QED BY <2>1, <2>2, <2>3
<1> QED BY <1>3, Zenon DEF Cardinality

LEMMA AtMostOne ==
    ASSUME NEW S, \A x, y \in S : x = y
    PROVE  /\ Cardinality(S) \in {0, 1}
           /\ Cardinality(S) = 0 <=> S = {}
<1>1. CASE S = {}
  BY <1>1, NoneCounted, Zenon
<1>2. CASE S # {}
  <2>1. PICK e : S = {e}
    BY <1>2
  <2> QED BY <1>2, <2>1, OneCounted
<1> QED BY <1>1, <1>2, Zenon

\* Where a buffer has one owner, Owners() counts at most one, and none exactly when nobody has it.
LEMMA OwnersCount ==
    ASSUME NEW m, NEW u, NEW p, Places(m, u, p), NEW b \in Buffers
    PROVE  Count(m, u, p, b) \in {0, 1} /\ (Count(m, u, p, b) = 0 <=> ~Owned(m, u, p, b))
<1> DEFINE A == {v \in Parts : m[v] = b}
           B == {i \in DOMAIN (u \o p) : (u \o p)[i].buf = b}
<1>1. /\ DOMAIN (u \o p) = 1 .. Len(u) + Len(p)
      /\ \A i \in 1 .. Len(u) + Len(p) :
             (u \o p)[i] = IF i <= Len(u) THEN u[i] ELSE p[i - Len(u)]
  BY DEF Places
<1>2. Len(p) \in Nat /\ Len(u) \in {0, 1}
  BY DEF Places
<1>3. \A v, w \in A : v = w
  BY TransferAssumption DEF OneOwner, Places
<1>a. ASSUME NEW i \in B
      PROVE  \/ i = 1 /\ Len(u) = 1 /\ u[1].buf = b
             \/ i - Len(u) \in 1 .. Len(p) /\ p[i - Len(u)].buf = b
  BY <1>1, <1>2
<1>4. ASSUME NEW i \in B, NEW j \in B PROVE i = j
  <2> DEFINE k == i - Len(u)
             n == j - Len(u)
  <2>1. i \in Nat /\ j \in Nat
    BY <1>1, <1>2
  <2>2. CASE k \in 1 .. Len(p) /\ n \in 1 .. Len(p) /\ p[k].buf = b /\ p[n].buf = b
    <3>1. k = n
      BY <2>2, Zenon DEF OneOwner, Places
    <3> QED BY <2>1, <3>1, <1>2
  <2>3. CASE i = 1 /\ j = 1
    BY <2>3, Zenon
  <2>4. CASE Len(u) = 1 /\ u[1].buf = b /\ \E z \in 1 .. Len(p) : p[z].buf = b
    BY <2>4 DEF OneOwner, Places
  <2> QED BY <1>a, <2>2, <2>3, <2>4, Zenon
<1>5. ASSUME NEW v \in A, NEW i \in B PROVE FALSE
  <2>1. CASE Len(u) = 1 /\ u[1].buf = b
    BY <2>1 DEF OneOwner, Places
  <2>2. CASE i - Len(u) \in 1 .. Len(p) /\ p[i - Len(u)].buf = b
    BY <2>2, Zenon DEF OneOwner, Places
  <2> QED BY <1>a, <2>1, <2>2, Zenon
<1>6. Owned(m, u, p, b) <=> ~(A = {} /\ B = {})
  <2>1. ASSUME NEW i \in 1 .. Len(p), p[i].buf = b PROVE B # {}
    <3>1. i + Len(u) \in B
      BY <2>1, <1>1, <1>2
    <3> QED BY <3>1, Zenon
  <2>2. ASSUME NEW i \in 1 .. Len(u), u[i].buf = b PROVE B # {}
    <3>1. i \in B
      BY <2>2, <1>1, <1>2
    <3> QED BY <3>1, Zenon
  <2>3. ASSUME NEW i \in B PROVE Owned(m, u, p, b)
    BY <2>3, <1>1, <1>2 DEF Owned
  <2> QED BY <2>1, <2>2, <2>3, Zenon DEF Owned
<1>7. Count(m, u, p, b) = Cardinality(A) + Cardinality(B)
  BY Zenon DEF Count
<1> HIDE DEF A, B
<1>8. /\ Cardinality(A) \in {0, 1} /\ (Cardinality(A) = 0 <=> A = {})
      /\ Cardinality(B) \in {0, 1} /\ (Cardinality(B) = 0 <=> B = {})
  BY <1>3, <1>4, AtMostOne, Zenon
<1> QED BY <1>5, <1>6, <1>7, <1>8

LEMMA JoinedLists ==
    ASSUME NEW S, NEW p \in Seq(S), NEW u \in Seq(S)
    PROVE  /\ p \o u \in Seq(S) /\ Len(p \o u) = Len(p) + Len(u)
           /\ \A i \in 1 .. Len(p) : (p \o u)[i] = p[i]
           /\ \A i \in Len(p) + 1 .. Len(p) + Len(u) : (p \o u)[i] = u[i - Len(p)]
OBVIOUS

LEMMA OneMore ==
    ASSUME NEW S, NEW p \in Seq(S), NEW u \in Seq(S), Len(u) = 1
    PROVE  /\ p \o u \in Seq(S) /\ Len(p \o u) = Len(p) + 1 /\ Len(p) \in Nat
           /\ \A i \in 1 .. Len(p) : (p \o u)[i] = p[i]
           /\ (p \o u)[Len(p) + 1] = u[1]
<1>1. Len(p) \in Nat
  OBVIOUS
<1>2. Len(p) + 1 \in Len(p) + 1 .. Len(p) + Len(u) /\ (Len(p) + 1) - Len(p) = 1
  BY <1>1
<1> QED BY <1>1, <1>2, JoinedLists

LEMMA OneThenOne ==
    ASSUME NEW S, NEW p \in Seq(S), NEW u \in Seq(S), Len(u) = 1, NEW f \in S
    PROVE  LET q == p \o u \o <<f>> IN
           /\ q \in Seq(S) /\ Len(q) = Len(p) + 2 /\ Len(p) \in Nat
           /\ \A i \in 1 .. Len(p) : q[i] = p[i]
           /\ q[Len(p) + 1] = u[1] /\ q[Len(p) + 2] = f
<1> DEFINE r == p \o u
           w == <<f>>
<1>1. /\ r \in Seq(S) /\ Len(r) = Len(p) + 1 /\ Len(p) \in Nat
      /\ \A i \in 1 .. Len(p) : r[i] = p[i]
      /\ r[Len(p) + 1] = u[1]
  BY OneMore, Zenon
<1>2. w \in Seq(S) /\ Len(w) = 1 /\ w[1] = f
  OBVIOUS
<1> HIDE DEF r, w
<1>3. /\ r \o w \in Seq(S) /\ Len(r \o w) = Len(r) + 1
      /\ \A i \in 1 .. Len(r) : (r \o w)[i] = r[i]
      /\ (r \o w)[Len(r) + 1] = w[1]
  BY <1>1, <1>2, OneMore
<1>4. /\ \A i \in 1 .. Len(p) : i \in 1 .. Len(r)
      /\ Len(p) + 1 \in 1 .. Len(r) /\ Len(r) + 1 = Len(p) + 2
  BY <1>1
<1>5. /\ r \o w \in Seq(S) /\ Len(r \o w) = Len(p) + 2
      /\ \A i \in 1 .. Len(p) : (r \o w)[i] = p[i]
      /\ (r \o w)[Len(p) + 1] = u[1] /\ (r \o w)[Len(p) + 2] = f
  BY <1>1, <1>2, <1>3, <1>4, Zenon
<1> QED BY <1>1, <1>5, Zenon DEF r, w

LEMMA FrameBuffer ==
    ASSUME NEW q \in Seq(Frame), NEW i \in 1 .. Len(q)
    PROVE  q[i].buf \in Buffers /\ q[i].buf # NoBuffer
<1>1. q[i] \in Frame
  OBVIOUS
<1>2. q[i].buf \in Buffers
  BY <1>1, Zenon DEF Frame
<1> QED BY <1>2, TransferAssumption, Zenon

\* Such a place is left by each thing that is done to Parts and frames: a new
\* message for a Part, ...
LEMMA PlacedKeeps ==
    ASSUME NEW m, NEW u, NEW p, Places(m, u, p), NEW v \in Parts,
           NEW b \in Buffers, ~Owned(m, u, p, b)
    PROVE  Places([m EXCEPT ![v] = b], u, p)
BY TransferAssumption, Zenon DEF Places, OneOwner, Owned

\* ... a move from one to another, ...
LEMMA MovedKeeps ==
    ASSUME NEW m, NEW u, NEW p, Places(m, u, p), NEW v \in Parts, NEW w \in Parts, v # w
    PROVE  Places([m EXCEPT ![v] = m[w], ![w] = NoBuffer], u, p)
<1> DEFINE n == [m EXCEPT ![v] = m[w], ![w] = NoBuffer]
<1>1. /\ n \in [Parts -> Buffers \cup {NoBuffer}]
      /\ n[v] = m[w] /\ n[w] = NoBuffer
      /\ \A z \in Parts \ {v, w} : n[z] = m[z]
  BY Zenon DEF Places
<1>2. \A i \in 1 .. Len(p) : p[i].buf # NoBuffer
  BY FrameBuffer, Zenon DEF Places
<1>3. \A i \in 1 .. Len(u) : u[i].buf # NoBuffer
  BY FrameBuffer, Zenon DEF Places
<1> HIDE DEF n
<1>4. OneOwner(n, u, p)
  BY <1>1, <1>2, <1>3 DEF Places, OneOwner
<1> QED BY <1>1, <1>4, Zenon DEF Places, n

\* ... the first Part of a message sent, ...
LEMMA SentMoreKeeps ==
    ASSUME NEW m, NEW p, Places(m, <<>>, p), NEW v \in Parts, m[v] # NoBuffer
    PROVE  Places([m EXCEPT ![v] = NoBuffer], <<[buf |-> m[v], more |-> TRUE]>>, p)
<1> DEFINE n == [m EXCEPT ![v] = NoBuffer]
           f == [buf |-> m[v], more |-> TRUE]
           u == <<f>>
<1>1. /\ n \in [Parts -> Buffers \cup {NoBuffer}] /\ n[v] = NoBuffer
      /\ \A z \in Parts \ {v} : n[z] = m[z]
      /\ m[v] \in Buffers
  BY Zenon DEF Places
<1>2. f \in Frame /\ f.buf = m[v]
  BY <1>1, Zenon DEF Frame
<1> HIDE DEF n, f
<1>3. u \in Seq(Frame) /\ Len(u) = 1 /\ u[1] = f
  BY <1>2
<1>4. \A i \in 1 .. Len(p) : p[i].buf # NoBuffer
  BY FrameBuffer, Zenon DEF Places
<1> HIDE DEF u
<1>5. OneOwner(n, u, p)
  BY <1>1, <1>2, <1>3, <1>4 DEF Places, OneOwner
<1> QED BY <1>1, <1>3, <1>5, Zenon DEF Places, n, u, f

\* ... the last one, with which the message goes, ...
LEMMA SentLastKeeps ==
    ASSUME NEW m, NEW u, NEW p, Places(m, u, p), Len(u) = 1, NEW v \in Parts, m[v] # NoBuffer
    PROVE  Places([m EXCEPT ![v] = NoBuffer], <<>>, p \o u \o <<[buf |-> m[v], more |-> FALSE]>>)
<1> DEFINE n == [m EXCEPT ![v] = NoBuffer]
           f == [buf |-> m[v], more |-> FALSE]
           q == p \o u \o <<f>>
<1>1. /\ n \in [Parts -> Buffers \cup {NoBuffer}] /\ n[v] = NoBuffer
      /\ \A z \in Parts \ {v} : n[z] = m[z]
      /\ m[v] \in Buffers
  BY Zenon DEF Places
<1>2. f \in Frame /\ f.buf = m[v]
  BY <1>1, Zenon DEF Frame
<1> HIDE DEF n, f
<1>3. /\ q \in Seq(Frame) /\ Len(q) = Len(p) + 2 /\ Len(p) \in Nat
      /\ \A i \in 1 .. Len(p) : q[i] = p[i]
      /\ q[Len(p) + 1] = u[1] /\ q[Len(p) + 2] = f
  BY <1>2, OneThenOne DEF Places
<1>4. \A i \in 1 .. Len(p) : p[i].buf # NoBuffer
  BY FrameBuffer, Zenon DEF Places
<1>5. 1 \in 1 .. Len(u) /\ u[1].buf # NoBuffer
  <2>1. 1 \in 1 .. Len(u)
    OBVIOUS
  <2> QED BY <2>1, FrameBuffer, Zenon DEF Places
<1> HIDE DEF q
<1>6. \A i \in 1 .. Len(q) :
         \/ i \in 1 .. Len(p) /\ q[i].buf = p[i].buf
         \/ i = Len(p) + 1 /\ q[i].buf = u[1].buf
         \/ i = Len(p) + 2 /\ q[i].buf = m[v]
  BY <1>2, <1>3
<1>7. /\ \A z \in Parts : m[z] # u[1].buf
      /\ \A i \in 1 .. Len(p) : p[i].buf # u[1].buf
      /\ \A z \in Parts, i \in 1 .. Len(p) : m[z] # p[i].buf
      /\ \A i, j \in 1 .. Len(p) : p[i].buf = p[j].buf => i = j
      /\ \A z, w \in Parts : m[z] = m[w] /\ m[z] # NoBuffer => z = w
  BY DEF Places, OneOwner
<1>8. ASSUME NEW z \in Parts, NEW i \in 1 .. Len(q) PROVE n[z] # q[i].buf
  BY <1>1, <1>4, <1>5, <1>6, <1>7
<1>9. ASSUME NEW i \in 1 .. Len(q), NEW j \in 1 .. Len(q), q[i].buf = q[j].buf PROVE i = j
  BY <1>6, <1>7, <1>9
<1>10. \A z, w \in Parts : n[z] = n[w] /\ n[z] # NoBuffer => z = w
  BY <1>1, <1>7
<1>11. OneOwner(n, <<>>, q)
  BY <1>8, <1>9, <1>10 DEF OneOwner
<1>12. <<>> \in Seq(Frame) /\ Len(<<>>) = 0
  OBVIOUS
<1> QED BY <1>1, <1>3, <1>11, <1>12, Zenon DEF Places, n, q, f

\* ... and a Part received.
LEMMA ReceivedKeeps ==
    ASSUME NEW m, NEW u, NEW p, Places(m, u, p), p # <<>>, NEW v \in Parts
    PROVE  Places([m EXCEPT ![v] = Head(p).buf], u, Tail(p))
<1> DEFINE b == Head(p).buf
           n == [m EXCEPT ![v] = b]
           q == Tail(p)
<1>1. /\ q \in Seq(Frame) /\ Len(q) = Len(p) - 1 /\ Len(p) \in Nat \ {0}
      /\ \A i \in 1 .. Len(q) : i + 1 \in 2 .. Len(p) /\ q[i] = p[i + 1]
      /\ Head(p) = p[1]
  BY DEF Places
<1>2. b \in Buffers /\ b # NoBuffer /\ b = p[1].buf
  BY <1>1, FrameBuffer DEF Places
<1> HIDE DEF b, q
<1>3. /\ n \in [Parts -> Buffers \cup {NoBuffer}] /\ n[v] = b
      /\ \A z \in Parts \ {v} : n[z] = m[z]
  BY <1>2, Zenon DEF Places
<1> HIDE DEF n
<1>4. /\ 1 \in 1 .. Len(p)
      /\ \A i \in 1 .. Len(q) : i + 1 \in 1 .. Len(p) /\ i + 1 # 1
  BY <1>1
<1>5. /\ \A z \in Parts, i \in 1 .. Len(p) : m[z] # p[i].buf
      /\ \A i, j \in 1 .. Len(p) : p[i].buf = p[j].buf => i = j
      /\ \A z, w \in Parts : m[z] = m[w] /\ m[z] # NoBuffer => z = w
      /\ \A i \in 1 .. Len(u) : /\ \A z \in Parts : m[z] # u[i].buf
                                /\ \A j \in 1 .. Len(p) : u[i].buf # p[j].buf
  BY Zenon DEF Places, OneOwner
<1>6. \A z, w \in Parts : n[z] = n[w] /\ n[z] # NoBuffer => z = w
  BY <1>2, <1>3, <1>4, <1>5
<1>7. ASSUME NEW z \in Parts, NEW i \in 1 .. Len(q) PROVE n[z] # q[i].buf
  BY <1>1, <1>2, <1>3, <1>4, <1>5
<1>8. ASSUME NEW i \in 1 .. Len(q), NEW j \in 1 .. Len(q), q[i].buf = q[j].buf PROVE i = j
  <2>1. i + 1 = j + 1
    BY <1>1, <1>4, <1>5, <1>8
  <2> QED BY <2>1
<1>9. ASSUME NEW i \in 1 .. Len(u) PROVE /\ \A z \in Parts : n[z] # u[i].buf
                                       /\ \A j \in 1 .. Len(q) : u[i].buf # q[j].buf
  <2>1. b # u[i].buf
    BY <1>2, <1>4, <1>5, Zenon
  <2>2. \A z \in Parts : n[z] # u[i].buf
    BY <2>1, <1>3, <1>5, Zenon
  <2>3. \A j \in 1 .. Len(q) : u[i].buf # q[j].buf
    BY <1>1, <1>4, <1>5
  <2> QED BY <2>2, <2>3, Zenon
<1>10. OneOwner(n, u, q)
  BY <1>6, <1>7, <1>8, <1>9, Zenon DEF OneOwner
<1> QED BY <1>1, <1>3, <1>10, Zenon DEF Places, n, q, b

-----------------------------------------------------------------------------
\* Every action keeps a buffer with its one owner.
LEMMA PlacesNow ==
    ASSUME Shapes, OneOwner(msg, unsent, pipe)
    PROVE  Places(msg, unsent, pipe)
BY Zenon DEF Shapes, Places

\* The buffer of a new message is nobody's.
LEMMA FreshUnowned ==
    ASSUME Places(msg, unsent, pipe), NEW b \in Fresh
    PROVE  b \in Buffers /\ ~Owned(msg, unsent, pipe, b)
<1>1. b \in Unowned
  BY Zenon DEF Fresh
<1>2. b \in Buffers /\ Count(msg, unsent, pipe, b) = 0
  BY <1>1, Zenon DEF Unowned, Owners, Count, Frames
<1> QED BY <1>2, OwnersCount, Zenon

\* Buffers that are owned after a step were not closed in it.
LEMMA NotClosed ==
    ASSUME Places(msg', unsent', pipe'), NEW b \in Buffers, Owned(msg', unsent', pipe', b)
    PROVE  Owners(b)' # 0
<1>1. Owners(b)' = Count(msg', unsent', pipe', b)
  BY Zenon DEF Owners, Count, Frames
<1> QED BY <1>1, OwnersCount, Zenon

\* What frames hold stays if their buffers are not written to.
LEMMA StreamKept ==
    ASSUME Shapes, InPipe, InRecv, InSend, got = wanted,
           UNCHANGED <<unsent, pipe, sent, rcvd, calls, got, wanted>>,
           Places(msg', unsent, pipe), content' \in [Buffers -> Held],
           \A i \in 1 .. Len(pipe) : content'[pipe[i].buf] = content[pipe[i].buf],
           \A i \in 1 .. Len(unsent) : content'[unsent[i].buf] = content[unsent[i].buf],
           sent = 1 => msg'[Out[2]] = msg[Out[2]] /\ content'[msg[Out[2]]] = content[msg[Out[2]]],
           rcvd = 1 => msg'[In[1]] = msg[In[1]] /\ content'[msg[In[1]]] = content[msg[In[1]]]
    PROVE  TransferInv'
<1>1. Shapes'
  BY Zenon DEF Shapes, Places
<1>2. OneOwner(msg, unsent, pipe)'
  BY Zenon DEF Places
<1>3. InPipe'
  BY Zenon DEF InPipe
<1>4. InRecv'
  BY Zenon DEF InRecv, Has
<1>5. InSend'
  <2>1. sent = 1 => 1 \in 1 .. Len(unsent)
    BY DEF Shapes
  <2> QED BY <2>1, Zenon DEF InSend, Has
<1> QED BY <1>1, <1>2, <1>3, <1>4, <1>5, Zenon DEF TransferInv

\* A step of Part, on a thread that is in no call, keeps the invariant.
LEMMA NewMessageKeeps ==
    ASSUME TransferInv, NEW v \in Parts, ~Calling(v), NEW b \in Fresh, NEW x \in Held,
           msg' = [msg EXCEPT ![v] = b],
           content' = [c \in Buffers |-> IF Owners(c)' = 0 THEN Blank ELSE [content EXCEPT ![b] = x][c]],
           UNCHANGED <<unsent, pipe, sent, rcvd, calls, got, wanted>>
    PROVE  TransferInv'
<1>1. Places(msg, unsent, pipe)
  BY PlacesNow, Zenon DEF TransferInv
<1>2. b \in Buffers /\ ~Owned(msg, unsent, pipe, b)
  BY <1>1, FreshUnowned, Zenon
<1>3. Places(msg', unsent, pipe) /\ unsent' = unsent /\ pipe' = pipe
  BY <1>1, <1>2, PlacedKeeps, Zenon
<1>4. content' \in [Buffers -> Held]
  BY Zenon DEF TransferInv, Shapes, Held
<1>5. \A c \in Buffers : c # b /\ Owned(msg', unsent, pipe, c) => content'[c] = content[c]
  BY <1>3, NotClosed, Zenon DEF TransferInv, Shapes
<1>6. ASSUME NEW i \in 1 .. Len(pipe) PROVE content'[pipe[i].buf] = content[pipe[i].buf]
  <2>1. pipe[i].buf \in Buffers
    BY <1>1, FrameBuffer, Zenon DEF Places
  <2>2. pipe[i].buf # b /\ Owned(msg', unsent, pipe, pipe[i].buf)
    BY <1>2, Zenon DEF Owned
  <2> QED BY <1>5, <2>1, <2>2, Zenon
<1>7. ASSUME NEW i \in 1 .. Len(unsent) PROVE content'[unsent[i].buf] = content[unsent[i].buf]
  <2>1. unsent[i].buf \in Buffers
    BY <1>1, FrameBuffer, Zenon DEF Places
  <2>2. unsent[i].buf # b /\ Owned(msg', unsent, pipe, unsent[i].buf)
    BY <1>2, Zenon DEF Owned
  <2> QED BY <1>5, <2>1, <2>2, Zenon
<1>8. ASSUME NEW w \in Parts, w # v, Has(w)
      PROVE  msg'[w] = msg[w] /\ content'[msg[w]] = content[msg[w]]
  <2>1. msg'[w] = msg[w] /\ msg[w] \in Buffers
    BY <1>8, Zenon DEF TransferInv, Shapes, Has
  <2>2. msg[w] # b /\ Owned(msg', unsent, pipe, msg[w])
    BY <1>2, <2>1, Zenon DEF Owned
  <2> QED BY <1>5, <2>1, <2>2, Zenon
<1>9. sent = 1 => v # Out[2] /\ Has(Out[2]) /\ Out[2] \in Parts
  BY PartNames DEF Calling, TransferInv, InSend, Parts
<1>10. rcvd = 1 => v # In[1] /\ Has(In[1]) /\ In[1] \in Parts
  BY PartNames DEF Calling, TransferInv, InRecv, Parts
<1>11. /\ sent = 1 => msg'[Out[2]] = msg[Out[2]] /\ content'[msg[Out[2]]] = content[msg[Out[2]]]
       /\ rcvd = 1 => msg'[In[1]] = msg[In[1]] /\ content'[msg[In[1]]] = content[msg[In[1]]]
  BY <1>8, <1>9, <1>10, Zenon
<1> QED BY <1>3, <1>4, <1>6, <1>7, <1>11, StreamKept, Zenon DEF TransferInv

LEMMA MakeKeeps ==
    ASSUME TransferInv, NEW v \in Parts, NEW b \in Fresh, NEW x \in Values, Make(v, b, x)
    PROVE  TransferInv'
<1>1. x \in Held
  BY Zenon DEF Held
<1> QED BY <1>1, NewMessageKeeps, Zenon DEF Make, Holds

LEMMA CopyKeeps ==
    ASSUME TransferInv, NEW v \in Parts, NEW u \in Parts, NEW b \in Fresh,
           Duplicate(v, u, b) \/ AssignPart(v, u, b)
    PROVE  TransferInv'
<1>1. ~Calling(v) /\ Has(u) /\ CopyOf(v, u, b) /\ UNCHANGED <<sent, rcvd, calls, got, wanted>>
  BY Zenon DEF Duplicate, AssignPart
<1>2. msg[u] \in Buffers /\ content[msg[u]] \in Held
  BY <1>1, Zenon DEF TransferInv, Shapes, Has
<1>3. PICK x \in Held : x = content[msg[u]]
  BY <1>2, Zenon
<1> QED BY <1>1, <1>3, NewMessageKeeps, Zenon DEF CopyOf, Holds

\* A step in which no content is written closes buffers at most.
LEMMA HeldOn ==
    ASSUME Holds(content), content \in [Buffers -> Held], Places(msg', unsent', pipe')
    PROVE  /\ content' \in [Buffers -> Held]
           /\ \A c \in Buffers : Owned(msg', unsent', pipe', c) => content'[c] = content[c]
<1>1. content' \in [Buffers -> Held]
  BY Zenon DEF Holds, Held
<1>2. \A c \in Buffers : Owned(msg', unsent', pipe', c) => content'[c] = content[c]
  BY NotClosed, Zenon DEF Holds
<1> QED BY <1>1, <1>2, Zenon

LEMMA MoveKeeps ==
    ASSUME TransferInv, NEW v \in Parts, NEW u \in Parts, MovePart(v, u)
    PROVE  TransferInv'
<1>1. Places(msg, unsent, pipe)
  BY PlacesNow, Zenon DEF TransferInv
<1>2. /\ ~Calling(v) /\ SameThread(v, u) /\ v # u
      /\ msg' = [msg EXCEPT ![v] = msg[u], ![u] = NoBuffer]
      /\ UNCHANGED <<unsent, pipe, sent, rcvd, calls, got, wanted>> /\ Holds(content)
  BY Zenon DEF MovePart
<1>3. Places(msg', unsent, pipe) /\ unsent' = unsent /\ pipe' = pipe
  BY <1>1, <1>2, MovedKeeps, Zenon
<1>4. /\ content' \in [Buffers -> Held]
      /\ \A c \in Buffers : Owned(msg', unsent, pipe, c) => content'[c] = content[c]
  BY <1>2, <1>3, HeldOn, Zenon DEF TransferInv, Shapes
<1>6. ASSUME NEW i \in 1 .. Len(pipe) PROVE content'[pipe[i].buf] = content[pipe[i].buf]
  <2>1. pipe[i].buf \in Buffers
    BY <1>1, FrameBuffer, Zenon DEF Places
  <2> QED BY <1>4, <2>1, Zenon DEF Owned
<1>7. ASSUME NEW i \in 1 .. Len(unsent) PROVE content'[unsent[i].buf] = content[unsent[i].buf]
  <2>1. unsent[i].buf \in Buffers
    BY <1>1, FrameBuffer, Zenon DEF Places
  <2> QED BY <1>4, <2>1, Zenon DEF Owned
<1>8. ASSUME NEW w \in Parts, w # v, w # u, Has(w)
      PROVE  msg'[w] = msg[w] /\ content'[msg[w]] = content[msg[w]]
  <2>1. msg'[w] = msg[w] /\ msg[w] \in Buffers
    BY <1>2, <1>8, Zenon DEF TransferInv, Shapes, Has
  <2> QED BY <1>4, <2>1, Zenon DEF Owned
<1>9. sent = 1 => Out[2] \notin {v, u} /\ Has(Out[2]) /\ Out[2] \in Parts
  BY <1>2, PartNames DEF Calling, TransferInv, InSend, Parts, SameThread
<1>10. rcvd = 1 => In[1] \notin {v, u} /\ Has(In[1]) /\ In[1] \in Parts
  BY <1>2, PartNames DEF Calling, TransferInv, InRecv, Parts, SameThread
<1>11. /\ sent = 1 => msg'[Out[2]] = msg[Out[2]] /\ content'[msg[Out[2]]] = content[msg[Out[2]]]
       /\ rcvd = 1 => msg'[In[1]] = msg[In[1]] /\ content'[msg[In[1]]] = content[msg[In[1]]]
  BY <1>8, <1>9, <1>10, Zenon
<1> QED BY <1>2, <1>3, <1>4, <1>6, <1>7, <1>11, StreamKept, Zenon DEF TransferInv

LEMMA OverwriteKeeps ==
    ASSUME TransferInv, NEW v \in Parts, NEW x \in Values, Overwrite(v, x)
    PROVE  TransferInv'
<1>1. Places(msg, unsent, pipe)
  BY PlacesNow, Zenon DEF TransferInv
<1>2. /\ ~Calling(v) /\ Has(v) /\ content' = [content EXCEPT ![msg[v]] = x]
      /\ UNCHANGED <<msg, unsent, pipe, sent, rcvd, calls, got, wanted>>
  BY Zenon DEF Overwrite
<1>3. Places(msg', unsent, pipe)
  BY <1>1, <1>2, Zenon
<1>4. /\ content' \in [Buffers -> Held]
      /\ \A c \in Buffers : c # msg[v] => content'[c] = content[c]
  BY <1>2, Zenon DEF TransferInv, Shapes, Held
<1>6. ASSUME NEW i \in 1 .. Len(pipe) PROVE content'[pipe[i].buf] = content[pipe[i].buf]
  <2>1. pipe[i].buf \in Buffers
    BY <1>1, FrameBuffer, Zenon DEF Places
  <2> QED BY <1>1, <1>4, <2>1, Zenon DEF Places, OneOwner
<1>7. ASSUME NEW i \in 1 .. Len(unsent) PROVE content'[unsent[i].buf] = content[unsent[i].buf]
  <2>1. unsent[i].buf \in Buffers
    BY <1>1, FrameBuffer, Zenon DEF Places
  <2> QED BY <1>1, <1>4, <2>1, Zenon DEF Places, OneOwner
<1>8. ASSUME NEW w \in Parts, w # v, Has(w)
      PROVE  msg'[w] = msg[w] /\ content'[msg[w]] = content[msg[w]]
  <2>1. msg'[w] = msg[w] /\ msg[w] \in Buffers
    BY <1>2, <1>8, Zenon DEF TransferInv, Shapes, Has
  <2>2. msg[w] # msg[v]
    BY <1>1, <1>2, <1>8, Zenon DEF Places, OneOwner, Has
  <2> QED BY <1>4, <2>1, <2>2, Zenon
<1>9. sent = 1 => v # Out[2] /\ Has(Out[2]) /\ Out[2] \in Parts
  BY <1>2, PartNames DEF Calling, TransferInv, InSend, Parts
<1>10. rcvd = 1 => v # In[1] /\ Has(In[1]) /\ In[1] \in Parts
  BY <1>2, PartNames DEF Calling, TransferInv, InRecv, Parts
<1>11. /\ sent = 1 => msg'[Out[2]] = msg[Out[2]] /\ content'[msg[Out[2]]] = content[msg[Out[2]]]
       /\ rcvd = 1 => msg'[In[1]] = msg[In[1]] /\ content'[msg[In[1]]] = content[msg[In[1]]]
  BY <1>8, <1>9, <1>10, Zenon
<1> QED BY <1>2, <1>3, <1>4, <1>6, <1>7, <1>11, StreamKept, Zenon DEF TransferInv

\* The first Part of a message is sent.
LEMMA SendFirstKeeps ==
    ASSUME TransferInv, Send, sent = 0
    PROVE  TransferInv'
<1> DEFINE pair == <<content[msg[Out[1]]], content[msg[Out[2]]]>>
           f == [buf |-> msg[Out[1]], more |-> TRUE]
<1>1. Places(msg, unsent, pipe)
  BY PlacesNow, Zenon DEF TransferInv
<1>2. Has(Out[1]) /\ Has(Out[2]) /\ SendMessagePart(1) /\ UNCHANGED <<content, rcvd, got, wanted>>
  BY DEF Send
<1>3. sent' = 1 /\ calls' = Append(calls, pair)
  BY PartNames DEF Send
<1>4. unsent = <<>>
  BY DEF TransferInv, Shapes
<1>5. unsent' = <<f>> /\ pipe' = pipe /\ msg' = [msg EXCEPT ![Out[1]] = NoBuffer]
  <2> DEFINE g == [buf |-> msg[Out[1]], more |-> 1 < Len(Out)]
  <2>1. (1 < Len(Out)) = TRUE
    BY PartNames
  <2>2. g = f /\ g.more = TRUE
    BY <2>1, Zenon
  <2>3. /\ IF g.more THEN unsent' = Append(unsent, g) /\ pipe' = pipe
           ELSE unsent' = <<>> /\ pipe' = pipe \o unsent \o <<g>>
        /\ msg' = [msg EXCEPT ![Out[1]] = NoBuffer]
    BY <1>2, Zenon DEF SendMessagePart
  <2> HIDE DEF g, f
  <2>4. unsent' = Append(<<>>, f) /\ pipe' = pipe /\ msg' = [msg EXCEPT ![Out[1]] = NoBuffer]
    BY <1>4, <2>2, <2>3, Zenon
  <2> QED BY <2>4
<1>6. {Out[1], Out[2], In[1]} \subseteq Parts /\ Out[2] # Out[1] /\ In[1] # Out[1]
  BY PartNames, Zenon
<1>7. Places(msg', unsent', pipe')
  BY <1>1, <1>2, <1>4, <1>5, <1>6, SentMoreKeeps, Zenon DEF Has
<1>8. Len(unsent') = 1 /\ unsent'[1].buf = msg[Out[1]]
  BY <1>5, Zenon
<1>9. pair \in Held \X Held
  BY <1>2, <1>6, Zenon DEF TransferInv, Shapes, Has
<1> HIDE DEF pair, f
<1>10. /\ calls' \in Seq(Held \X Held) /\ Len(calls') = Len(calls) + 1 /\ Len(calls) \in Nat
       /\ \A j \in 1 .. Len(calls) : calls'[j] = calls[j]
       /\ calls'[Len(calls')] = pair
  BY <1>3, <1>9 DEF TransferInv, Shapes
<1>11. Len(pipe) \in Nat /\ rcvd \in {0, 1} /\ 2 * Len(calls) = Len(pipe) + rcvd
  BY DEF TransferInv, Shapes
<1>12. Shapes'
  <2>1. 2 * Len(calls') = Len(pipe') + rcvd' + 2 * sent'
    <3>1. \A n, l \in Nat, r \in {0, 1} : 2 * n = l + r => 2 * (n + 1) = l + r + 2 * 1
      OBVIOUS
    <3>2. 2 * (Len(calls) + 1) = Len(pipe) + rcvd + 2 * 1
      BY <3>1, <1>10, <1>11, Zenon
    <3> QED BY <3>2, <1>2, <1>3, <1>5, <1>10, Zenon
  <2>2. content' \in [Buffers -> Held]
    BY <1>2, Zenon DEF TransferInv, Shapes
  <2> QED BY <1>2, <1>3, <1>7, <1>8, <1>10, <1>11, <2>1, <2>2, Zenon DEF Shapes, Places
<1>13. InPipe'
  <2> SUFFICES ASSUME NEW j \in 1 .. Len(calls')
               PROVE  /\ 2 * j - 1 - rcvd \in 1 .. Len(pipe) =>
                           content[pipe[2 * j - 1 - rcvd].buf] = calls'[j][1]
                      /\ 2 * j - rcvd \in 1 .. Len(pipe) => content[pipe[2 * j - rcvd].buf] = calls'[j][2]
    BY <1>2, <1>5, Zenon DEF InPipe
  <2>1. CASE j = Len(calls) + 1
    BY <2>1, <1>11
  <2>2. CASE j \in 1 .. Len(calls)
    BY <2>2, <1>10, Zenon DEF TransferInv, InPipe
  <2> QED BY <1>10, <2>1, <2>2
<1>14. InRecv'
  <2>0. rcvd = 1 => 1 \in 1 .. Len(calls)
    BY <1>10, <1>11
  <2>1. rcvd = 1 => calls'[1] = calls[1]
    BY <2>0, <1>10, Zenon
  <2>2. msg'[In[1]] = msg[In[1]]
    BY <1>5, <1>6, Zenon DEF TransferInv, Shapes
  <2> QED BY <1>2, <2>1, <2>2, Zenon DEF TransferInv, InRecv, Has
<1>15. InSend'
  <2>1. msg'[Out[2]] = msg[Out[2]]
    BY <1>5, <1>6, Zenon DEF TransferInv, Shapes
  <2>2. pair[1] = content[msg[Out[1]]] /\ pair[2] = content[msg[Out[2]]]
    BY Zenon DEF pair
  <2> QED BY <1>2, <1>8, <1>10, <2>1, <2>2, Zenon DEF InSend, Has
<1> QED BY <1>2, <1>7, <1>12, <1>13, <1>14, <1>15, Zenon DEF TransferInv, Places

\* The last one is, and the message can be received.
LEMMA SendLastKeeps ==
    ASSUME TransferInv, Send, sent = 1
    PROVE  TransferInv'
<1> DEFINE f == [buf |-> msg[Out[2]], more |-> FALSE]
<1>1. Places(msg, unsent, pipe)
  BY PlacesNow, Zenon DEF TransferInv
<1>2. SendMessagePart(2) /\ sent' = 0 /\ UNCHANGED <<content, calls, rcvd, got, wanted>>
  BY PartNames DEF Send
<1>3. /\ Has(Out[2]) /\ content[unsent[1].buf] = calls[Len(calls)][1]
      /\ content[msg[Out[2]]] = calls[Len(calls)][2]
  BY Zenon DEF TransferInv, InSend
<1>4. unsent' = <<>> /\ pipe' = pipe \o unsent \o <<f>> /\ msg' = [msg EXCEPT ![Out[2]] = NoBuffer]
  <2> DEFINE g == [buf |-> msg[Out[2]], more |-> 2 < Len(Out)]
  <2>1. (2 < Len(Out)) = FALSE
    BY PartNames
  <2>2. g = f /\ g.more = FALSE
    BY <2>1, Zenon
  <2>3. /\ IF g.more THEN unsent' = Append(unsent, g) /\ pipe' = pipe
           ELSE unsent' = <<>> /\ pipe' = pipe \o unsent \o <<g>>
        /\ msg' = [msg EXCEPT ![Out[2]] = NoBuffer]
    BY <1>2, Zenon DEF SendMessagePart
  <2> HIDE DEF g, f
  <2> QED BY <2>2, <2>3, Zenon
<1>5. {Out[2], In[1]} \subseteq Parts /\ In[1] # Out[2]
  BY PartNames, Zenon
<1>6. Len(unsent) = 1 /\ unsent \in Seq(Frame) /\ pipe \in Seq(Frame)
  BY Zenon DEF TransferInv, Shapes
<1>7. Places(msg', unsent', pipe')
  BY <1>1, <1>3, <1>4, <1>5, <1>6, SentLastKeeps, Zenon DEF Has
<1>8. f \in Frame /\ f.buf = msg[Out[2]]
  BY <1>3, <1>5, Zenon DEF TransferInv, Shapes, Has, Frame
<1> HIDE DEF f
<1>9. /\ Len(pipe') = Len(pipe) + 2 /\ Len(pipe) \in Nat
      /\ \A i \in 1 .. Len(pipe) : pipe'[i] = pipe[i]
      /\ pipe'[Len(pipe) + 1] = unsent[1] /\ pipe'[Len(pipe) + 2] = f
  BY <1>4, <1>6, <1>8, OneThenOne
<1>10. Len(calls) \in Nat /\ rcvd \in {0, 1} /\ 2 * Len(calls) = Len(pipe) + rcvd + 2
  BY DEF TransferInv, Shapes
<1>11. Len(unsent') = 0
  BY <1>4, Zenon
<1>12. Shapes'
  BY <1>2, <1>7, <1>9, <1>10, <1>11 DEF TransferInv, Shapes, Places
<1>13. InPipe'
  <2> SUFFICES ASSUME NEW j \in 1 .. Len(calls)
               PROVE  /\ 2 * j - 1 - rcvd \in 1 .. Len(pipe') =>
                           content[pipe'[2 * j - 1 - rcvd].buf] = calls[j][1]
                      /\ 2 * j - rcvd \in 1 .. Len(pipe') => content[pipe'[2 * j - rcvd].buf] = calls[j][2]
    BY <1>2, Zenon DEF InPipe
  <2>1. CASE j = Len(calls)
    <3>1. 2 * j - 1 - rcvd = Len(pipe) + 1 /\ 2 * j - rcvd = Len(pipe) + 2
      BY <2>1, <1>9, <1>10
    <3> QED BY <2>1, <3>1, <1>3, <1>8, <1>9, Zenon
  <2>2. CASE j # Len(calls)
    <3>1. 2 * j - 1 - rcvd <= Len(pipe) /\ 2 * j - rcvd <= Len(pipe)
      BY <2>2, <1>9, <1>10
    <3>2. /\ 2 * j - 1 - rcvd \in 1 .. Len(pipe') => 2 * j - 1 - rcvd \in 1 .. Len(pipe)
          /\ 2 * j - rcvd \in 1 .. Len(pipe') => 2 * j - rcvd \in 1 .. Len(pipe)
      BY <3>1, <1>9, <1>10
    <3> QED BY <3>2, <1>9, Zenon DEF TransferInv, InPipe
  <2> QED BY <2>1, <2>2, Zenon
<1>14. InRecv'
  <2>1. msg'[In[1]] = msg[In[1]]
    BY <1>4, <1>5, Zenon DEF TransferInv, Shapes
  <2> QED BY <1>2, <2>1, Zenon DEF TransferInv, InRecv, Has
<1>15. InSend'
  BY <1>2 DEF InSend
<1> QED BY <1>2, <1>7, <1>12, <1>13, <1>14, <1>15, Zenon DEF TransferInv, Places

\* The first Part of a message is received.
LEMMA RecvFirstKeeps ==
    ASSUME TransferInv, Recv, rcvd = 0
    PROVE  TransferInv'
<1> DEFINE b == Head(pipe).buf
<1>1. Places(msg, unsent, pipe)
  BY PlacesNow DEF TransferInv
<1>2. /\ pipe # <<>> /\ rcvd' = 1 /\ got' = <<>> /\ wanted' = <<>> /\ calls' = calls
      /\ msg' = [msg EXCEPT ![In[1]] = b] /\ pipe' = Tail(pipe)
      /\ unsent' = unsent /\ sent' = sent /\ Holds(content)
  <2>1. rcvd + 1 = 1 /\ (1 = Len(In)) = FALSE /\ (rcvd + 1) % Len(In) = 1
    BY PartNames
  <2> QED BY <2>1, Zenon DEF Recv, RecvMessagePart
<1>3. {Out[2], In[1]} \subseteq Parts /\ In[1] # Out[2]
  BY PartNames, Zenon
<1>4. Places(msg', unsent', pipe')
  BY <1>1, <1>2, <1>3, ReceivedKeeps, Zenon
<1>5. /\ content' \in [Buffers -> Held]
      /\ \A c \in Buffers : Owned(msg', unsent', pipe', c) => content'[c] = content[c]
  BY <1>2, <1>4, HeldOn, Zenon DEF TransferInv, Shapes
<1>6. /\ Len(pipe) \in Nat \ {0} /\ Len(pipe') = Len(pipe) - 1
      /\ \A i \in 1 .. Len(pipe') : pipe'[i] = pipe[i + 1]
      /\ b = pipe[1].buf
  BY <1>2 DEF TransferInv, Shapes
<1>7. b \in Buffers /\ b # NoBuffer
  <2>1. 1 \in 1 .. Len(pipe)
    BY <1>6
  <2> QED BY <1>1, <1>6, <2>1, FrameBuffer, Zenon DEF Places
<1> HIDE DEF b
<1>8. Len(calls) \in Nat /\ sent \in {0, 1} /\ 2 * Len(calls) = Len(pipe) + 2 * sent
  BY DEF TransferInv, Shapes
<1>9. Shapes'
  <2>1. 2 * Len(calls') = Len(pipe') + rcvd' + 2 * sent'
    BY <1>2, <1>6, <1>8
  <2> QED BY <1>2, <1>4, <1>5, <2>1, Zenon DEF TransferInv, Shapes, Places
<1>10. ASSUME NEW i \in 1 .. Len(pipe') PROVE content'[pipe'[i].buf] = content[pipe[i + 1].buf]
  <2>1. pipe'[i].buf \in Buffers
    BY <1>4, FrameBuffer, Zenon DEF Places
  <2> QED BY <1>5, <1>6, <2>1, Zenon DEF Owned
<1>11. InPipe'
  <2> SUFFICES ASSUME NEW j \in 1 .. Len(calls)
               PROVE  /\ 2 * j - 1 - 1 \in 1 .. Len(pipe') => content'[pipe'[2 * j - 1 - 1].buf] = calls[j][1]
                      /\ 2 * j - 1 \in 1 .. Len(pipe') => content'[pipe'[2 * j - 1].buf] = calls[j][2]
    BY <1>2, Zenon DEF InPipe
  <2>1. /\ 2 * j - 1 - 0 \in 1 .. Len(pipe) => content[pipe[2 * j - 1 - 0].buf] = calls[j][1]
        /\ 2 * j - 0 \in 1 .. Len(pipe) => content[pipe[2 * j - 0].buf] = calls[j][2]
    BY Zenon DEF TransferInv, InPipe
  <2>2. ASSUME 2 * j - 1 - 1 \in 1 .. Len(pipe') PROVE content'[pipe'[2 * j - 1 - 1].buf] = calls[j][1]
    <3>1. 2 * j - 1 - 0 \in 1 .. Len(pipe) /\ (2 * j - 1 - 1) + 1 = 2 * j - 1 - 0
      BY <2>2, <1>6
    <3> QED BY <2>1, <2>2, <3>1, <1>10, Zenon
  <2>3. ASSUME 2 * j - 1 \in 1 .. Len(pipe') PROVE content'[pipe'[2 * j - 1].buf] = calls[j][2]
    <3>1. 2 * j - 0 \in 1 .. Len(pipe) /\ (2 * j - 1) + 1 = 2 * j - 0
      BY <2>3, <1>6
    <3> QED BY <2>1, <2>3, <3>1, <1>10, Zenon
  <2> QED BY <2>2, <2>3, Zenon
<1>12. InRecv'
  <2>1. 1 \in 1 .. Len(calls) /\ 2 * 1 - 1 - 0 = 1 /\ 1 \in 1 .. Len(pipe)
    BY <1>6, <1>8
  <2>2. content[b] = calls[1][1]
    BY <2>1, <1>6, Zenon DEF TransferInv, InPipe
  <2>3. msg'[In[1]] = b
    BY <1>2, <1>3, Zenon DEF TransferInv, Shapes
  <2>4. content'[b] = content[b]
    BY <1>3, <1>5, <1>7, <2>3, Zenon DEF Owned
  <2> QED BY <1>2, <1>7, <2>2, <2>3, <2>4, Zenon DEF InRecv, Has
<1>13. ASSUME sent = 1 PROVE InSend'
  <2>1. /\ Has(Out[2]) /\ content[unsent[1].buf] = calls[Len(calls)][1]
        /\ content[msg[Out[2]]] = calls[Len(calls)][2]
    BY <1>13, Zenon DEF TransferInv, InSend
  <2>2. 1 \in 1 .. Len(unsent)
    BY <1>13 DEF TransferInv, Shapes
  <2>3. unsent[1].buf \in Buffers
    BY <2>2, <1>1, FrameBuffer, Zenon DEF Places
  <2>4. content'[unsent'[1].buf] = content[unsent[1].buf]
    BY <1>2, <1>5, <2>2, <2>3, Zenon DEF Owned
  <2>5. msg'[Out[2]] = msg[Out[2]] /\ msg[Out[2]] \in Buffers
    BY <1>2, <1>3, <2>1, Zenon DEF TransferInv, Shapes, Has
  <2>6. content'[msg[Out[2]]] = content[msg[Out[2]]]
    BY <1>3, <1>5, <2>5, Zenon DEF Owned
  <2> QED BY <1>2, <2>1, <2>4, <2>5, <2>6, Zenon DEF InSend, Has
<1>14. InSend'
  BY <1>2, <1>13, Zenon DEF InSend
<1> QED BY <1>2, <1>4, <1>9, <1>11, <1>12, <1>14, Zenon DEF TransferInv, Places

\* The last one is, and recv() returns.
LEMMA RecvLastKeeps ==
    ASSUME TransferInv, Recv, rcvd = 1
    PROVE  TransferInv'
<1> DEFINE b == Head(pipe).buf
<1>1. Places(msg, unsent, pipe)
  BY PlacesNow DEF TransferInv
<1>2. /\ pipe # <<>> /\ rcvd' = 0 /\ got' = <<content[msg[In[1]]], content[b]>>
      /\ wanted' = Head(calls) /\ calls' = Tail(calls)
      /\ msg' = [msg EXCEPT ![In[2]] = b] /\ pipe' = Tail(pipe)
      /\ unsent' = unsent /\ sent' = sent /\ Holds(content)
  <2>1. rcvd + 1 = 2 /\ (2 = Len(In)) = TRUE /\ (rcvd + 1) % Len(In) = 0
    BY PartNames
  <2> QED BY <2>1, Zenon DEF Recv, RecvMessagePart
<1>3. {Out[2], In[1], In[2]} \subseteq Parts /\ In[2] # Out[2]
  BY PartNames, Zenon
<1>4. Places(msg', unsent', pipe')
  BY <1>1, <1>2, <1>3, ReceivedKeeps, Zenon
<1>5. /\ content' \in [Buffers -> Held]
      /\ \A c \in Buffers : Owned(msg', unsent', pipe', c) => content'[c] = content[c]
  BY <1>2, <1>4, HeldOn, Zenon DEF TransferInv, Shapes
<1>6. /\ Len(pipe) \in Nat \ {0} /\ Len(pipe') = Len(pipe) - 1
      /\ \A i \in 1 .. Len(pipe') : pipe'[i] = pipe[i + 1]
      /\ b = pipe[1].buf
  BY <1>2 DEF TransferInv, Shapes
<1> HIDE DEF b
<1>7. Len(calls) \in Nat /\ sent \in {0, 1} /\ 2 * Len(calls) = Len(pipe) + 1 + 2 * sent
  BY DEF TransferInv, Shapes
<1>8. Len(calls) # 0 /\ (sent = 1 => Len(calls) - 1 # 0)
  <2>1. \A n \in Nat, l \in Nat \ {0}, t \in {0, 1} :
            2 * n = l + 1 + 2 * t => n # 0 /\ (t = 1 => n - 1 # 0)
    OBVIOUS
  <2> QED BY <2>1, <1>6, <1>7, Zenon
<1>9. /\ calls' \in Seq(Held \X Held) /\ Len(calls') = Len(calls) - 1
      /\ \A j \in 1 .. Len(calls') : calls'[j] = calls[j + 1]
      /\ Head(calls) = calls[1] /\ calls[1] \in Held \X Held
  <2>1. calls \in Seq(Held \X Held) /\ calls # <<>>
    BY <1>8 DEF TransferInv, Shapes
  <2> QED BY <1>2, <1>8, <2>1
<1>10. Shapes'
  <2>1. 2 * Len(calls') = Len(pipe') + rcvd' + 2 * sent'
    <3>1. \A n, l \in Nat, t \in {0, 1} : 2 * n = l + 1 + 2 * t => 2 * (n - 1) = (l - 1) + 0 + 2 * t
      OBVIOUS
    <3>2. 2 * (Len(calls) - 1) = (Len(pipe) - 1) + 0 + 2 * sent
      BY <3>1, <1>6, <1>7, Zenon
    <3> QED BY <3>2, <1>2, <1>6, <1>9, Zenon
  <2> QED BY <1>2, <1>4, <1>5, <1>9, <2>1, Zenon DEF TransferInv, Shapes, Places
<1>11. ASSUME NEW i \in 1 .. Len(pipe') PROVE content'[pipe'[i].buf] = content[pipe[i + 1].buf]
  <2>1. pipe'[i].buf \in Buffers
    BY <1>4, FrameBuffer, Zenon DEF Places
  <2> QED BY <1>5, <1>6, <2>1, Zenon DEF Owned
<1>12. InPipe'
  <2> SUFFICES ASSUME NEW j \in 1 .. Len(calls')
               PROVE  /\ 2 * j - 1 - 0 \in 1 .. Len(pipe') => content'[pipe'[2 * j - 1 - 0].buf] = calls'[j][1]
                      /\ 2 * j - 0 \in 1 .. Len(pipe') => content'[pipe'[2 * j - 0].buf] = calls'[j][2]
    BY <1>2, Zenon DEF InPipe
  <2> DEFINE k == j + 1
  <2>0. k \in 1 .. Len(calls) /\ calls'[j] = calls[k] /\ j \in Nat
    BY <1>7, <1>9
  <2>1. /\ 2 * k - 1 - 1 \in 1 .. Len(pipe) => content[pipe[2 * k - 1 - 1].buf] = calls[k][1]
        /\ 2 * k - 1 \in 1 .. Len(pipe) => content[pipe[2 * k - 1].buf] = calls[k][2]
    BY <2>0, Zenon DEF TransferInv, InPipe
  <2>2. ASSUME 2 * j - 1 - 0 \in 1 .. Len(pipe') PROVE content'[pipe'[2 * j - 1 - 0].buf] = calls'[j][1]
    <3>1. 2 * k - 1 - 1 \in 1 .. Len(pipe) /\ (2 * j - 1 - 0) + 1 = 2 * k - 1 - 1
      BY <2>0, <2>2, <1>6
    <3> QED BY <2>0, <2>1, <2>2, <3>1, <1>11, Zenon
  <2>3. ASSUME 2 * j - 0 \in 1 .. Len(pipe') PROVE content'[pipe'[2 * j - 0].buf] = calls'[j][2]
    <3>1. 2 * k - 1 \in 1 .. Len(pipe) /\ (2 * j - 0) + 1 = 2 * k - 1
      BY <2>0, <2>3, <1>6
    <3> QED BY <2>0, <2>1, <2>3, <3>1, <1>11, Zenon
  <2> QED BY <2>2, <2>3, Zenon
<1>13. InRecv'
  BY <1>2 DEF InRecv
<1>14. (got = wanted)'
  <2>1. 1 \in 1 .. Len(calls) /\ 2 * 1 - 1 = 1 /\ 1 \in 1 .. Len(pipe)
    BY <1>6, <1>7, <1>8
  <2>2. content[b] = calls[1][2]
    BY <2>1, <1>6, Zenon DEF TransferInv, InPipe
  <2>3. content[msg[In[1]]] = calls[1][1]
    BY Zenon DEF TransferInv, InRecv
  <2>4. calls[1] = <<calls[1][1], calls[1][2]>>
    BY <1>9
  <2> QED BY <1>2, <1>9, <2>2, <2>3, <2>4, Zenon
<1>15. ASSUME sent = 1 PROVE InSend'
  <2>1. /\ Has(Out[2]) /\ content[unsent[1].buf] = calls[Len(calls)][1]
        /\ content[msg[Out[2]]] = calls[Len(calls)][2]
    BY <1>15, Zenon DEF TransferInv, InSend
  <2>2. 1 \in 1 .. Len(unsent)
    BY <1>15 DEF TransferInv, Shapes
  <2>3. unsent[1].buf \in Buffers
    BY <2>2, <1>1, FrameBuffer, Zenon DEF Places
  <2>4. content'[unsent'[1].buf] = content[unsent[1].buf]
    BY <1>2, <1>5, <2>2, <2>3, Zenon DEF Owned
  <2>5. msg'[Out[2]] = msg[Out[2]] /\ msg[Out[2]] \in Buffers
    BY <1>2, <1>3, <2>1, Zenon DEF TransferInv, Shapes, Has
  <2>6. content'[msg[Out[2]]] = content[msg[Out[2]]]
    BY <1>3, <1>5, <2>5, Zenon DEF Owned
  <2>7. calls'[Len(calls')] = calls[Len(calls)]
    <3>1. Len(calls') \in 1 .. Len(calls') /\ Len(calls') + 1 = Len(calls)
      BY <1>7, <1>8, <1>9, <1>15
    <3> QED BY <3>1, <1>9, Zenon
  <2> QED BY <1>2, <2>1, <2>4, <2>5, <2>6, <2>7, Zenon DEF InSend, Has
<1>16. InSend'
  BY <1>2, <1>15, Zenon DEF InSend
<1> QED BY <1>4, <1>10, <1>12, <1>13, <1>14, <1>16, Zenon DEF TransferInv, Places

\* What recv() gives is what one call of send() was given, Part by Part, and no
\* buffer has two owners, for any buffers, any values and any high-water mark.
THEOREM WholeMessages == FSpec => []MessagesWhole
<1>1. FInit => TransferInv
  <2> SUFFICES ASSUME FInit PROVE TransferInv
    BY Zenon
  <2>1. Shapes
    BY DEF FInit, Shapes, Held
  <2>2. OneOwner(msg, unsent, pipe)
    BY DEF FInit, OneOwner
  <2> QED BY <2>1, <2>2 DEF FInit, TransferInv, InPipe, InRecv, InSend
<1>2. TransferInv /\ [FNext]_fvars => TransferInv'
  <2> SUFFICES ASSUME TransferInv, [FNext]_fvars PROVE TransferInv'
    BY Zenon
  <2>1. CASE UNCHANGED fvars
    BY <2>1, Zenon DEF fvars, TransferInv, Shapes, InPipe, InRecv, InSend, Has
  <2>2. CASE Send
    <3>1. sent = 0 \/ sent = 1
      BY Zenon DEF TransferInv, Shapes
    <3> QED BY <2>2, <3>1, SendFirstKeeps, SendLastKeeps, Zenon
  <2>3. CASE Recv
    <3>1. rcvd = 0 \/ rcvd = 1
      BY Zenon DEF TransferInv, Shapes
    <3> QED BY <2>3, <3>1, RecvFirstKeeps, RecvLastKeeps
  <2> QED BY <2>1, <2>2, <2>3, MakeKeeps, CopyKeeps, MoveKeeps, OverwriteKeeps, Zenon DEF FNext
<1>3. TransferInv => MessagesWhole
  <2> SUFFICES ASSUME TransferInv PROVE MessagesWhole
    BY Zenon
  <2>1. Places(msg, unsent, pipe)
    BY PlacesNow, Zenon DEF TransferInv
  <2>2. ASSUME NEW b \in Buffers PROVE Owners(b) <= 1
    <3>1. Owners(b) = Count(msg, unsent, pipe, b)
      BY Zenon DEF Owners, Count, Frames
    <3>2. Count(msg, unsent, pipe, b) \in {0, 1}
      BY <2>1, OwnersCount, Zenon
    <3> QED BY <3>1, <3>2
  <2> QED BY <2>2, Zenon DEF TransferInv, MessagesWhole
<1> QED BY <1>1, <1>2, <1>3, PTL DEF FSpec
=============================================================================
