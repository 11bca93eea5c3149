--------------------------- MODULE ArgsSyncProofs ----------------------------
(***************************************************************************)
(* Theorems about the blocks that log arguments share, and about the       *)
(* synchronization of a worker with a broker.                              *)
(***************************************************************************)
EXTENDS Args, Synchronization, FiniteSetTheorems, TLAPS

-----------------------------------------------------------------------------
(* The counts of the blocks that log arguments share are right for any     *)
(* number of arguments and blocks, and arrays of any size.                 *)

ATypeOK ==
    /\ ref \in [Slots -> Refs \cup {Null}]
    /\ cnt \in [Refs -> Nat]
    /\ used \in [Refs -> BOOLEAN]
    /\ deleter \in [Refs -> Objects \cup {Null}]
    /\ todo \in [Objects -> Objects \cup {Null}]
    /\ fill \in [Objects -> 0 .. Size]

\* A free block has no elements; an operator= at work has let go of what its
\* object held, and copies from one that is complete; the array that is being
\* built is held by nobody else and its last elements are still to come.
InOperation ==
    /\ \A r \in Refs : ~used[r] => \A i \in 1 .. Size : ref[Element(r, i)] = Null
    /\ \A v \in Objects : todo[v] # Null => ref[v] = Null /\ fill[todo[v]] = 0
    /\ \A v \in Objects : fill[v] > 0 =>
        /\ ref[v] # Null
        /\ \A x \in Slots : ref[x] = ref[v] => x = v
        /\ \A i \in 1 .. fill[v] : ref[Element(ref[v], i)] = Null

ArgsInv == ATypeOK /\ RefCounts /\ InOperation

-----------------------------------------------------------------------------
\* The slots of objects and of elements are finitely many and apart.
LEMMA SlotsFacts ==
    /\ IsFiniteSet(Slots)
    /\ Objects \subseteq Slots
    /\ \A r \in Refs, i \in 1 .. Size : Element(r, i) \in Slots /\ Element(r, i) \notin Objects
    /\ \A r, s \in Refs, i, j \in 1 .. Size : Element(r, i) = Element(s, j) => r = s /\ i = j
<1>1. IsFiniteSet(1 .. Size)
    BY ArgsAssumption, FS_Interval
<1>2. IsFiniteSet(Slots)
    BY <1>1, ArgsAssumption, FS_Product, FS_Union, Zenon DEF Slots
<1> QED BY <1>2, ArgsAssumption DEF Slots, Element

\* Holders are finitely many, so that a count of zero means there is none.
LEMMA HoldersFinite ==
    ASSUME NEW r \in Refs
    PROVE /\ IsFiniteSet(Holders(r))
          /\ Cardinality(Holders(r)) \in Nat
          /\ Cardinality(Holders(r)) = 0 <=> Holders(r) = {}
<1>1. Holders(r) \in SUBSET Slots
    BY Zenon DEF Holders
<1>2. IsFiniteSet(Holders(r))
    BY <1>1, SlotsFacts, FS_Subset, Zenon
<1> QED BY <1>2, FS_EmptySet, FS_CardinalityType, Zenon

\* A slot that held nothing and takes a block.
LEMMA TakeBlock ==
    ASSUME ATypeOK, NEW x \in Slots, NEW r \in Refs, ref[x] = Null, ref' = [ref EXCEPT ![x] = r]
    PROVE /\ Cardinality(Holders(r)') = Cardinality(Holders(r)) + 1
          /\ Holders(r)' # {}
          /\ \A s \in Refs : s # r => Holders(s)' = Holders(s)
<1>1. r # Null
    BY ArgsAssumption, Zenon
<1>2. Holders(r)' = Holders(r) \cup {x} /\ x \notin Holders(r)
    BY <1>1, Zenon DEF Holders, ATypeOK
<1>3. \A s \in Refs : s # r => Holders(s)' = Holders(s)
    BY ArgsAssumption, Zenon DEF Holders, ATypeOK
<1> QED BY <1>2, <1>3, HoldersFinite, FS_AddElement, Zenon

\* A slot that lets go of its block.
LEMMA LeaveBlock ==
    ASSUME ATypeOK, NEW x \in Slots, NEW r \in Refs, ref[x] = r, ref' = [ref EXCEPT ![x] = Null]
    PROVE /\ Holders(r) # {}
          /\ Cardinality(Holders(r)') = Cardinality(Holders(r)) - 1
          /\ IsFiniteSet(Holders(r)')
          /\ \A s \in Refs : s # r => Holders(s)' = Holders(s)
<1>1. r # Null
    BY ArgsAssumption, Zenon
<1>2. Holders(r)' = Holders(r) \ {x} /\ x \in Holders(r)
    BY <1>1, Zenon DEF Holders, ATypeOK
<1>3. \A s \in Refs : s # r => Holders(s)' = Holders(s)
    BY ArgsAssumption, Zenon DEF Holders, ATypeOK
<1> QED BY <1>2, <1>3, HoldersFinite, FS_RemoveElement

\* refAcquire() keeps the counts right.
LEMMA CopiedCounts ==
    ASSUME ATypeOK, RefCounts, NEW x \in Slots, NEW y \in Slots, ref[x] = Null,
           Copied(x, y), UNCHANGED <<used, deleter>>
    PROVE /\ ref' \in [Slots -> Refs \cup {Null}] /\ cnt' \in [Refs -> Nat]
          /\ RefCounts'
<1>1. ref' \in [Slots -> Refs \cup {Null}] /\ cnt' \in [Refs -> Nat]
    BY DEF Copied, ATypeOK
<1>2. CASE ref[y] = Null
    <2>1. ref' = ref /\ cnt' = cnt
        BY <1>2, Zenon DEF Copied, ATypeOK
    <2> QED BY <1>1, <2>1 DEF RefCounts, Holders
<1>3. CASE ref[y] # Null
    <2> PICK r \in Refs : r = ref[y]
        BY <1>3, Zenon DEF ATypeOK
    <2>1. ref' = [ref EXCEPT ![x] = r] /\ cnt' = [cnt EXCEPT ![r] = @ + 1]
        BY <1>3, Zenon DEF Copied
    <2>2. Holders(r) # {}
        BY Zenon DEF Holders
    <2>3. /\ Cardinality(Holders(r)') = Cardinality(Holders(r)) + 1
          /\ Holders(r)' # {}
          /\ \A s \in Refs : s # r => Holders(s)' = Holders(s)
        BY <2>1, TakeBlock, Zenon
    <2>4. ASSUME NEW s \in Refs
          PROVE /\ cnt'[s] = Cardinality(Holders(s)')
                /\ used'[s] <=> Holders(s)' # {} \/ deleter'[s] # Null
                /\ deleter'[s] # Null => Holders(s)' = {}
        BY <2>1, <2>2, <2>3 DEF RefCounts, ATypeOK
    <2> QED BY <1>1, <2>4, Zenon DEF RefCounts
<1> QED BY <1>2, <1>3, Zenon

\* refRelease() keeps the counts right, and the one that takes a count to zero
\* is the only deleter of the block.
LEMMA ReleasedCounts ==
    ASSUME ATypeOK, RefCounts, NEW v \in Objects, NEW x \in Slots, Released(v, x), UNCHANGED used
    PROVE /\ ref' \in [Slots -> Refs \cup {Null}] /\ cnt' \in [Refs -> Nat]
          /\ deleter' \in [Refs -> Objects \cup {Null}]
          /\ RefCounts'
<1>1. CASE ref[x] = Null
    <2>1. ref' = ref /\ cnt' = cnt /\ deleter' = deleter
        BY <1>1, Zenon DEF Released, ATypeOK
    <2> QED BY <2>1 DEF RefCounts, Holders, ATypeOK
<1>2. CASE ref[x] # Null
    <2> PICK r \in Refs : r = ref[x]
        BY <1>2, Zenon DEF ATypeOK
    <2>1. /\ ref' = [ref EXCEPT ![x] = Null]
          /\ cnt' = [cnt EXCEPT ![r] = @ - 1]
          /\ deleter' = IF cnt[r] = 1 THEN [deleter EXCEPT ![r] = v] ELSE deleter
        BY <1>2, Zenon DEF Released
    <2>2. /\ Holders(r) # {}
          /\ Cardinality(Holders(r)') = Cardinality(Holders(r)) - 1
          /\ IsFiniteSet(Holders(r)')
          /\ \A s \in Refs : s # r => Holders(s)' = Holders(s)
        BY <2>1, LeaveBlock, Zenon
    <2>3. Cardinality(Holders(r)') = 0 <=> Holders(r)' = {}
        BY <2>2, FS_EmptySet, Zenon
    <2>4. cnt[r] \in Nat /\ cnt[r] = Cardinality(Holders(r)) /\ cnt[r] # 0
          /\ used[r] /\ deleter[r] = Null
        BY <2>2, HoldersFinite, Zenon DEF RefCounts, ATypeOK
    <2>5. v # Null
        BY ArgsAssumption, Zenon
    <2>6. ASSUME NEW s \in Refs
          PROVE /\ cnt'[s] = Cardinality(Holders(s)')
                /\ used'[s] <=> Holders(s)' # {} \/ deleter'[s] # Null
                /\ deleter'[s] # Null => Holders(s)' = {}
        <3>1. CASE s = r
            BY <2>1, <2>2, <2>3, <2>4, <2>5, <3>1 DEF ATypeOK
        <3>2. CASE s # r
            BY <2>1, <2>2, <3>2 DEF RefCounts, ATypeOK
        <3> QED BY <3>1, <3>2, Zenon
    <2>7. /\ ref' \in [Slots -> Refs \cup {Null}] /\ cnt' \in [Refs -> Nat]
          /\ deleter' \in [Refs -> Objects \cup {Null}]
        BY <2>1, <2>2, <2>4 DEF ATypeOK
    <2> QED BY <2>6, <2>7, Zenon DEF RefCounts
<1> QED BY <1>1, <1>2, Zenon

-----------------------------------------------------------------------------
\* A copy from a complete object is no holder of an array being built.
LEMMA CopiedElsewhere ==
    ASSUME ArgsInv, NEW x \in Slots, NEW u \in Objects, ref[x] = Null, fill[u] = 0, Copied(x, u),
           NEW w \in Objects, fill[w] > 0
    PROVE ref'[w] = ref[w] /\ \A z \in Slots : ref'[z] = ref[w] => z = w
<1>1. ref[w] # Null /\ ref[u] # ref[w] /\ x # w /\ w \in Slots /\ u \in Slots
    BY SlotsFacts DEF ArgsInv, ATypeOK, InOperation
<1> QED BY <1>1, Zenon DEF ArgsInv, ATypeOK, InOperation, Copied

\* The constructor that allocates a block.
LEMMA NewStep ==
    ASSUME ArgsInv, NEW v \in Objects, NEW r \in Refs, NEW n \in 0 .. Size, New(v, r, n)
    PROVE ArgsInv'
<1> USE DEF ArgsInv
<1>1. v \in Slots /\ r # Null /\ Size \in Nat
    BY SlotsFacts, ArgsAssumption, Zenon
<1>2. ATypeOK'
    BY <1>1, Zenon DEF New, ATypeOK
<1>3. Holders(r) = {} /\ deleter[r] = Null /\ cnt[r] = 0
    BY FS_EmptySet, Zenon DEF New, RefCounts, ATypeOK
<1>4. /\ Cardinality(Holders(r)') = Cardinality(Holders(r)) + 1
      /\ Holders(r)' # {}
      /\ \A s \in Refs : s # r => Holders(s)' = Holders(s)
    BY <1>1, TakeBlock, Zenon DEF New
<1>5. RefCounts'
    <2> SUFFICES ASSUME NEW s \in Refs
                 PROVE /\ cnt'[s] = Cardinality(Holders(s)')
                       /\ used'[s] <=> Holders(s)' # {} \/ deleter'[s] # Null
                       /\ deleter'[s] # Null => Holders(s)' = {}
        BY Zenon DEF RefCounts
    <2>1. CASE s = r
        BY <1>3, <1>4, <2>1, FS_EmptySet DEF New, ATypeOK
    <2>2. CASE s # r
        BY <1>4, <2>2, Zenon DEF New, ATypeOK, RefCounts
    <2> QED BY <2>1, <2>2, Zenon
<1>6. \A z \in Slots : ref[z] # r
    BY <1>3, Zenon DEF Holders
<1>7. \A s \in Refs, i \in 1 .. Size : ref'[Element(s, i)] = ref[Element(s, i)]
    BY <1>1, SlotsFacts DEF New, ATypeOK
<1>8. todo[v] = Null /\ fill[v] = 0 /\ \A w \in Objects : todo[w] # v
    BY Zenon DEF New, MayChange, Quiet
<1>9. \A s \in Refs : ~used'[s] => \A i \in 1 .. Size : ref'[Element(s, i)] = Null
    BY <1>7 DEF New, ATypeOK, InOperation
<1>10. ASSUME NEW w \in Objects, todo'[w] # Null PROVE ref'[w] = Null /\ fill'[todo'[w]] = 0
    BY <1>1, <1>8, <1>10, SlotsFacts, Zenon DEF New, ATypeOK, InOperation
<1>11. ASSUME NEW w \in Objects, fill'[w] > 0
       PROVE /\ ref'[w] # Null
             /\ \A x \in Slots : ref'[x] = ref'[w] => x = w
             /\ \A i \in 1 .. fill'[w] : ref'[Element(ref'[w], i)] = Null
    <2>1. CASE w = v
        <3>1. ref'[w] = r /\ fill'[w] \in 0 .. Size
            BY <1>1, <1>2, <2>1, Zenon DEF New, ATypeOK
        <3>2. \A i \in 1 .. Size : ref'[Element(r, i)] = Null
            BY <1>7 DEF New, InOperation
        <3> QED BY <1>1, <1>6, <2>1, <3>1, <3>2 DEF New, ATypeOK
    <2>2. CASE w # v
        <3>1. fill'[w] = fill[w] /\ fill[w] \in 0 .. Size /\ ref'[w] = ref[w] /\ w \in Slots /\ ref[w] \in Refs
            BY <1>11, <2>2, SlotsFacts, Zenon DEF New, ATypeOK, InOperation
        <3>2. ref[w] # r
            BY <1>6, <3>1, Zenon
        <3>3. \A x \in Slots : ref'[x] = ref[w] => x = w
            BY <1>1, <1>11, <3>1, <3>2, Zenon DEF New, ATypeOK, InOperation
        <3>4. \A i \in 1 .. fill[w] : ref'[Element(ref[w], i)] = Null
            BY <1>1, <1>7, <1>11, <3>1 DEF InOperation
        <3> QED BY <3>1, <3>3, <3>4, ArgsAssumption, Zenon
    <2> QED BY <2>1, <2>2, Zenon
<1> QED BY <1>2, <1>5, <1>9, <1>10, <1>11, Zenon DEF InOperation

\* The next element of an array being built.
LEMMA FillStep ==
    ASSUME ArgsInv, NEW v \in Objects, NEW u \in Objects, Fill(v, u)
    PROVE ArgsInv'
<1> USE DEF ArgsInv
<1>1. PICK r \in Refs : ref[v] = r
    BY SlotsFacts DEF Fill, ATypeOK, InOperation
<1>2. PICK k \in 1 .. Size : fill[v] = k
    BY ArgsAssumption DEF Fill, ATypeOK
<1> DEFINE x == Element(r, k)
<1>3. x \in Slots /\ x \notin Objects /\ ref[x] = Null /\ u \in Slots /\ Size \in Nat
    BY <1>1, <1>2, SlotsFacts, ArgsAssumption DEF Fill, InOperation
<1>4. Copied(x, u) /\ fill[u] = 0 /\ UNCHANGED <<used, deleter, todo>>
    BY <1>1, <1>2, Zenon DEF Fill, Quiet
<1>5. ref' \in [Slots -> Refs \cup {Null}] /\ cnt' \in [Refs -> Nat] /\ RefCounts'
    BY <1>3, <1>4, CopiedCounts, Zenon
<1>6. fill' = [fill EXCEPT ![v] = k - 1]
    BY <1>2, Zenon DEF Fill
<1>7. ATypeOK'
    BY <1>2, <1>3, <1>4, <1>5, <1>6 DEF ATypeOK
<1>8. \A z \in Slots : z # x => ref'[z] = ref[z]
    BY <1>3, <1>4, Zenon DEF Copied, ATypeOK
<1>9. used[r]
    BY <1>1, SlotsFacts, Zenon DEF RefCounts, Holders, ATypeOK
<1>10. \A s \in Refs : ~used'[s] => \A i \in 1 .. Size : ref'[Element(s, i)] = Null
    BY <1>2, <1>4, <1>8, <1>9, SlotsFacts DEF InOperation
<1>11. \A w \in Objects : ref'[w] = ref[w]
    BY <1>3, <1>8, SlotsFacts, Zenon
<1>12. ASSUME NEW w \in Objects, todo'[w] # Null PROVE ref'[w] = Null /\ fill'[todo'[w]] = 0
    BY <1>2, <1>4, <1>6, <1>11, <1>12 DEF ATypeOK, InOperation
<1>13. ASSUME NEW w \in Objects, fill'[w] > 0
       PROVE /\ ref'[w] # Null
             /\ \A z \in Slots : ref'[z] = ref'[w] => z = w
             /\ \A i \in 1 .. fill'[w] : ref'[Element(ref'[w], i)] = Null
    <2>1. fill[w] > 0 /\ fill[w] \in 1 .. Size /\ fill'[w] <= fill[w] /\ fill'[w] \in Nat
        BY <1>2, <1>3, <1>6, <1>13 DEF ATypeOK
    <2>2. ref'[w] = ref[w] /\ \A z \in Slots : ref'[z] = ref[w] => z = w
        BY <1>3, <1>4, <2>1, CopiedElsewhere, Zenon
    <2>3. ref[w] \in Refs /\ ref[w] # Null
        BY <2>1, SlotsFacts DEF InOperation, ATypeOK
    <2>4. ASSUME NEW i \in 1 .. fill'[w] PROVE ref'[Element(ref[w], i)] = Null
        <3>1. i \in 1 .. fill[w] /\ i \in 1 .. Size
            BY <1>3, <2>1
        <3>2. Element(ref[w], i) # x
            <4>1. CASE w = v
                <5>1. i # k
                    BY <1>2, <1>6, <4>1 DEF ATypeOK
                <5> QED BY <1>2, <2>3, <3>1, <5>1, SlotsFacts
            <4>2. CASE w # v
                <5>1. ref[w] # r
                    BY <1>1, <2>1, <4>2, SlotsFacts, Zenon DEF InOperation
                <5> QED BY <1>2, <2>3, <3>1, <5>1, SlotsFacts, Zenon
            <4> QED BY <4>1, <4>2, Zenon
        <3> QED BY <1>8, <2>1, <2>3, <3>1, <3>2, SlotsFacts, Zenon DEF InOperation
    <2> QED BY <2>2, <2>3, <2>4, Zenon
<1> QED BY <1>5, <1>7, <1>10, <1>12, <1>13, Zenon DEF InOperation

\* A number or a short string as the next element.
LEMMA FillPlainStep ==
    ASSUME ArgsInv, NEW v \in Objects, FillPlain(v)
    PROVE ArgsInv'
<1> USE DEF ArgsInv
<1>1. fill[v] \in 1 .. Size /\ Size \in Nat /\ fill' = [fill EXCEPT ![v] = fill[v] - 1]
    BY ArgsAssumption DEF FillPlain, ATypeOK
<1>2. UNCHANGED <<ref, cnt, used, deleter, todo>>
    BY Zenon DEF FillPlain
<1>3. ATypeOK'
    BY <1>1, <1>2 DEF ATypeOK
<1>4. RefCounts'
    BY <1>2 DEF RefCounts, Holders
<1>5. \A w \in Objects : fill'[w] \in Nat /\ fill[w] \in Nat /\ fill'[w] <= fill[w]
    BY <1>1 DEF ATypeOK
<1>6. \A w \in Objects : todo[w] # Null => fill'[todo[w]] = 0
    BY <1>5 DEF ATypeOK, InOperation
<1>7. ASSUME NEW w \in Objects, fill'[w] > 0 PROVE fill[w] > 0 /\ \A i \in 1 .. fill'[w] : i \in 1 .. fill[w]
    BY <1>5, <1>7
<1> QED BY <1>2, <1>3, <1>4, <1>6, <1>7, Zenon DEF InOperation

\* An object that holds nothing takes the block of another.
LEMMA CopyInto ==
    ASSUME ArgsInv, NEW v \in Objects, NEW u \in Objects, ref[v] = Null, fill[v] = 0, fill[u] = 0,
           Copied(v, u), UNCHANGED <<used, deleter, fill>>,
           (todo' = todo /\ todo[v] = Null) \/ todo' = [todo EXCEPT ![v] = Null]
    PROVE ArgsInv'
<1> USE DEF ArgsInv
<1>1. v \in Slots /\ u \in Slots
    BY SlotsFacts, Zenon
<1>2. ref' \in [Slots -> Refs \cup {Null}] /\ cnt' \in [Refs -> Nat] /\ RefCounts'
    BY <1>1, CopiedCounts, Zenon
<1>3. ATypeOK'
    BY <1>2, Zenon DEF ATypeOK
<1>4. \A z \in Slots : z # v => ref'[z] = ref[z]
    BY <1>1, Zenon DEF Copied, ATypeOK
<1>5. \A r \in Refs, i \in 1 .. Size : ref'[Element(r, i)] = ref[Element(r, i)]
    BY <1>4, SlotsFacts
<1>6. \A w \in Objects : todo'[w] # Null => ref'[w] = Null /\ fill'[todo'[w]] = 0
    BY <1>4, SlotsFacts DEF ATypeOK, InOperation
<1>7. ASSUME NEW w \in Objects, fill[w] > 0
      PROVE /\ ref'[w] # Null
            /\ \A x \in Slots : ref'[x] = ref'[w] => x = w
            /\ \A i \in 1 .. fill[w] : ref'[Element(ref'[w], i)] = Null
    <2>1. ref'[w] = ref[w] /\ \A z \in Slots : ref'[z] = ref[w] => z = w
        BY <1>1, <1>7, CopiedElsewhere, Zenon
    <2>2. ref[w] \in Refs /\ ref[w] # Null /\ \A i \in 1 .. fill[w] : i \in 1 .. Size
        BY <1>7, SlotsFacts, ArgsAssumption DEF InOperation, ATypeOK
    <2> QED BY <1>5, <1>7, <2>1, <2>2 DEF InOperation
<1> QED BY <1>2, <1>3, <1>5, <1>6, <1>7 DEF InOperation

\* The copy constructor, and operator= once it has released its own.
LEMMA CopySteps ==
    ASSUME ArgsInv, NEW v \in Objects,
           AssignCopies(v) \/ \E u \in Objects : Copy(v, u)
    PROVE ArgsInv'
<1>1. ASSUME NEW u \in Objects, Copy(v, u) PROVE ArgsInv'
    BY <1>1, CopyInto, Zenon DEF Copy, MayChange, Quiet
<1>2. CASE AssignCopies(v)
    <2>1. todo[v] \in Objects /\ ref[v] = Null /\ fill[todo[v]] = 0
        BY <1>2, Zenon DEF AssignCopies, ArgsInv, ATypeOK, InOperation
    <2>2. fill[v] = 0
        BY <2>1, ArgsAssumption DEF ArgsInv, ATypeOK, InOperation
    <2> QED BY <1>2, <2>1, <2>2, CopyInto, Zenon DEF AssignCopies
<1> QED BY <1>1, <1>2, Zenon

\* refRelease() of anything but an array being built.
LEMMA ReleaseFrom ==
    ASSUME ArgsInv, NEW v \in Objects, NEW x \in Slots, Released(v, x), UNCHANGED <<used, fill>>,
           \A w \in Objects : fill[w] > 0 => w # x,
           \/ todo' = todo
           \/ x = v /\ \E u \in Objects : fill[u] = 0 /\ todo' = [todo EXCEPT ![v] = u]
    PROVE ArgsInv'
<1> USE DEF ArgsInv
<1>1. /\ ref' \in [Slots -> Refs \cup {Null}] /\ cnt' \in [Refs -> Nat]
      /\ deleter' \in [Refs -> Objects \cup {Null}] /\ RefCounts'
    BY ReleasedCounts, Zenon
<1>2. ATypeOK'
    BY <1>1, Zenon DEF ATypeOK
<1>3. ref'[x] = Null /\ \A z \in Slots : z # x => ref'[z] = ref[z]
    BY Zenon DEF Released, ATypeOK
<1>4. \A r \in Refs, i \in 1 .. Size : ref[Element(r, i)] = Null => ref'[Element(r, i)] = Null
    BY <1>3, SlotsFacts, Zenon
<1>5. \A w \in Objects : todo'[w] # Null => ref'[w] = Null /\ fill'[todo'[w]] = 0
    BY <1>3, SlotsFacts DEF ATypeOK, InOperation
<1>6. ASSUME NEW w \in Objects, fill[w] > 0
      PROVE /\ ref'[w] # Null
            /\ \A z \in Slots : ref'[z] = ref'[w] => z = w
            /\ \A i \in 1 .. fill[w] : ref'[Element(ref'[w], i)] = Null
    <2>1. ref'[w] = ref[w] /\ ref[w] \in Refs /\ ref[w] # Null /\ \A i \in 1 .. fill[w] : i \in 1 .. Size
        BY <1>3, <1>6, SlotsFacts, ArgsAssumption DEF InOperation, ATypeOK
    <2>2. \A z \in Slots : ref'[z] = ref[w] => z = w
        BY <1>3, <1>6, <2>1 DEF InOperation
    <2> QED BY <1>4, <1>6, <2>1, <2>2 DEF InOperation
<1> QED BY <1>1, <1>2, <1>4, <1>5, <1>6, Zenon DEF InOperation

\* The destructor, the first half of operator=, and the elements of a block that
\* is being deleted.
LEMMA ReleaseSteps ==
    ASSUME ArgsInv, NEW v \in Objects,
           \/ DestroyArg(v)
           \/ \E u \in Objects : Assign(v, u)
           \/ \E r \in Refs, i \in 1 .. Size : DestroyElement(v, r, i)
    PROVE ArgsInv'
<1>1. CASE DestroyArg(v)
    BY <1>1, ReleaseFrom, SlotsFacts DEF DestroyArg, MayChange, Quiet
<1>2. ASSUME NEW u \in Objects, Assign(v, u) PROVE ArgsInv'
    <2>1. v \in Slots /\ Released(v, v) /\ UNCHANGED <<used, fill>>
        BY <1>2, SlotsFacts, Zenon DEF Assign
    <2>2. \A w \in Objects : fill[w] > 0 => w # v
        BY <1>2 DEF Assign, MayChange, Quiet, ArgsInv, ATypeOK
    <2>3. fill[u] = 0 /\ todo' = [todo EXCEPT ![v] = u]
        BY <1>2, Zenon DEF Assign, Quiet
    <2> HIDE <1>2
    <2> QED BY <2>1, <2>2, <2>3, ReleaseFrom, Zenon
<1>3. ASSUME NEW r \in Refs, NEW i \in 1 .. Size, DestroyElement(v, r, i) PROVE ArgsInv'
    BY <1>3, ReleaseFrom, SlotsFacts DEF DestroyElement
<1> QED BY <1>1, <1>2, <1>3, Zenon

\* The move constructor: one holder takes the place of another.
LEMMA MoveStep ==
    ASSUME ArgsInv, NEW v \in Objects, NEW u \in Objects, Move(v, u)
    PROVE ArgsInv'
<1> USE DEF ArgsInv
<1>1. /\ v \in Slots /\ u \in Slots /\ u # v /\ ref[v] = Null
      /\ fill[v] = 0 /\ fill[u] = 0 /\ todo[v] = Null /\ todo[u] = Null
      /\ UNCHANGED <<cnt, used, deleter, todo, fill>>
    BY SlotsFacts, Zenon DEF Move, MayChange, Quiet
<1>2. /\ ref' \in [Slots -> Refs \cup {Null}]
      /\ ref'[v] = ref[u] /\ ref'[u] = Null
      /\ \A z \in Slots : z # v /\ z # u => ref'[z] = ref[z]
    BY <1>1, Zenon DEF Move, ATypeOK
<1>3. ATypeOK'
    BY <1>1, <1>2, Zenon DEF ATypeOK
<1>4. \A r \in Refs, i \in 1 .. Size : ref'[Element(r, i)] = ref[Element(r, i)]
    BY <1>2, SlotsFacts
<1>5. ASSUME NEW r \in Refs
      PROVE Cardinality(Holders(r)') = Cardinality(Holders(r)) /\ (Holders(r)' = {} <=> Holders(r) = {})
    <2>1. r # Null
        BY ArgsAssumption, Zenon
    <2>2. CASE ref[u] = r
        <3>1. Holders(r)' = (Holders(r) \ {u}) \cup {v} /\ u \in Holders(r) /\ v \notin Holders(r) \ {u}
            BY <1>1, <1>2, <2>1, <2>2, Zenon DEF Holders
        <3>2. IsFiniteSet(Holders(r)) /\ Cardinality(Holders(r)) \in Nat
            BY HoldersFinite, Zenon
        <3>3. IsFiniteSet(Holders(r) \ {u}) /\ Cardinality(Holders(r) \ {u}) = Cardinality(Holders(r)) - 1
            BY <3>1, <3>2, FS_RemoveElement, Zenon
        <3>4. Cardinality(Holders(r)') = Cardinality(Holders(r) \ {u}) + 1
            BY <3>1, <3>3, FS_AddElement, Zenon
        <3> QED BY <3>1, <3>2, <3>3, <3>4
    <2>3. CASE ref[u] # r
        <3>1. Holders(r)' = Holders(r)
            BY <1>1, <1>2, <2>1, <2>3, Zenon DEF Holders
        <3> QED BY <3>1, Zenon
    <2> QED BY <2>2, <2>3, Zenon
<1>6. RefCounts'
    BY <1>1, <1>5, Zenon DEF RefCounts
<1>7. \A w \in Objects : todo'[w] # Null => ref'[w] = Null /\ fill'[todo'[w]] = 0
    BY <1>1, <1>2, SlotsFacts, Zenon DEF InOperation
<1>8. ASSUME NEW w \in Objects, fill[w] > 0
      PROVE /\ ref'[w] # Null
            /\ \A z \in Slots : ref'[z] = ref'[w] => z = w
            /\ \A i \in 1 .. fill[w] : ref'[Element(ref'[w], i)] = Null
    <2>1. w # v /\ w # u /\ w \in Slots
        BY <1>1, <1>8, SlotsFacts
    <2>2. ref'[w] = ref[w] /\ ref[w] \in Refs /\ ref[w] # Null /\ \A i \in 1 .. fill[w] : i \in 1 .. Size
        BY <1>2, <1>8, <2>1, ArgsAssumption DEF InOperation, ATypeOK
    <2>3. \A z \in Slots : ref'[z] = ref[w] => z = w
        BY <1>1, <1>2, <1>8, <2>1, <2>2 DEF InOperation
    <2> QED BY <1>4, <1>8, <2>2, <2>3 DEF InOperation
<1> QED BY <1>1, <1>3, <1>4, <1>6, <1>7, <1>8 DEF InOperation

\* The block is freed once its elements are destroyed.
LEMMA DeletedStep ==
    ASSUME ArgsInv, NEW v \in Objects, NEW r \in Refs, Deleted(v, r)
    PROVE ArgsInv'
<1> USE DEF ArgsInv
<1>1. v # Null
    BY ArgsAssumption, Zenon
<1>2. ATypeOK'
    BY Zenon DEF Deleted, ATypeOK
<1>3. RefCounts'
    <2>1. \A q \in Refs : Holders(q)' = Holders(q)
        BY Zenon DEF Deleted, Holders
    <2>2. Holders(r) = {}
        BY <1>1, Zenon DEF Deleted, RefCounts
    <2> QED BY <1>1, <2>1, <2>2, Zenon DEF Deleted, RefCounts, ATypeOK
<1>4. InOperation'
    BY DEF Deleted, InOperation, ATypeOK
<1> QED BY <1>2, <1>3, <1>4, Zenon

\* The constructors of a program's first arguments: nothing is allocated.
LEMMA ArgsInit == AInit => ArgsInv
<1> SUFFICES ASSUME AInit PROVE ArgsInv
    BY Zenon
<1>1. ATypeOK
    BY ArgsAssumption DEF AInit, ATypeOK
<1>2. \A r \in Refs : Holders(r) = {}
    BY ArgsAssumption, Zenon DEF AInit, Holders
<1>3. RefCounts
    BY <1>2, FS_EmptySet, Zenon DEF AInit, RefCounts
<1>4. InOperation
    BY SlotsFacts DEF AInit, InOperation
<1> QED BY <1>1, <1>3, <1>4, Zenon DEF ArgsInv

\* RefCounts for any number of threads, arguments and blocks: no block is used
\* after its deletion, deleted twice or lost, whatever refAcquire() and
\* refRelease() of the copies interleave.
THEOREM CountsAreRight == ASpec => []RefCounts
<1>1. ASSUME ArgsInv, [ANext]_avars PROVE ArgsInv'
    <2>1. CASE UNCHANGED avars
        <3>1. \A r \in Refs : Holders(r)' = Holders(r)
            BY <2>1, Zenon DEF avars, Holders
        <3>2. RefCounts'
            BY <1>1, <2>1, <3>1, Zenon DEF avars, ArgsInv, RefCounts
        <3> QED BY <1>1, <2>1, <3>2, Zenon DEF avars, ArgsInv, ATypeOK, InOperation
    <2>2. ASSUME NEW v \in Objects, AStep(v) PROVE ArgsInv'
        BY <1>1, <2>2, NewStep, FillStep, FillPlainStep, CopySteps, ReleaseSteps, MoveStep, DeletedStep, Zenon
        DEF AStep
    <2> QED BY <1>1, <2>1, <2>2, Zenon DEF ANext
<1>2. ArgsInv => RefCounts
    BY Zenon DEF ArgsInv
<1> QED BY <1>1, <1>2, ArgsInit, PTL DEF ASpec

-----------------------------------------------------------------------------
(* The synchronization, for any number of sockets, retries, sequence       *)
(* numbers and elements: the machine's own invariant holds in the          *)
(* composition, and so do the invariants on the replies, from NetInv.      *)

MachineInv == TypeOK /\ OneSocket /\ DownloadWatched

\* Some step of the machine, whatever the reply it is given.
MachineStep ==
    \/ OnHalt \/ OnSync \/ OnTimerTimeoutFired \/ TimeoutExpires
    \/ \E i \in Indexes : SetNextIndex(i)
    \/ \E i, n, r : OnReply(i, n, r)
    \/ UNCHANGED vars

\* setNextIndex() and ++seqNum_ stay within their ranges.
LEMMA Ranges ==
    /\ \A i \in Indexes : After(i) \in Indexes
    /\ 0 \in Indexes /\ 0 \in 0 .. MaxRetry /\ 0 \in 0 .. SeqMod - 1
    /\ seqNum \in 0 .. SeqMod - 1 => NextSeq \in 0 .. SeqMod - 1
BY SyncAssumption, SMT DEF After, Indexes, NextSeq

\* The constructor establishes the machine's invariant.
LEMMA MachineInit == Init => MachineInv
BY Ranges, Zenon DEF Init, MachineInv, TypeOK, OneSocket, DownloadWatched, States, Tmo!TInit

\* Every call of the machine preserves its invariant.
LEMMA MachineKeeps == MachineInv /\ MachineStep => MachineInv'
<1> SUFFICES ASSUME MachineInv, MachineStep PROVE MachineInv'
  BY Zenon
<1> USE DEF MachineInv, TypeOK, OneSocket, DownloadWatched, States
<1>1. CASE OnHalt
  BY <1>1, Ranges, Zenon DEF OnHalt, HaltWith, Tmo!TStop
<1>2. CASE OnSync
  <2>1. CASE state = "Failed"
    BY <1>2, <2>1, Ranges, Zenon DEF OnSync, Sync
  <2>2. CASE state # "Failed"
    BY <1>2, <2>2, Ranges, Zenon DEF OnSync, Sync
  <2> QED BY <2>1, <2>2, Zenon
<1>3. CASE OnTimerTimeoutFired
  <2>1. CASE state # "Download"
    <3>1. /\ closed' = {} /\ asked' = FALSE /\ tick' = FALSE
          /\ UNCHANGED <<state, indexCurr, indexNext, retryCurr, seqNum, armed, open>>
      BY <1>3, <2>1, Zenon DEF OnTimerTimeoutFired
    <3> QED BY <2>1, <3>1, Zenon
  <2>2. CASE state = "Download" /\ Fail
    BY <1>3, <2>2, Zenon DEF OnTimerTimeoutFired, Fail
  <2>3. CASE state = "Download" /\ retryCurr + 1 <= MaxRetry /\ Retry
    <3>1. retryCurr' \in 0 .. MaxRetry
      BY <2>3, SyncAssumption, SMT DEF Retry
    <3> QED BY <1>3, <2>3, <3>1, Ranges, Zenon DEF OnTimerTimeoutFired, Retry, Sync
  <2> QED BY <1>3, <2>1, <2>2, <2>3, Zenon DEF OnTimerTimeoutFired
<1>4. CASE TimeoutExpires
  BY <1>4, Zenon DEF TimeoutExpires, Tmo!TFire
<1>5. CASE \E i \in Indexes : SetNextIndex(i)
  <2>1. indexNext' \in Indexes
    BY <1>5, Zenon DEF SetNextIndex
  <2>2. /\ closed' = {} /\ asked' = FALSE
        /\ UNCHANGED <<state, indexCurr, retryCurr, seqNum, armed, tick, open>>
    BY <1>5, Zenon DEF SetNextIndex
  <2> QED BY <2>1, <2>2, Zenon
<1>6. CASE \E i, n, r : OnReply(i, n, r)
  <2>1. /\ closed' = {} /\ asked' = FALSE
        /\ UNCHANGED <<indexCurr, indexNext, retryCurr, seqNum, open>>
    BY <1>6, Zenon DEF OnReply
  <2>2. \/ state = "Download" /\ state' = "Synced" /\ armed' = FALSE /\ tick' = tick
        \/ state = "Download" /\ state' = state /\ armed' = TRUE /\ tick' = tick
        \/ UNCHANGED <<state, armed, tick>>
    BY <1>6, Zenon DEF OnReply, Accepts, Tmo!TStop, Tmo!TStart
  <2>3. CASE state = "Download" /\ state' = "Synced" /\ armed' = FALSE /\ tick' = tick
    BY <2>1, <2>3, Zenon
  <2>4. CASE state = "Download" /\ state' = state /\ armed' = TRUE /\ tick' = tick
    BY <2>1, <2>4, Zenon
  <2>5. CASE UNCHANGED <<state, armed, tick>>
    BY <2>1, <2>5, Zenon
  <2> QED BY <2>2, <2>3, <2>4, <2>5, Zenon
<1>7. CASE UNCHANGED vars
  BY <1>7, Zenon DEF vars
<1> QED BY <1>1, <1>2, <1>3, <1>4, <1>5, <1>6, <1>7, Zenon DEF MachineStep

\* A step of the composition is a step of the machine, or leaves it alone.
LEMMA StepOfMachine == [SNext]_svars => MachineStep
BY Zenon DEF SNext, svars, MachineStep, Request, Halt, TimeoutFired, Expiry, ChooseIndex,
       DeliveryBlocks, DeliveryReturns, ReplySnapshot, Receive

\* The machine's invariant in the composition.
LEMMA MachineInvariance == SSpec => []MachineInv
<1>1. SInit => MachineInv
  BY MachineInit, Zenon DEF SInit
<1>2. MachineInv /\ [SNext]_svars => MachineInv'
  BY MachineKeeps, StepOfMachine, Zenon
<1> QED BY <1>1, <1>2, PTL DEF SSpec

\* The socket of the current index, and no other, is open while the machine
\* downloads or is synced: doSync_ never finds it closed.
THEOREM SyncSockets == SSpec => []OneSocket
BY MachineInvariance, PTL DEF MachineInv

\* A download never waits without a timeout that would end it.
THEOREM SyncWatched == SSpec => []DownloadWatched
BY MachineInvariance, PTL DEF MachineInv

-----------------------------------------------------------------------------
\* Nothing is pending or in flight but on the current socket of a download.
NoneLeft ==
    \A i \in Indexes : state # "Download" \/ i # indexCurr => pend[i] = <<>> /\ flight[i] = <<>>

\* There the broker has at most the last request, before it answers it.
OneRequest ==
    pend[indexCurr] # <<>> =>
        /\ Len(pend[indexCurr]) = 1
        /\ pend[indexCurr][1].current /\ pend[indexCurr][1].seqn = seqNum
        /\ flight[indexCurr] = <<>> /\ got = 0

\* The type of the p-th message of an answer that has n elements.
TypeAt(p, n) == IF p = 1 THEN "Begin" ELSE IF p <= n + 1 THEN "Snapshot" ELSE "Complete"

\* What is in flight continues what was received, up to the completion.
Continues ==
    \A k \in 1 .. Len(flight[indexCurr]) :
        LET m == flight[indexCurr][k] IN
        /\ m.current /\ m.seqn = seqNum /\ m.size = flight[indexCurr][1].size
        /\ got + k <= m.size + 2
        /\ m.type = TypeAt(got + k, m.size)

NetInv == MachineInv /\ STypeOK /\ NoneLeft /\ OneRequest /\ Continues

\* Initially there is no message.
LEMMA NetInit == SInit => NetInv
<1> SUFFICES ASSUME SInit PROVE NetInv
  OBVIOUS
<1>1. MachineInv
  BY MachineInit, Zenon DEF SInit
<1>2. indexCurr \in Indexes
  BY <1>1, Zenon DEF MachineInv, TypeOK
<1>3. STypeOK
  <2>1. <<>> \in Seq(Requests) /\ <<>> \in Seq(Replies)
    OBVIOUS
  <2> QED BY <1>1, <2>1, SynchronizationAssumption DEF SInit, STypeOK, MachineInv
<1>4. NoneLeft /\ OneRequest
  BY <1>2, Zenon DEF SInit, NoneLeft, OneRequest
<1>5. Continues
  BY <1>2 DEF SInit, Continues
<1> QED BY <1>1, <1>3, <1>4, <1>5, Zenon DEF NetInv

\* The calls of the machine: one that asks follows no download or closes its
\* socket; one that does not goes on with the download, or ends it.
LEMMA Kinds ==
    ASSUME MachineInv,
           Request \/ Halt \/ TimeoutFired \/ Expiry \/ ChooseIndex
    PROVE  /\ Effects
           /\ asked' => state' = "Download" /\ (state # "Download" \/ indexCurr \in closed')
           /\ ~asked' /\ state' = "Download" =>
                state = "Download" /\ closed' = {} /\ UNCHANGED <<indexCurr, seqNum>>
           /\ ~asked' /\ state' # "Download" => state # "Download" \/ indexCurr \in closed'
<1> USE DEF MachineInv, TypeOK, OneSocket
<1>1. CASE Request
  BY <1>1, Zenon DEF Request, Served, OnSync, Sync
<1>2. CASE Halt
  BY <1>2, Zenon DEF Halt, Served, OnHalt, HaltWith
<1>3. CASE TimeoutFired
  BY <1>3, Zenon DEF TimeoutFired, OnTimerTimeoutFired, Fail, Retry, Sync
<1>4. CASE Expiry
  BY <1>4, Zenon DEF Expiry, TimeoutExpires
<1>5. CASE ChooseIndex
  BY <1>5, Zenon DEF ChooseIndex, Served, SetNextIndex
<1> QED BY <1>1, <1>2, <1>3, <1>4, <1>5, Zenon

\* The thread is in its loop, in a receive, or gone, after every call.
LEMMA ThreadKept ==
    ASSUME STypeOK, Request \/ Halt \/ TimeoutFired \/ Expiry \/ ChooseIndex
    PROVE  thread' \in {"loop", "snapshot", "delivery", "thrown"}
<1>1. CASE Request \/ Halt \/ ChooseIndex
  BY <1>1, Zenon DEF Request, Halt, ChooseIndex, Served
<1>2. CASE TimeoutFired
  BY <1>2, Zenon DEF TimeoutFired
<1>3. CASE Expiry
  BY <1>3, Zenon DEF Expiry, STypeOK
<1> QED BY <1>1, <1>2, <1>3, Zenon

\* Closing a socket empties it, and there is nothing to make old on an empty one.
LEMMA LeftEmpty == \A i, q : i \in closed' \/ q = <<>> => Left(i, q) = <<>>
BY DEF Left, Aged

\* A step of the machine keeps the invariant on the messages.
LEMMA CallsKeepNet ==
    ASSUME NetInv, MachineInv',
           Request \/ Halt \/ TimeoutFired \/ Expiry \/ ChooseIndex
    PROVE  NetInv'
<1> DEFINE req == [seqn |-> seqNum', current |-> TRUE]
<1>1. indexCurr \in Indexes /\ indexCurr' \in Indexes /\ seqNum' \in 0 .. SeqMod - 1 /\ TypeOK'
  BY Zenon DEF NetInv, MachineInv, TypeOK
<1>2. /\ flight' = [i \in Indexes |-> Left(i, flight[i])]
      /\ got' = IF asked' THEN 0 ELSE got
  BY Kinds, Zenon DEF NetInv, Effects
<1>3. PICK sent \in {FALSE, asked'} :
        pend' = [i \in Indexes |->
                   Left(i, pend[i]) \o IF sent /\ i = indexCurr' THEN <<req>> ELSE <<>>]
  BY Kinds, Zenon DEF NetInv, Effects
<1>4. req \in Requests /\ <<req>> \in Seq(Requests) /\ <<>> \in Seq(Requests) /\ <<>> \in Seq(Replies)
  BY <1>1 DEF Requests
<1>5. \A i \in Indexes : pend[i] \in Seq(Requests) /\ flight[i] \in Seq(Replies)
  BY Zenon DEF NetInv, STypeOK
<1>6. /\ got \in 0 .. MaxElems + 1 /\ got' \in 0 .. MaxElems + 1
      /\ thread' \in {"loop", "snapshot", "delivery", "thrown"}
  <2>1. got \in 0 .. MaxElems + 1 /\ got' \in 0 .. MaxElems + 1
    BY <1>2, SynchronizationAssumption DEF NetInv, STypeOK
  <2> QED BY <2>1, ThreadKept, Zenon DEF NetInv
<1>a. CASE asked'
  <2>1. state' = "Download" /\ (state # "Download" \/ indexCurr \in closed')
    BY <1>a, Kinds, Zenon DEF NetInv
  <2>2. \A i \in Indexes : Left(i, pend[i]) = <<>> /\ Left(i, flight[i]) = <<>>
    BY <2>1, LeftEmpty, Zenon DEF NetInv, NoneLeft
  <2>3. \A i \in Indexes : flight'[i] = <<>>
    BY <1>2, <2>2, Zenon
  <2>4. \A i \in Indexes : pend'[i] = IF sent /\ i = indexCurr' THEN <<req>> ELSE <<>>
    BY <1>3, <1>4, <2>2
  <2>5. STypeOK'
    BY <1>1, <1>2, <1>3, <1>4, <1>6, <2>3, <2>4, Zenon DEF STypeOK
  <2>6. NoneLeft'
    BY <2>1, <2>3, <2>4, Zenon DEF NoneLeft
  <2>7. OneRequest'
    BY <1>1, <1>2, <1>a, <2>3, <2>4 DEF OneRequest
  <2>8. Continues'
    BY <1>1, <2>3 DEF Continues
  <2> QED BY <2>5, <2>6, <2>7, <2>8, Zenon DEF NetInv
<1>b. CASE ~asked'
  <2>1. \A i \in Indexes : pend'[i] = Left(i, pend[i]) /\ flight'[i] = Left(i, flight[i])
    <3>1. \A i \in Indexes : Left(i, pend[i]) \in Seq(Requests)
      BY <1>b, <1>4, <1>5, Zenon DEF Left
    <3>2. sent = FALSE
      BY <1>1, <1>b, Zenon DEF TypeOK
    <3> QED BY <1>2, <1>3, <3>1, <3>2
  <2>2. \A i \in Indexes : /\ pend'[i] \in {<<>>, pend[i]}
                           /\ flight'[i] \in {<<>>, flight[i]}
    BY <1>b, <2>1, Zenon DEF Left
  <2>3. STypeOK'
    BY <1>1, <1>2, <1>3, <1>4, <1>5, <1>6, <2>2, Zenon DEF STypeOK
  <2>4. CASE state' = "Download"
    <3>1. state = "Download" /\ closed' = {} /\ indexCurr' = indexCurr /\ seqNum' = seqNum
      BY <1>b, <2>4, Kinds, Zenon DEF NetInv
    <3>2. \A i \in Indexes : pend'[i] = pend[i] /\ flight'[i] = flight[i]
      BY <1>b, <2>1, <3>1, Zenon DEF Left
    <3>3. got' = got
      BY <1>2, <1>b, Zenon
    <3>4. NoneLeft'
      BY <3>1, <3>2, <2>4, Zenon DEF NoneLeft, NetInv
    <3>5. OneRequest'
      BY <1>1, <3>1, <3>2, <3>3, Zenon DEF OneRequest, NetInv
    <3>6. Continues'
      BY <1>1, <3>1, <3>2, <3>3 DEF Continues, NetInv
    <3> QED BY <2>3, <3>4, <3>5, <3>6 DEF NetInv
  <2>5. CASE state' # "Download"
    <3>1. state # "Download" \/ indexCurr \in closed'
      BY <1>b, <2>5, Kinds, Zenon DEF NetInv
    <3>2. \A i \in Indexes : pend'[i] = <<>> /\ flight'[i] = <<>>
      BY <2>1, <3>1, LeftEmpty DEF NetInv, NoneLeft
    <3>3. NoneLeft' /\ OneRequest'
      BY <1>1, <3>2, Zenon DEF NoneLeft, OneRequest
    <3>4. Continues'
      BY <1>1, <3>2 DEF Continues
    <3> QED BY <2>3, <3>3, <3>4, Zenon DEF NetInv
  <2> QED BY <2>4, <2>5, Zenon
<1> QED BY <1>a, <1>b, Zenon

\* Nothing is left of a queue whose only message is taken.
LEMMA NoMessage == ASSUME NEW S, NEW q \in Seq(S), Len(q) = 0 PROVE q = <<>>
OBVIOUS

LEMMA TailOfOne == ASSUME NEW S, NEW q \in Seq(S), Len(q) = 1 PROVE Tail(q) = <<>>
<1>1. Tail(q) \in Seq(S) /\ Len(Tail(q)) = 0
  BY SMT
<1> QED BY <1>1, NoMessage, Zenon

\* The answer of a broker keeps it: it is to the only request there is.
LEMMA ReplyKeepsNet ==
    ASSUME NetInv, NEW i \in Indexes, ReplySnapshot(i)
    PROVE  NetInv'
<1>1. state = "Download" /\ i = indexCurr /\ pend[i] # <<>>
  BY Zenon DEF ReplySnapshot, NetInv, NoneLeft
<1>2. /\ Len(pend[i]) = 1 /\ Head(pend[i]).current /\ Head(pend[i]).seqn = seqNum
      /\ flight[i] = <<>> /\ got = 0 /\ pend[i] \in Seq(Requests)
  BY <1>1 DEF NetInv, OneRequest, STypeOK
<1>3. Tail(pend[i]) = <<>>
  BY <1>2, TailOfOne, Zenon
<1>4. UNCHANGED vars /\ got' = got /\ thread' = thread
  BY Zenon DEF ReplySnapshot
<1>5. /\ state' = state /\ indexCurr' = indexCurr /\ seqNum' = seqNum
      /\ seqNum \in 0 .. SeqMod - 1 /\ MachineInv'
  BY <1>4, Zenon DEF vars, NetInv, MachineInv, TypeOK, OneSocket, DownloadWatched
<1>6. pend' = [pend EXCEPT ![i] = <<>>]
  BY <1>3, Zenon DEF ReplySnapshot
<1> DEFINE reply(t, n) == [seqn |-> Head(pend[i]).seqn, current |-> Head(pend[i]).current,
                           type |-> t, size |-> n]
           all(n) == [k \in 1 .. n + 2 |-> reply(TypeAt(k, n), n)]
<1>n. PICK n \in 0 .. MaxElems : \E k \in 0 .. n + 2 :
        flight' = [flight EXCEPT ![i] = @ \o SubSeq(all(n), 1, k)]
  BY Zenon DEF ReplySnapshot, TypeAt
<1>7. PICK k \in 0 .. n + 2 : flight' = [flight EXCEPT ![i] = @ \o SubSeq(all(n), 1, k)]
  BY <1>n, Zenon
<1> DEFINE ans == SubSeq(all(n), 1, k)
<1>8. all(n) \in Seq(Replies) /\ Len(all(n)) = n + 2
  <2>1. \A p : reply(TypeAt(p, n), n) \in Replies
    BY <1>2, <1>5, Zenon DEF Replies, TypeAt
  <2>2. all(n) \in [1 .. n + 2 -> Replies]
    BY <2>1, Zenon
  <2>3. n + 2 \in Nat
    BY SynchronizationAssumption
  <2> HIDE DEF all
  <2> QED BY <2>2, <2>3
<1>9. ans \in Seq(Replies) /\ Len(ans) = k /\ \A j \in 1 .. k : ans[j] = all(n)[j]
  <2> HIDE DEF all
  <2> QED BY <1>8, SynchronizationAssumption
<1>10. \A j \in 1 .. k : ans[j] = reply(TypeAt(j, n), n)
  <2>1. \A j \in 1 .. k : j \in 1 .. n + 2
    BY SynchronizationAssumption
  <2> QED BY <1>9, <2>1, Zenon
<1> HIDE DEF ans, all
<1>11. <<>> \o ans = ans
  BY <1>9
<1>12. flight' = [flight EXCEPT ![i] = ans]
  BY <1>2, <1>7, <1>11, Zenon DEF ans
<1>13. pend \in [Indexes -> Seq(Requests)] /\ flight \in [Indexes -> Seq(Replies)]
  BY Zenon DEF NetInv, STypeOK
<1>14. STypeOK'
  <2>1. <<>> \in Seq(Requests)
    OBVIOUS
  <2> QED BY <1>5, <1>6, <1>9, <1>12, <1>13, <1>4, <2>1, Zenon DEF STypeOK, NetInv, MachineInv
<1>15. NoneLeft'
  BY <1>1, <1>5, <1>6, <1>12, <1>13, Zenon DEF NoneLeft, NetInv
<1>16. OneRequest'
  BY <1>1, <1>5, <1>6, <1>13, Zenon DEF OneRequest
<1>17. Continues'
  <2>1. flight'[indexCurr'] = ans
    BY <1>1, <1>5, <1>12, <1>13, Zenon
  <2>2. \A j \in 1 .. k : /\ ans[j].current /\ ans[j].seqn = seqNum /\ ans[j].size = n
                          /\ ans[j].type = TypeAt(j, n)
    <3>1. \A t : /\ reply(t, n).current = Head(pend[i]).current /\ reply(t, n).size = n
                 /\ reply(t, n).seqn = Head(pend[i]).seqn /\ reply(t, n).type = t
      BY Zenon
    <3> HIDE DEF reply
    <3> QED BY <1>2, <1>10, <3>1
  <2>3. \A j \in 1 .. k : 1 \in 1 .. k /\ 0 + j = j /\ j <= n + 2
    BY SynchronizationAssumption
  <2>4. got' = 0 /\ seqNum' = seqNum
    BY <1>2, <1>4, <1>5, Zenon
  <2>5. \A j \in 1 .. k :
          /\ ans[j].current /\ ans[j].seqn = seqNum' /\ ans[j].size = ans[1].size
          /\ got' + j <= ans[j].size + 2
          /\ ans[j].type = TypeAt(got' + j, ans[j].size)
    BY <2>2, <2>3, <2>4, Zenon
  <2> QED BY <1>9, <2>1, <2>5, Zenon DEF Continues
<1> QED BY <1>5, <1>14, <1>15, <1>16, <1>17, Zenon DEF NetInv

\* So does the receipt of a reply: it is accepted, and a completion is the last.
LEMMA ReceiveKeepsNet ==
    ASSUME NetInv, MachineInv', NEW i \in Indexes, Receive(i)
    PROVE  NetInv'
<1> DEFINE m == Head(flight[i])
<1>1. state = "Download" /\ i = indexCurr /\ flight[i] # <<>>
  BY Zenon DEF Receive, NetInv, NoneLeft
<1>2. pend \in [Indexes -> Seq(Requests)] /\ flight \in [Indexes -> Seq(Replies)]
      /\ got \in 0 .. MaxElems + 1
  BY Zenon DEF NetInv, STypeOK
<1>3. flight[i] \in Seq(Replies) /\ Len(flight[i]) \in Nat \ {0} /\ m = flight[i][1]
      /\ Tail(flight[i]) \in Seq(Replies) /\ m \in Replies
      /\ Len(Tail(flight[i])) = Len(flight[i]) - 1
      /\ \A k \in 1 .. Len(flight[i]) - 1 : Tail(flight[i])[k] = flight[i][k + 1]
  BY <1>1, <1>2
<1>4. pend[i] = <<>>
  BY <1>1, Zenon DEF NetInv, OneRequest
<1>5. Accepts(i, m.seqn) /\ got + 1 <= m.size + 2 /\ m.size \in 0 .. MaxElems
      /\ m.type = TypeAt(got + 1, m.size)
  BY <1>1, <1>3 DEF NetInv, Continues, Accepts, Replies
<1>6. /\ pend' = pend /\ flight' = [flight EXCEPT ![i] = Tail(@)]
      /\ indexCurr' = indexCurr /\ seqNum' = seqNum /\ thread' = "loop"
  BY Zenon DEF Receive, OnReply, vars
<1>7. flight'[i] = Tail(flight[i]) /\ \A j \in Indexes : j # i => flight'[j] = flight[j]
  BY <1>2, <1>6, Zenon
<1>8. got' \in 0 .. MaxElems + 1
  <2>1. m.type # "Complete" => got + 1 <= m.size + 1
    BY <1>2, <1>5, SynchronizationAssumption DEF TypeAt
  <2>2. m.type # "Complete" => got + 1 \in 0 .. MaxElems + 1
    BY <1>2, <1>5, <2>1, SynchronizationAssumption
  <2> QED BY <1>2, <2>2, Zenon DEF Receive
<1>9. STypeOK'
  BY <1>2, <1>3, <1>6, <1>8, Zenon DEF STypeOK, MachineInv
<1>10. OneRequest'
  BY <1>1, <1>4, <1>6, Zenon DEF OneRequest
<1>11. CASE m.type # "Complete"
  <2>1. state' = "Download" /\ got' = got + 1
    BY <1>1, <1>5, <1>11, Zenon DEF Receive, OnReply, vars
  <2>2. NoneLeft'
    BY <1>1, <1>6, <1>7, <2>1, Zenon DEF NoneLeft, NetInv
  <2>3. ASSUME NEW k \in 1 .. Len(flight[i]) - 1
        PROVE  LET r == Tail(flight[i])[k] IN
               /\ r.current /\ r.seqn = seqNum /\ r.size = Tail(flight[i])[1].size
               /\ got + 1 + k <= r.size + 2
               /\ r.type = TypeAt(got + 1 + k, r.size)
    <3>1. Tail(flight[i])[k] = flight[i][k + 1] /\ Tail(flight[i])[1] = flight[i][2]
      BY <1>3
    <3>2. k + 1 \in 1 .. Len(flight[i]) /\ 2 \in 1 .. Len(flight[i]) /\ got + 1 + k = got + (k + 1)
      BY <1>2, <1>3, SMTT(20)
    <3> QED BY <1>1, <3>1, <3>2 DEF NetInv, Continues
  <2>4. Continues'
    <3>1. flight'[indexCurr'] = Tail(flight[i]) /\ Len(Tail(flight[i])) = Len(flight[i]) - 1
      BY <1>1, <1>3, <1>6, <1>7, Zenon
    <3>2. ASSUME NEW k \in 1 .. Len(flight'[indexCurr'])
          PROVE  LET r == flight'[indexCurr'][k] IN
                 /\ r.current /\ r.seqn = seqNum' /\ r.size = flight'[indexCurr'][1].size
                 /\ got' + k <= r.size + 2
                 /\ r.type = TypeAt(got' + k, r.size)
      BY <1>6, <2>1, <2>3, <3>1, Zenon
    <3> QED BY <3>2, Zenon DEF Continues
  <2> QED BY <1>9, <1>10, <2>2, <2>4, Zenon DEF NetInv
<1>12. CASE m.type = "Complete"
  <2>1. state' = "Synced"
    BY <1>5, <1>12, Zenon DEF Receive, OnReply
  <2>2. got = m.size + 1
    <3>1. ~(got + 1 <= m.size + 1)
      BY <1>5, <1>12, Zenon DEF TypeAt
    <3>2. got + 1 <= m.size + 2 /\ m.size \in 0 .. MaxElems
      BY <1>5, Zenon
    <3> HIDE DEF m
    <3> QED BY <1>2, <3>1, <3>2, SynchronizationAssumption
  <2>3. Len(flight[i]) = 1
    <3>0. Len(flight[i]) \in Nat \ {0}
      BY <1>3, Zenon
    <3>1. SUFFICES ASSUME 2 \in 1 .. Len(flight[i]) PROVE FALSE
      <4>1. \A l \in Nat \ {0} : l = 1 \/ 2 \in 1 .. l
        BY SMT
      <4> QED BY <3>0, <4>1, Zenon
    <3>2. flight[i][2].size = m.size /\ got + 2 <= flight[i][2].size + 2
      BY <1>1, <1>3, <3>1 DEF NetInv, Continues
    <3>3. got + 2 <= m.size + 2 /\ m.size \in 0 .. MaxElems
      BY <1>5, <3>2, Zenon
    <3> HIDE DEF m
    <3> QED BY <2>2, <3>3, SynchronizationAssumption
  <2>4. Tail(flight[i]) = <<>>
    BY <1>3, <2>3, TailOfOne, Zenon
  <2>5. NoneLeft'
    BY <1>1, <1>4, <1>6, <1>7, <2>4, Zenon DEF NoneLeft, NetInv
  <2>6. Continues'
    <3>1. flight'[indexCurr'] = <<>>
      BY <1>1, <1>6, <1>7, <2>4, Zenon
    <3> QED BY <3>1 DEF Continues
  <2> QED BY <1>9, <1>10, <2>5, <2>6 DEF NetInv
<1> QED BY <1>5, <1>11, <1>12, Zenon

\* The invariant on the messages holds in every state.
LEMMA NetInvariance == SSpec => []NetInv
<1>1. NetInv /\ [SNext]_svars => NetInv'
  <2> SUFFICES ASSUME NetInv, [SNext]_svars PROVE NetInv'
    BY Zenon
  <2>1. MachineInv'
    BY MachineKeeps, StepOfMachine, Zenon DEF NetInv
  <2>2. CASE Request \/ Halt \/ TimeoutFired \/ Expiry \/ ChooseIndex
    BY <2>1, <2>2, CallsKeepNet, Zenon
  <2>3. ASSUME NEW i \in Indexes, ReplySnapshot(i) PROVE NetInv'
    BY <2>3, ReplyKeepsNet, Zenon
  <2>4. ASSUME NEW i \in Indexes, Receive(i) PROVE NetInv'
    BY <2>1, <2>4, ReceiveKeepsNet, Zenon
  <2>5. CASE UNCHANGED <<vars, pend, flight, got>> /\ thread' \in {"loop", "snapshot", "delivery", "thrown"}
    BY <2>1, <2>5, Zenon DEF vars, NetInv, STypeOK, NoneLeft, OneRequest, Continues,
                      MachineInv
  <2>6. CASE DeliveryBlocks \/ DeliveryReturns \/ UNCHANGED svars
    BY <2>5, <2>6, Zenon DEF DeliveryBlocks, DeliveryReturns, svars, netVars, NetInv, STypeOK
  <2> QED BY <2>2, <2>3, <2>4, <2>6, Zenon DEF SNext
<1> QED BY <1>1, NetInit, PTL DEF SSpec

\* The machine, the requests and the replies stay well formed.
THEOREM SyncTypes == SSpec => []STypeOK
BY NetInvariance, PTL DEF NetInv

\* No reply to an earlier request arrives after a retry, a failure or a halt:
\* onReply() accepts whatever the open socket delivers.
THEOREM RepliesAreCurrent == SSpec => []OnlyCurrentReplies
<1>1. NetInv => OnlyCurrentReplies
  BY DEF NetInv, STypeOK, NoneLeft, Continues, OnlyCurrentReplies, Accepts
<1> QED BY <1>1, NetInvariance, PTL

\* A completion is accepted after all the elements of its own snapshot.
THEOREM SnapshotIsWhole == SSpec => []WholeSnapshot
<1>1. NetInv => WholeSnapshot
  <2> SUFFICES ASSUME NetInv, NEW i \in Indexes, flight[i] # <<>>,
                      Head(flight[i]).type = "Complete", Accepts(i, Head(flight[i]).seqn)
               PROVE  got = Head(flight[i]).size + 1
    BY Zenon DEF WholeSnapshot
  <2>1. i = indexCurr /\ flight[i] \in Seq(Replies) /\ got \in 0 .. MaxElems + 1
    BY Zenon DEF Accepts, NetInv, STypeOK
  <2>2. 1 \in 1 .. Len(flight[i]) /\ Head(flight[i]) = flight[i][1] /\ flight[i][1] \in Replies
    BY <2>1, SMTT(20)
  <2>3. /\ got + 1 <= flight[i][1].size + 2 /\ ~(got + 1 <= flight[i][1].size + 1)
        /\ flight[i][1].size \in 0 .. MaxElems
    BY <2>1, <2>2, Zenon DEF NetInv, Continues, Replies, TypeAt
  <2> QED BY <2>1, <2>2, <2>3, SynchronizationAssumption
<1> QED BY <1>1, NetInvariance, PTL
=============================================================================
