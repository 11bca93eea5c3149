--------------------------------- MODULE Args ---------------------------------
(***************************************************************************)
(* log::Arg, the arguments of log messages.  A long string or an array is  *)
(* kept in a heap block shared by the Args that were copied from one       *)
(* another; the block counts them and the last one deletes it.  Every Arg  *)
(* object is used by a thread of its own, and only the counts are atomic.  *)
(* A heap string is a block without elements that hold a block.            *)
(***************************************************************************)
EXTENDS Naturals, FiniteSets

CONSTANTS
    Objects,   \* Arg objects, other than the elements of arrays
    Refs,      \* heap blocks, Ref<char> or Ref<Arg>
    Size,      \* the largest number of elements of an array
    Null

ASSUME ArgsAssumption ==
    /\ IsFiniteSet(Objects) /\ IsFiniteSet(Refs)
    /\ Size \in Nat
    /\ Null \notin Objects \cup Refs
    /\ Objects \cap (Refs \X (1 .. Size)) = {}

VARIABLES
    ref,       \* val_ of an Arg whose alloc_ is Heap, Null for the others
    cnt,       \* cnt_
    used,      \* the block is allocated
    deleter,   \* the object that let the count go to zero
    todo,      \* of operator= between refRelease() and the copy: other
    fill       \* elements that an array's constructor has still to assign

avars == <<ref, cnt, used, deleter, todo, fill>>

Element(r, i) == <<r, i>>
Slots == Objects \cup (Refs \X (1 .. Size))

AInit ==
    /\ ref = [x \in Slots |-> Null]
    /\ cnt = [r \in Refs |-> 0]
    /\ used = [r \in Refs |-> FALSE]
    /\ deleter = [r \in Refs |-> Null]
    /\ todo = [v \in Objects |-> Null]
    /\ fill = [v \in Objects |-> 0]

\* The thread of an object is not inside one of its operations.
Quiet(v) == (\A r \in Refs : deleter[r] # v) /\ todo[v] = Null /\ fill[v] = 0

\* Nor is the object being read by another one's operator=.
MayChange(v) == Quiet(v) /\ \A u \in Objects : todo[u] # v

-----------------------------------------------------------------------------
\* Variant: a copy is not counted.
Copied_Uncounted(x, y) ==
    /\ ref' = [ref EXCEPT ![x] = ref[y]]
    /\ UNCHANGED cnt

\* The members of y are copied to x, and refAcquire().
Copied(x, y) ==
    /\ ref' = [ref EXCEPT ![x] = ref[y]]
    /\ cnt' = IF ref[y] = Null THEN cnt ELSE [cnt EXCEPT ![ref[y]] = @ + 1]

\* refRelease() by the thread of v: a count that goes to zero makes it the one
\* that deletes the block.
Released(v, x) ==
    /\ ref' = [ref EXCEPT ![x] = Null]
    /\ IF ref[x] = Null THEN UNCHANGED <<cnt, deleter>>
       ELSE /\ cnt' = [cnt EXCEPT ![ref[x]] = @ - 1]
            /\ deleter' = IF cnt[ref[x]] = 1 THEN [deleter EXCEPT ![ref[x]] = v] ELSE deleter

\* Arg(key, string) with a long string, or Arg(key, array, n).
New(v, r, n) ==
    /\ MayChange(v) /\ ref[v] = Null
    /\ ~used[r]
    /\ used' = [used EXCEPT ![r] = TRUE]
    /\ cnt' = [cnt EXCEPT ![r] = 1]
    /\ ref' = [ref EXCEPT ![v] = r]
    /\ fill' = [fill EXCEPT ![v] = n]
    /\ UNCHANGED <<deleter, todo>>

\* buf_[i] = val[i] in that constructor.
Fill(v, u) ==
    /\ fill[v] > 0
    /\ u # v /\ Quiet(u)
    /\ Copied(Element(ref[v], fill[v]), u)
    /\ fill' = [fill EXCEPT ![v] = @ - 1]
    /\ UNCHANGED <<used, deleter, todo>>

\* The same for a number or a short string.
FillPlain(v) ==
    /\ fill[v] > 0
    /\ fill' = [fill EXCEPT ![v] = @ - 1]
    /\ UNCHANGED <<ref, cnt, used, deleter, todo>>

Copy(v, u) ==
    /\ MayChange(v) /\ ref[v] = Null
    /\ u # v /\ Quiet(u)
    /\ Copied(v, u)
    /\ UNCHANGED <<used, deleter, todo, fill>>

Move(v, u) ==
    /\ MayChange(v) /\ ref[v] = Null
    /\ u # v /\ MayChange(u)
    /\ ref' = [ref EXCEPT ![v] = ref[u], ![u] = Null]
    /\ UNCHANGED <<cnt, used, deleter, todo, fill>>

DestroyArg(v) ==
    /\ MayChange(v)
    /\ Released(v, v)
    /\ UNCHANGED <<used, todo, fill>>

\* operator=, which is nothing for an object and itself; then the copy.
Assign(v, u) ==
    /\ MayChange(v)
    /\ u # v /\ Quiet(u)
    /\ Released(v, v)
    /\ todo' = [todo EXCEPT ![v] = u]
    /\ UNCHANGED <<used, fill>>

AssignCopies(v) ==
    /\ todo[v] # Null /\ \A r \in Refs : deleter[r] # v
    /\ Copied(v, todo[v])
    /\ todo' = [todo EXCEPT ![v] = Null]
    /\ UNCHANGED <<used, deleter, fill>>

\* ~Ref() destroys the elements one by one, and with an array in the array its
\* own; which one is next does not matter.
DestroyElement(v, r, i) ==
    /\ deleter[r] = v
    /\ ref[Element(r, i)] # Null
    /\ Released(v, Element(r, i))
    /\ UNCHANGED <<used, todo, fill>>

Deleted(v, r) ==
    /\ deleter[r] = v
    /\ \A i \in 1 .. Size : ref[Element(r, i)] = Null
    /\ used' = [used EXCEPT ![r] = FALSE]
    /\ deleter' = [deleter EXCEPT ![r] = Null]
    /\ UNCHANGED <<ref, cnt, todo, fill>>

-----------------------------------------------------------------------------
AStep(v) ==
    \/ \E r \in Refs, n \in 0 .. Size : New(v, r, n)
    \/ \E u \in Objects : Fill(v, u) \/ Copy(v, u) \/ Move(v, u) \/ Assign(v, u)
    \/ FillPlain(v)
    \/ DestroyArg(v)
    \/ AssignCopies(v)
    \/ \E r \in Refs : Deleted(v, r) \/ \E i \in 1 .. Size : DestroyElement(v, r, i)

ANext == \E v \in Objects : AStep(v)

ASpec == AInit /\ [][ANext]_avars

-----------------------------------------------------------------------------
Holders(r) == {x \in Slots : ref[x] = r}

\* The counts are right at every moment, and a block is allocated exactly while
\* somebody holds it or the one that held it last is deleting it: none is used
\* after its deletion, none is deleted twice, none is left behind.
RefCounts ==
    \A r \in Refs :
        /\ cnt[r] = Cardinality(Holders(r))
        /\ used[r] <=> Holders(r) # {} \/ deleter[r] # Null
        /\ deleter[r] # Null => Holders(r) = {}
=============================================================================
