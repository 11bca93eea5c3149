------------------------------ MODULE TokenPool ------------------------------
(***************************************************************************)
(* TokenPool: threads that get tokens from a socket pair that keeps them,  *)
(* and put them back.  A token has IdSize bytes for 4, and travels in a    *)
(* Part: get() reads it with toUint32(), which alters a number with a byte *)
(* in the upper half below its last one, so that two tokens may come out   *)
(* with one number.                                                        *)
(***************************************************************************)
EXTENDS Packing, FiniteSets
LOCAL INSTANCE Bags
LOCAL INSTANCE FiniteSetsExt

CONSTANTS
    IdSize,
    IdMin, IdMax,   \* the range the pool is made with
    Takers          \* threads that use the pool

ASSUME TokenPoolAssumption ==
    /\ {IdSize, IdMin, IdMax} \subseteq Nat
    /\ IdMin <= IdMax /\ IdMax < Word(IdSize)

VARIABLES
    nextId,   \* id in the constructor
    filled,   \* the constructor has returned
    pool,     \* the Parts in the socket pair
    taken     \* the bag of tokens each thread holds

ovars == <<nextId, filled, pool, taken>>

OInit ==
    /\ nextId = IdMin
    /\ filled = FALSE
    /\ pool = <<>>
    /\ taken = [t \in Takers |-> EmptyBag]

Put(id) == pool' = Append(pool, PartOf(id, IdSize))

\* Variant: the range is taken without its end.
FillPool_Short ==
    /\ ~filled
    /\ IF nextId < IdMax
       THEN Put(nextId) /\ nextId' = (nextId + 1) % Word(IdSize) /\ UNCHANGED filled
       ELSE filled' = TRUE /\ UNCHANGED <<pool, nextId>>
    /\ UNCHANGED taken

\* The loop of the constructor, over an unsigned counter.
FillPool ==
    /\ ~filled
    /\ IF nextId <= IdMax
       THEN Put(nextId) /\ nextId' = (nextId + 1) % Word(IdSize) /\ UNCHANGED filled
       ELSE filled' = TRUE /\ UNCHANGED <<pool, nextId>>
    /\ UNCHANGED taken

\* get(), which waits for a token, and tryGet() when there is one.
Get(t) ==
    /\ filled /\ pool # <<>>
    /\ pool' = Tail(pool)
    /\ taken' = [taken EXCEPT ![t] = @ (+) SetToBag({ToUint(Head(pool), IdSize)})]
    /\ UNCHANGED <<nextId, filled>>

GiveBack(t, id) ==
    /\ filled /\ BagIn(id, taken[t])
    /\ Put(id)
    /\ taken' = [taken EXCEPT ![t] = @ (-) SetToBag({id})]
    /\ UNCHANGED <<nextId, filled>>

ONext ==
    \/ FillPool
    \/ \E t \in Takers : Get(t) \/ \E id \in BagToSet(taken[t]) : GiveBack(t, id)

OSpec == OInit /\ [][ONext]_ovars

-----------------------------------------------------------------------------
\* What get() makes of a token that was put as a given id.
Reads(id) == ToUint(PartOf(id, IdSize), IdSize)

\* The tokens in the pool that get() will read as n, and those that it gave to a
\* thread as n and that the thread did not put back.
Places(n) ==
    Cardinality({i \in DOMAIN pool : ToUint(pool[i], IdSize) = n})
        + MapThenSumSet(LAMBDA t : CopiesIn(n, taken[t]), Takers)

\* No token is lost, made twice or altered once more on its way through the pool,
\* whichever threads get and put it back: a number is held by as many threads and
\* Parts of the pool as the range has ids that toUint32() reads as that number.
\* For an id whose bytes below the last are in the lower half, that is the id.
TokensConserved ==
    filled => \A n \in 0 .. Word(IdSize) - 1 :
                  Places(n) = Cardinality({id \in IdMin .. IdMax : Reads(id) = n})
=============================================================================
