-------------------------------- MODULE Uuids --------------------------------
(***************************************************************************)
(* Uuid objects, which make their string when it is first asked for and    *)
(* keep it.  An object is created and assigned by the thread that owns it, *)
(* but any thread may ask for the string, which cacheSrepr() writes in two *)
(* steps, a half in each, under the object's mutex.                        *)
(* Another thread's object is copied while nobody is converting it:        *)
(* operator= locks only its left side.                                     *)
(***************************************************************************)
EXTENDS Naturals, FiniteSets

CONSTANTS
    Uuids,      \* Uuid objects
    UuidBytes,  \* values of bytes_
    Readers,    \* threads
    UuidOwner,  \* the thread that assigns an object
    NullUuid,   \* bytes_ of Uuid()
    Nobody

ASSUME UuidsAssumption ==
    /\ UuidOwner \in [Uuids -> Readers]
    /\ NullUuid \in UuidBytes
    /\ Nobody \notin Readers

VARIABLES
    bytes,      \* bytes_
    cached,     \* cached_
    srepr,      \* the bytes that each half of srepr_ was made from
    reprMux,    \* the thread that holds reprMux_
    halves,     \* halves that the thread holding it has still to write
    view        \* the objects whose string a thread was given and still reads

ivars == <<bytes, cached, srepr, reprMux, halves, view>>

\* Uuid(): null, and srepr_ holds anything.
IInit ==
    /\ bytes = [u \in Uuids |-> NullUuid]
    /\ cached = [u \in Uuids |-> FALSE]
    /\ srepr \in [Uuids -> [1 .. 2 -> UuidBytes]]
    /\ reprMux = [u \in Uuids |-> Nobody]
    /\ halves = [u \in Uuids |-> 0]
    /\ view = [t \in Readers |-> {}]

Unlocked(t) == \A u \in Uuids : reprMux[u] # t

\* An object is changed by its owner while no string of it is read.
Changes(t, u) ==
    /\ UuidOwner[u] = t
    /\ Unlocked(t) /\ reprMux[u] = Nobody
    /\ \A r \in Readers : u \notin view[r]

\* Variant: the string of the old bytes is kept.
Assign_KeepsString(t, u, v) ==
    /\ Changes(t, u) /\ reprMux[v] = Nobody
    /\ bytes' = [bytes EXCEPT ![u] = bytes[v]]
    /\ UNCHANGED <<cached, srepr, reprMux, halves, view>>

\* operator= and the copy constructor.
AssignUuid(t, u, v) ==
    /\ Changes(t, u) /\ reprMux[v] = Nobody
    /\ bytes' = [bytes EXCEPT ![u] = bytes[v]]
    /\ cached' = [cached EXCEPT ![u] = cached[v]]
    /\ srepr' = [srepr EXCEPT ![u] = srepr[v]]
    /\ UNCHANGED <<reprMux, halves, view>>

\* The value of fromBytes(), on which the other makers are built, is assigned.
FromBytes(t, u, b) ==
    /\ Changes(t, u)
    /\ bytes' = [bytes EXCEPT ![u] = b]
    /\ cached' = [cached EXCEPT ![u] = FALSE]
    /\ \E s \in [1 .. 2 -> UuidBytes] : srepr' = [srepr EXCEPT ![u] = s]
    /\ UNCHANGED <<reprMux, halves, view>>

\* toString() or toShortString(): cacheSrepr() locks, and has nothing to do for
\* a string that is there.
ToString(t, u) ==
    /\ Unlocked(t) /\ reprMux[u] = Nobody
    /\ u \notin view[t]
    /\ IF cached[u]
       THEN /\ view' = [view EXCEPT ![t] = @ \cup {u}]
            /\ UNCHANGED <<reprMux, halves>>
       ELSE /\ reprMux' = [reprMux EXCEPT ![u] = t]
            /\ halves' = [halves EXCEPT ![u] = 2]
            /\ UNCHANGED view
    /\ UNCHANGED <<bytes, cached, srepr>>

\* srepr_ = sreprFromBytes(bytes_).
WriteHalf(t, u) ==
    /\ reprMux[u] = t /\ halves[u] > 0
    /\ srepr' = [srepr EXCEPT ![u][halves[u]] = bytes[u]]
    /\ halves' = [halves EXCEPT ![u] = @ - 1]
    /\ UNCHANGED <<bytes, cached, reprMux, view>>

\* cached_ = true, unlock, and the view is returned.
Cached(t, u) ==
    /\ reprMux[u] = t /\ halves[u] = 0
    /\ cached' = [cached EXCEPT ![u] = TRUE]
    /\ reprMux' = [reprMux EXCEPT ![u] = Nobody]
    /\ view' = [view EXCEPT ![t] = @ \cup {u}]
    /\ UNCHANGED <<bytes, srepr, halves>>

DropView(t, u) ==
    /\ u \in view[t] /\ Unlocked(t)
    /\ view' = [view EXCEPT ![t] = @ \ {u}]
    /\ UNCHANGED <<bytes, cached, srepr, reprMux, halves>>

INext ==
    \E t \in Readers, u \in Uuids :
        \/ \E v \in Uuids : AssignUuid(t, u, v)
        \/ \E b \in UuidBytes : FromBytes(t, u, b)
        \/ ToString(t, u) \/ WriteHalf(t, u) \/ Cached(t, u)
        \/ DropView(t, u)

ISpec == IInit /\ [][INext]_ivars

-----------------------------------------------------------------------------
\* A string that a thread was given by toString() stands whole for the bytes of
\* the object for as long as it is read, also while other threads ask for it;
\* and so does one that the object keeps for the next.
StringsTrue ==
    \A u \in Uuids :
        cached[u] \/ (\E t \in Readers : u \in view[t]) =>
            \A i \in 1 .. 2 : srepr[u][i] = bytes[u]
=============================================================================
