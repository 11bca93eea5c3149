------------------------------- MODULE LruCache -------------------------------
(***************************************************************************)
(* LRUCache<K, V>: a list of items, from the least to the most recently    *)
(* put, with one item per key.  The map_ of the class, from keys to their  *)
(* places in the list, is At.  Capacity 0 means no limit.                  *)
(***************************************************************************)
EXTENDS Naturals, Sequences, Selecting

KeysOf(c) == {c[i].key : i \in DOMAIN c}

At(c, k) == CHOOSE i \in DOMAIN c : c[i].key = k

\* find(k)->second, for a key of the cache.
Find(c, k) == c[At(c, k)].val

\* Room for a new key.
Evict(c, cap) == IF cap > 0 /\ Len(c) >= cap THEN Tail(c) ELSE c

\* Variant: an update does not move the item.
Put_InPlace(c, cap, k, v) ==
    IF k \in KeysOf(c) THEN [c EXCEPT ![At(c, k)].val = v]
                       ELSE Append(Evict(c, cap), [key |-> k, val |-> v])

\* put(k, v).
Put(c, cap, k, v) ==
    Append(IF k \in KeysOf(c) THEN Selected(c, DOMAIN c \ {At(c, k)}) ELSE Evict(c, cap),
           [key |-> k, val |-> v])

\* Assignment through the iterator that find() or put() returned.
Update(c, k, v) == [c EXCEPT ![At(c, k)].val = v]
=============================================================================
