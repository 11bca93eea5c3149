------------------------------ MODULE MCDelivery ------------------------------
(* Topics for the runs, and the workers, which are interchangeable. *)
EXTENDS Delivery, TLC

StatesOnly == {[name |-> n, type |-> "State"] : n \in Names}

EachItsType == {[name |-> "A", type |-> "State"], [name |-> "B", type |-> "Event"]}

Interchangeable == Permutations(Workers)
=============================================================================
