------------------------------ MODULE Selecting ------------------------------
(***************************************************************************)
(* What a loop over a list leaves of it: the elements at some of its       *)
(* places, in their order.  SelectSeq of the standard module does as much, *)
(* but the proof system knows nothing about it.                            *)
(***************************************************************************)
EXTENDS Naturals, Sequences

Selected(s, places) ==
    LET upTo[i \in 0 .. Len(s)] ==
            IF i = 0 THEN <<>>
            ELSE IF i \in places THEN Append(upTo[i - 1], s[i]) ELSE upTo[i - 1]
    IN  upTo[Len(s)]
=============================================================================
