-------------------------------- MODULE Lists --------------------------------
(* The entries of a list that are in a set, in their order, as a recursive   *)
(* function: what SelectSeq returns, in a form that proofs can unfold.       *)
EXTENDS Naturals, Sequences

Sublist(list, S) ==
  LET kept[n \in 0 .. Len(list)] ==
        IF n = 0 THEN <<>>
        ELSE IF list[n] \in S THEN Append(kept[n - 1], list[n]) ELSE kept[n - 1]
  IN  kept[Len(list)]
=============================================================================
