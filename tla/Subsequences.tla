---------------------------- MODULE Subsequences ----------------------------
(***************************************************************************)
(* What a comprehension with a condition keeps of a list.                  *)
(* Sequences!SelectSeq says the same of a condition given as an operator;  *)
(* the provers have no definition of it, so the condition is given as the  *)
(* set of the places where it holds.                                       *)
(***************************************************************************)
EXTENDS Integers, Sequences

\* The elements of s at the places, in their order.
Subsequence(s, places) ==
  LET part[n \in 0..Len(s)] ==
        IF n = 0 THEN <<>>
        ELSE IF n \in places THEN Append(part[n - 1], s[n]) ELSE part[n - 1]
  IN  part[Len(s)]
=============================================================================
