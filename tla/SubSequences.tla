------------------------------ MODULE SubSequences ------------------------------
(***************************************************************************)
(* Filtering a sequence, as the queries over rows and the passes over an   *)
(* index do: SelectSeq with the condition given as a set, and as a         *)
(* recursive function, which proofs can unfold.                            *)
(***************************************************************************)
EXTENDS Naturals, Sequences

\* The elements of seq that are in S, in their order.
Only(seq, S) ==
  LET only[n \in 0..Len(seq)] ==
        IF n = 0 THEN <<>>
        ELSE IF seq[n] \in S THEN Append(only[n - 1], seq[n]) ELSE only[n - 1]
  IN  only[Len(seq)]
================================================================================
