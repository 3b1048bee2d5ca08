----------------------------- MODULE MCSegmentFetch ----------------------------
(* TLC instances of SegmentFetch. *)
EXTENDS SegmentFetch, TLC

CONSTANTS m1, m2, p1, p2

OneSize == {1}

\* One provider never trips and holds the first segment; the other may trip, and
\* is the only one that holds the second.
Spread == (m1 :> {p1}) @@ (m2 :> {p2})
Symmetry == Permutations(Flight) \union Permutations(Slot) \union Permutations(Caller)
================================================================================
