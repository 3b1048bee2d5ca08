----------------------------- MODULE MCSegmentArena ----------------------------
(* TLC instance of SegmentArena: budget for three small slots, two sizes. *)
EXTENDS SegmentArena

MCNeed == {1, 2}
Symmetry == Permutations(Slot) \union Permutations(Handle) \union Permutations(Id)
================================================================================
