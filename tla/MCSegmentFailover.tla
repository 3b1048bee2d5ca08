---------------------------- MODULE MCSegmentFailover ----------------------------
(* Two primaries, which are interchangeable, and a backup.                     *)
EXTENDS SegmentFailover, TLC

Symmetric == Permutations(Provider \ Backup) \union Permutations(Call)
================================================================================
