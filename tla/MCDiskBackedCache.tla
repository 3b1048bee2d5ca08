---------------------------- MODULE MCDiskBackedCache ----------------------------
(* Two keys, one of which fits the larger budget and none the smaller; at most *)
(* MaxBusy operations (writes, reads, removals, saves, flushes) under way and   *)
(* MaxDrift bytes in the index that nothing counted.                            *)
EXTENDS DiskBackedCache, TLC

CONSTANTS MaxBusy, MaxDrift

MCBody == [k \in Key |-> 2]
Busy ==
  Cardinality(InFlight) + Cardinality({r \in Reader : reader[r] # NoRead})
    + MapThenSumSet(LAMBDA k : removing[k], Key)
    + Cardinality({x \in {"flush", "save", "clear", "orphan"} :
        CASE x = "flush" -> flusher # "none"  [] x = "save" -> saving # None
          [] x = "clear" -> clearing          [] x = "orphan" -> orphan # None})
BoundedWork == Busy <= MaxBusy /\ Sizes(index) - bytes <= MaxDrift
Symmetric == Permutations(Writer) \union Permutations(Key)
================================================================================
