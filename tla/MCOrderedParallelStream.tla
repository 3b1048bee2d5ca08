----------------------- MODULE MCOrderedParallelStream -----------------------
(* TLC instances of OrderedParallelStream. *)
EXTENDS OrderedParallelStream, TLC

Tasks4 == 0..3

\* Two slot lengths: the middle tasks need the larger one.
CONSTANTS s1, s2, s3, s4
TwoSizes == [s \in Slot |-> IF s \in {s1, s2} THEN 1 ELSE 2]
TwoNeeds == [i \in Task |-> IF i \in {1, 2} THEN 2 ELSE 1]

\* The last body is longer than the slot it asks for.
Lengths == [i \in Task |-> IF i = 0 THEN 1 ELSE 2]
================================================================================
