-------------------------- MODULE MCPrioritySemaphore --------------------------
(* TLC instances of PrioritySemaphore. *)
EXTENDS PrioritySemaphore, TLC

Symmetry == Permutations(Client)
MCThrottleTo == {0, 1, 3}
================================================================================
