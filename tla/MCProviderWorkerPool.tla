------------------------- MODULE MCProviderWorkerPool -------------------------
(* TLC instances of ProviderWorkerPool. *)
EXTENDS ProviderWorkerPool, TLC

Symmetry == Permutations(Req)

\* What a settled request leaves in prio and at is never read again.
View == <<[r \in Req |-> IF req[r] = "settled" THEN <<>> ELSE <<req[r], prio[r], at[r]>>],
          queue, conn, failures, state, auth, everOnline, allowed, lowAcc, retry, cursor, closed>>
================================================================================
