----------------------------- MODULE MCStreamSessions -----------------------------
EXTENDS StreamSessions

CONSTANT a

\* The two targets differ only in their transport, and the transports only in
\* their line of the rollup, so the first session watches this one.  It is the
\* one that another replica wants to stop, that falls silent and that is served
\* after its end; another is served only beside it, while no stop is asked for.
FirstServes ==
    /\ opened > 0 => key[1][2] = a
    /\ stop \cup quiet \subseteq {1}
    /\ \A s \in Session \ {1} : tail[s] = 0 /\ pending[s] <= IF stop = {} THEN pending[1] ELSE 0
================================================================================
