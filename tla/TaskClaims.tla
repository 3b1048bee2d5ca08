-------------------------------- MODULE TaskClaims --------------------------------
(***************************************************************************)
(* One scheduled task of kind `single`: every replica polls the shared     *)
(* schedule, and whoever claims the row runs the task, renewing the claim  *)
(* until the run is over (tasks/index.ts, db/repositories/tasks.ts). Runs  *)
(* asked for by hand and retries of a failed run take the claim too, due   *)
(* or not.                                                                 *)
(*                                                                         *)
(* The claim names the replica, which may have a call of each kind under   *)
(* way; only `running` keeps them apart.  A tick is RENEW_EVERY_MS, times  *)
(* are what is left of them, and a tick's renewals come after it.          *)
(***************************************************************************)
EXTENDS Integers, FiniteSets

CONSTANTS
    Instance,    \* the replicas, by instance id
    Ttl,         \* ticks of a claim: CLAIM_TTL_MS
    Interval,    \* ticks between two runs: intervalMs
    RetryAfter,  \* ticks before a failed run is retried: retryIntervalMs
    FaultLimit,  \* bound: failed and slow statements, crashes
    Unset        \* no holder, no retry planned

ASSUME TicksAssumption ==
    {Ttl, Interval, RetryAfter} \subseteq Nat \ {0} /\ FaultLimit \in Nat
ASSUME UnsetAssumption == Unset \notin Instance \cup Nat

Source == {"poll", "now", "retry"}   \* tick, runNow, the retry timer

VARIABLES
    row,      \* task_schedule: next (next_run_at), holder (claimed_by), left
    call,     \* executeClaimed, per replica and source
    renews,   \* the calls whose renewal of this tick is still to come
    running,  \* entry.running
    retry,    \* entry.retryTimer
    asked,    \* the replicas a run was asked of in this tick
    lapsed,   \* a claim ran out under a call that had not given it up
    failed    \* the faults so far

claimVars == <<row, call, renews, running, retry, asked, lapsed, failed>>
Call == Instance \X Source

ClaimInit ==
    /\ row = [next |-> Interval, holder |-> Unset, left |-> 0]
    /\ call = [c \in Call |-> "idle"]
    /\ renews = {} /\ running = {} /\ asked = {} /\ lapsed = FALSE /\ failed = 0
    /\ retry = [r \in Instance |-> Unset]

Goes(c, pc) == call' = [call EXCEPT ![c] = pc]
\* the renewal timer is set while a call is in one of these
Renewing(c) == call[c] \in {"runs", "records"}
\* it has the claim, as far as it knows
Holding(c) == Renewing(c) \/ call[c] \in {"claimed", "releases"}

----------------------------------------------------------------------------
(* Why a replica wants to run the task *)

\* tick: the row as it was read is due; the claim looks again
Poll(r) ==
    /\ call[r, "poll"] = "idle" /\ r \notin running
    /\ row.left = 0 /\ row.next = 0
    /\ Goes(<<r, "poll">>, "claims")
    /\ UNCHANGED <<row, renews, running, retry, asked, lapsed, failed>>

\* BOUND: a replica is asked once a tick
RunNow(r) ==
    /\ call[r, "now"] = "idle" /\ r \notin running
    /\ r \notin asked /\ asked' = asked \cup {r}
    /\ Goes(<<r, "now">>, "claims")
    /\ UNCHANGED <<row, renews, running, retry, lapsed, failed>>

\* The timer's call does not look at `running` first.
RetryFires(r) ==
    /\ retry[r] = 0 /\ call[r, "retry"] = "idle"
    /\ retry' = [retry EXCEPT ![r] = Unset]
    /\ Goes(<<r, "retry">>, "claims")
    /\ UNCHANGED <<row, renews, running, asked, lapsed, failed>>

----------------------------------------------------------------------------
(* executeClaimed *)

\* claimDue and claimNow: a claim runs out by itself
Free_Released == row.holder = Unset
Free == row.left = 0
ClaimDue == Free /\ row.next = 0
ClaimNow_Anyway == TRUE
ClaimNow == Free

Claim(r, s) ==
    /\ call[r, s] = "claims"
    /\ IF IF s = "poll" THEN ClaimDue ELSE ClaimNow
       THEN /\ row' = [next |-> row.next, holder |-> r, left |-> Ttl]
            /\ Goes(<<r, s>>, "claimed")
       ELSE /\ Goes(<<r, s>>, "idle")
            /\ UNCHANGED row
    /\ UNCHANGED <<renews, running, retry, asked, lapsed, failed>>

\* execute: a call that finds the task running here gives its claim up
Starts(r, s) ==
    /\ call[r, s] = "claimed"
    /\ IF r \in running
       THEN Goes(<<r, s>>, "releases") /\ UNCHANGED running
       ELSE Goes(<<r, s>>, "runs") /\ running' = running \cup {r}
    /\ UNCHANGED <<row, renews, retry, asked, lapsed, failed>>

RunEnds(r, s) ==
    /\ call[r, s] = "runs"
    /\ running' = running \ {r}
    /\ Goes(<<r, s>>, "records")
    /\ UNCHANGED <<row, renews, retry, asked, lapsed, failed>>

\* recordRun and applyRetryPolicy, after a success or a failure; the renewals
\* stop here
Records(r, s) ==
    /\ call[r, s] = "records"
    /\ \E after \in {Unset, RetryAfter} : retry' = [retry EXCEPT ![r] = after]
    /\ Goes(<<r, s>>, "releases")
    /\ renews' = renews \ {<<r, s>>}
    /\ UNCHANGED <<row, running, asked, lapsed, failed>>

\* releaseClaim, by the name of the replica; the next run is due an interval
\* after the statement was sent, which may be a while ago
ReleaseClaim(r, s) ==
    /\ call[r, s] = "releases"
    /\ \E due \in 0 .. Interval :
          row' = IF row.holder = r
                 THEN [next |-> due, holder |-> Unset, left |-> 0] ELSE row
    /\ Goes(<<r, s>>, "idle")
    /\ UNCHANGED <<renews, running, retry, asked, lapsed, failed>>

\* renewClaim, by the name of the replica too
Renew(r, s) ==
    /\ <<r, s>> \in renews
    /\ renews' = renews \ {<<r, s>>}
    /\ row' = IF row.holder = r THEN [row EXCEPT !.left = Ttl] ELSE row
    /\ UNCHANGED <<call, running, retry, asked, lapsed, failed>>

----------------------------------------------------------------------------
(* Faults and time *)

\* A claim that fails skips the run, a release leaves the row to the claim's
\* end, a renewal is caught and tried again a tick later.
CallFails(r, s) ==
    /\ failed < FaultLimit /\ failed' = failed + 1
    /\ \/ /\ call[r, s] \in {"claims", "releases"}
          /\ Goes(<<r, s>>, "idle") /\ UNCHANGED renews
       \/ /\ <<r, s>> \in renews
          /\ renews' = renews \ {<<r, s>>} /\ UNCHANGED call
    /\ UNCHANGED <<row, running, retry, asked, lapsed>>

\* The process dies and starts again under the same instance id.
Dies(r) ==
    /\ failed < FaultLimit /\ failed' = failed + 1
    /\ retry[r] # Unset \/ \E s \in Source : call[r, s] # "idle"
    /\ call' = [c \in Call |-> IF c[1] = r THEN "idle" ELSE call[c]]
    /\ renews' = {c \in renews : c[1] # r}
    /\ running' = running \ {r}
    /\ retry' = [retry EXCEPT ![r] = Unset]
    /\ UNCHANGED <<row, asked, lapsed>>

Down(n) == IF n > 0 THEN n - 1 ELSE 0

\* Over a run any time may pass, and over recordRun and releaseClaim, which is a
\* fault; the statements that claim and renew are back within the tick.
Slow == \E c \in Call : call[c] \in {"records", "releases"}

RenewalTick ==
    /\ renews = {}
    /\ failed' = IF Slow THEN failed + 1 ELSE failed
    /\ failed' <= FaultLimit
    /\ \A c \in Call : call[c] \notin {"claims", "claimed"}
    /\ \A r \in Instance : retry[r] # 0
    /\ row' = [next |-> Down(row.next), holder |-> row.holder, left |-> Down(row.left)]
    /\ retry' = [r \in Instance |-> IF retry[r] = Unset THEN Unset ELSE retry[r] - 1]
    /\ renews' = {c \in Call : Renewing(c)} /\ asked' = {}
    /\ lapsed' = (lapsed \/ (row'.left = 0 /\ \E c \in Call : Holding(c)))
    /\ UNCHANGED <<call, running>>

CallStep(r, s) ==
    Claim(r, s) \/ Starts(r, s) \/ RunEnds(r, s) \/ Records(r, s) \/ ReleaseClaim(r, s)

ClaimNext ==
    \/ \E r \in Instance : Poll(r) \/ RunNow(r) \/ RetryFires(r) \/ Dies(r)
    \/ \E r \in Instance, s \in Source :
          CallStep(r, s) \/ Renew(r, s) \/ CallFails(r, s)
    \/ RenewalTick

\* Every replica polls, timers fire, statements return or fail, a run ends.
\* Nobody has to ask for a run by hand.
ClaimFairness ==
    /\ WF_claimVars(RenewalTick)
    /\ \A r \in Instance : WF_claimVars(Poll(r)) /\ WF_claimVars(RetryFires(r))
    /\ \A r \in Instance, s \in Source :
          WF_claimVars(CallStep(r, s)) /\ WF_claimVars(Renew(r, s))

ClaimSpec == ClaimInit /\ [][ClaimNext]_claimVars /\ ClaimFairness

----------------------------------------------------------------------------
(* Properties *)

ClaimTypeOK ==
    /\ row \in [next : 0 .. Interval, holder : Instance \cup {Unset}, left : 0 .. Ttl]
    /\ call \in [Call -> {"idle", "claims", "claimed", "runs", "records", "releases"}]
    /\ renews \subseteq Call /\ running \cup asked \subseteq Instance
    /\ retry \in [Instance -> 0 .. RetryAfter \cup {Unset}]
    /\ lapsed \in BOOLEAN /\ failed \in 0 .. FaultLimit

\* "The run is claimed cluster-wide and one replica does it" (tasks/index.ts):
\* until a claim has run out under a call that had not given it up, nobody runs
\* the task but the holder of the claim, whatever polls, requests and retries
\* arrive meanwhile, also while a run is recorded and its claim released.
RunsExclusive == ~lapsed => \A r \in running : row.holder = r /\ row.left > 0
ClaimsSound == ClaimTypeOK /\ RunsExclusive

\* The task keeps running somewhere: no crash, failed statement or lapsed
\* claim stops its schedule.
TaskRecurs == []<>(running # {})

================================================================================
