------------------------------ MODULE StreamSessions ------------------------------
(***************************************************************************)
(* Stream sessions of one replica: the registry of live watches            *)
(* (stream-sessions/registry.ts), the admission that guards it             *)
(* (limits.ts, bandwidth.ts) and its durable mirror, written by a flush    *)
(* every five seconds and read by the other replicas, which can only ask   *)
(* for a stop through a row (service.ts, db/repositories/                  *)
(* stream-sessions.ts).                                                    *)
(*                                                                         *)
(* Whatever has no await is one action: an open checks the limits and      *)
(* joins in one step.  A flush is several: it collects, writes the bytes   *)
(* statement by statement, writes the rows, re-reads the usage and         *)
(* enforces the caps, and applies the stops.  The exit runs a flush of its *)
(* own and does not wait for the one under way.                            *)
(*                                                                         *)
(* Time is one bit of a session, whether it has been quiet for longer than *)
(* the grace of a rejoin; a sweep may find any of the quiet ones past the  *)
(* silence that ends it (the idle timeout without a read, STUCK_READ_MS    *)
(* with one).                                                              *)
(***************************************************************************)
EXTENDS Integers, FiniteSets, FiniteSetsExt

CONSTANTS
    User,           \* usernames
    Unidentified,   \* the empty one, if it is among them
    Target,         \* what is watched (targetKey)
    Proxied,        \* those the proxy serves: the other transport
    MaxSessions,    \* bound: sessions opened in a behaviour
    MaxReads,       \* bound: handles of one session that are not closed
    MaxBytes,       \* bound: chunks served in a behaviour
    MaxFaults,      \* bound: statements that fail
    MaxStops,       \* bound: exits and crashes of the process
    Limit,          \* connections of a user (connectionLimitFor)
    Cap             \* chunks of a user per period (userBandwidthLimit)

ASSUME SessionAssumption ==
    /\ {MaxSessions, MaxReads, MaxBytes, Limit, Cap} \subseteq Nat \ {0}
    /\ {MaxFaults, MaxStops} \subseteq Nat
    /\ IsFiniteSet(User)

Session == 1 .. MaxSessions
Key == User \X Target           \* identityKey; one address per user
Pass == {"task", "exit"}        \* the scheduled flush, and shutdown's

VARIABLES
    opened,     \* sessions created so far
    key,        \* whose watch of what a session is
    live,       \* byKey and byId
    finalised,  \* ended sessions still to be written
    reads,      \* open reads of a session
    handles,    \* handles its callers hold: more than reads once it has ended
    quiet,      \* sessions not seen for more than REJOIN_GRACE_MS
    pending,    \* chunks not yet folded into the rollup
    exempt,     \* sessions whose current reads no connection limit was held against
    served,     \* chunks a user was served, of those this process can account for
    twice,      \* chunks a failed pass had written and will write again
    tail,       \* chunks that reached a session after its end
    rollup,     \* stream_bandwidth
    usage,      \* the snapshot admission reads
    row,        \* stream_sessions: "none", "active" (ended_at IS NULL), "ended"
    stop,       \* rows with stop_requested_at
    flush,      \* the passes
    behind,     \* the last pass could not write
    phase,      \* "up", "exiting", "down"
    recovered,  \* the last boot closed the rows of the run before
    faults, stops

vars == <<opened, key, live, finalised, reads, handles, quiet, pending, exempt,
          served, twice, tail, rollup, usage, row, stop, flush, behind, phase,
          recovered, faults, stops>>
registry == <<opened, key, live, finalised, reads, handles, quiet, exempt>>
bytes == <<pending, served, twice, tail, rollup>>
process == <<behind, phase, recovered, stops>>

None == <<"", "">>
\* `claims` are the chunks a pass took and has not written yet, `wrote` those
\* it has, while others are left.
Nothing == [s \in Session |-> 0]
NoFlush == [pc |-> "idle", claims |-> Nothing, wrote |-> Nothing,
            rows |-> {}, closing |-> {}]

Init ==
    /\ opened = 0 /\ key = [s \in Session |-> None]
    /\ live = {} /\ finalised = {} /\ exempt = {}
    /\ reads = Nothing /\ handles = Nothing
    /\ quiet = {} /\ pending = Nothing /\ tail = Nothing
    /\ served = [u \in User |-> 0] /\ twice = served /\ rollup = served /\ usage = served
    /\ row = [s \in Session |-> "none"] /\ stop = {}
    /\ flush = [p \in Pass |-> NoFlush]
    /\ behind = FALSE /\ phase = "up" /\ recovered = TRUE
    /\ faults = 0 /\ stops = 0

Of(u) == {s \in live : key[s][1] = u}
Serving(u) == {s \in Of(u) : reads[s] > 0}
SumOver(f, S) == MapThenSumSet(LAMBDA s : f[s], S)
Running == phase # "down"
Owned(s) == s \in live \cup finalised \cup UNION {flush[p].closing : p \in Pass}

----------------------------------------------------------------------------
(* Opening, serving and ending *)

Identified == User \ Unidentified

\* admit, checkAdmission: the caller's own reads are not among those counted
\* when it resumes, since an idle session holds none.
BelowLimit_OffByOne(u) == Cardinality(Serving(u)) <= Limit
BelowLimit(u) == Cardinality(Serving(u)) < Limit

\* `share`: through the operator's own share tree
Admits(u, share) ==
    u \in Identified =>
        /\ share \/ BelowLimit(u)
        /\ usage[u] + SumOver(pending, Of(u)) < Cap

AddRead(s) ==
    /\ handles[s] < MaxReads
    /\ reads' = [reads EXCEPT ![s] = @ + 1]
    /\ handles' = [handles EXCEPT ![s] = @ + 1]
    /\ quiet' = quiet \ {s}

\* finalise, of the sessions S at once
Finalise(S) ==
    /\ live' = live \ S
    /\ finalised' = finalised \cup (S \cap live)
    /\ reads' = [s \in Session |-> IF s \in S THEN 0 ELSE reads[s]]
    /\ quiet' = quiet \ S
    /\ exempt' = exempt \ S
    /\ UNCHANGED <<opened, key, handles>>

Resuming(s) == reads[s] = 0 /\ s \in quiet

\* open, of a key that has a session
Join(s, share) ==
    /\ Running /\ s \in live
    /\ IF Resuming(s) /\ ~Admits(key[s][1], share)
       THEN Finalise({s})
       ELSE /\ AddRead(s)
            /\ exempt' = IF reads[s] > 0 THEN exempt
                         ELSE IF Resuming(s) /\ ~share THEN exempt \ {s} ELSE exempt \cup {s}
            /\ UNCHANGED <<opened, key, live, finalised>>
    /\ UNCHANGED <<bytes, usage, row, stop, flush, process, faults>>

\* open, of a key that has none; a refused one leaves no trace
Open(k, share) ==
    /\ Running /\ opened < MaxSessions
    /\ \A s \in live : key[s] # k
    /\ Admits(k[1], share)
    /\ opened' = opened + 1
    /\ key' = [key EXCEPT ![opened'] = k]
    /\ live' = live \cup {opened'}
    /\ AddRead(opened')
    /\ exempt' = IF share THEN exempt \cup {opened'} ELSE exempt
    /\ UNCHANGED <<finalised, bytes, usage, row, stop, flush, process, faults>>

\* addBytes: the handle outlives the session, also one whose last row is
\* written, and what is on its way when the reader is torn down still arrives
AddBytes(s) ==
    /\ Running /\ handles[s] > 0
    /\ SumOver(served, User) < MaxBytes
    /\ pending' = [pending EXCEPT ![s] = @ + 1]
    /\ served' = [served EXCEPT ![key[s][1]] = @ + 1]
    /\ tail' = IF s \in live THEN tail ELSE [tail EXCEPT ![s] = @ + 1]
    /\ quiet' = quiet \ {s}
    /\ UNCHANGED <<opened, key, live, finalised, reads, handles, exempt, twice, rollup,
                   usage, row, stop, flush, process, faults>>

\* close; of a read whose session has ended it changes nothing that matters
Close(s) ==
    /\ Running /\ reads[s] > 0
    /\ handles' = [handles EXCEPT ![s] = @ - 1]
    /\ reads' = [reads EXCEPT ![s] = @ - 1]
    /\ quiet' = quiet \ {s}
    /\ exempt' = IF reads'[s] = 0 THEN exempt \ {s} ELSE exempt
    /\ UNCHANGED <<opened, key, live, finalised, bytes, usage, row, stop, flush,
                   process, faults>>

Silence(s) ==
    /\ Running /\ s \in live \ quiet
    /\ quiet' = quiet \cup {s}
    /\ UNCHANGED <<opened, key, live, finalised, reads, handles, exempt, bytes, usage,
                   row, stop, flush, process, faults>>

\* kill, killUser
Kill(s) ==
    /\ Running /\ s \in live
    /\ Finalise({s})
    /\ UNCHANGED <<bytes, usage, row, stop, flush, process, faults>>

----------------------------------------------------------------------------
(* Another replica *)

\* stopStream where the session is not local: the flag, for its owner
RequestStop(s) ==
    /\ row[s] = "active" /\ s \notin stop
    /\ stop' = stop \cup {s}
    /\ UNCHANGED <<registry, bytes, usage, row, flush, process, faults>>

\* stopStream of a row without a heartbeat for ORPHAN_STOP_MS
EndSilent(s) ==
    /\ row[s] = "active"
    /\ behind \/ ~Running \/ ~Owned(s)
    /\ row' = [row EXCEPT ![s] = "ended"]
    /\ UNCHANGED <<registry, bytes, usage, stop, flush, process, faults>>

----------------------------------------------------------------------------
(* The flush *)

\* A write of nothing is none; an idle registry is not even refreshed every
\* time (IDLE_REFRESH_MS).
FirstStep(bytesToWrite, rowsToWrite) ==
    CASE bytesToWrite -> {"bandwidth"}
      [] ~bytesToWrite /\ rowsToWrite -> {"upsert"}
      [] OTHER -> {"refresh", "idle"}

\* What a pass takes out of the live state: `ended` are the sessions its
\* sweep, or closeAll, has just finalised.
Collect(p, ended) ==
    LET alive == live \ ended
        closing == finalised \cup ended
        taken == [s \in Session |-> IF s \in alive \cup closing THEN pending[s] ELSE 0]
    IN  /\ live' = alive
        /\ finalised' = {}
        /\ pending' = [s \in Session |-> pending[s] - taken[s]]
        /\ reads' = [s \in Session |-> IF s \in ended THEN 0 ELSE reads[s]]
        /\ quiet' = quiet \ ended
        /\ exempt' = exempt \ ended
        /\ \E pc \in FirstStep(taken # Nothing, alive \cup closing # {}) :
              flush' = [flush EXCEPT ![p] =
                 [NoFlush EXCEPT !.pc = pc, !.claims = taken, !.rows = alive, !.closing = closing]]
        /\ UNCHANGED <<opened, key, handles>>

\* sweep, when these are the sessions past their cutoff
Swept(S) == S \subseteq live \cap quiet

\* the task: one at a time, and none starts once the process is exiting
FlushStarts ==
    /\ phase = "up" /\ flush["task"].pc = "idle"
    /\ \E S \in SUBSET live : Swept(S) /\ Collect("task", S)
    /\ UNCHANGED <<served, twice, tail, rollup, usage, row, stop, process, faults>>

In(p, pc) == Running /\ flush[p].pc = pc
Step(p, f) == flush' = [flush EXCEPT ![p] = f]

\* addBandwidth, by user and transport and some UPSERT_CHUNK of them at a time:
\* which go together is left open
Line(s) == <<key[s][1], key[s][2] \in Proxied>>
Plus(f, g) == [s \in Session |-> f[s] + g[s]]
Mine(u) == {s \in Session : key[s][1] = u}

WriteBytes(p) ==
    /\ In(p, "bandwidth")
    /\ \E lines \in SUBSET {Line(s) : s \in Session} :
          LET claims == flush[p].claims
              now == [s \in Session |-> IF Line(s) \in lines THEN claims[s] ELSE 0]
              left == [s \in Session |-> IF Line(s) \in lines THEN 0 ELSE claims[s]]
          IN  /\ now # Nothing
              /\ rollup' = [u \in User |-> rollup[u] + SumOver(now, Mine(u))]
              /\ Step(p, IF left = Nothing
                         THEN [flush[p] EXCEPT !.pc = "upsert", !.claims = left, !.wrote = Nothing]
                         ELSE [flush[p] EXCEPT !.claims = left, !.wrote = Plus(@, now)])
    /\ UNCHANGED <<registry, pending, served, twice, tail, usage, row, stop, process, faults>>

\* the catch: all that was claimed goes back to the live state
Restored_Overwrites(p) ==
    LET claimed == Plus(flush[p].claims, flush[p].wrote)
    IN  [s \in Session |-> IF claimed[s] > 0 THEN claimed[s] ELSE pending[s]]
Restored(p) == Plus(pending, Plus(flush[p].claims, flush[p].wrote))

Kept_Dropped(p) == finalised
Kept(p) == finalised \cup flush[p].closing
WriteFails(p) ==
    /\ faults < MaxFaults /\ faults' = faults + 1
    /\ finalised' = Kept(p)
    /\ behind' = TRUE
    /\ Step(p, [NoFlush EXCEPT !.pc = "refresh"])
    /\ UNCHANGED <<opened, key, live, reads, handles, quiet, exempt, served, tail, rollup,
                   usage, stop, phase, recovered, stops>>

BytesFail(p) ==
    /\ In(p, "bandwidth")
    /\ pending' = Restored(p)
    /\ twice' = [u \in User |-> twice[u] + SumOver(flush[p].wrote, Mine(u))]
    /\ WriteFails(p)
    /\ UNCHANGED row

\* upsertMany: ended_at is taken from the pass also when it is null
Written(p, rows) ==
    [s \in Session |-> CASE s \notin rows -> row[s]
                         [] s \in rows \cap flush[p].closing -> "ended"
                         [] OTHER -> "active"]

\* Every column of a row that is refreshed comes from the pass, but this one.
FlagsAfter_Replaced(p) == stop \ (flush[p].rows \cup flush[p].closing)
FlagsAfter(p) == stop

WriteRows(p) ==
    /\ In(p, "upsert")
    /\ row' = Written(p, flush[p].rows \cup flush[p].closing)
    /\ stop' = FlagsAfter(p)
    /\ behind' = FALSE
    /\ Step(p, [NoFlush EXCEPT !.pc = "refresh"])
    /\ UNCHANGED <<registry, bytes, usage, phase, recovered, stops, faults>>

\* ... in chunks too: some of the rows may be in the table already
RowsFail(p) ==
    /\ In(p, "upsert")
    /\ \E done \in SUBSET (flush[p].rows \cup flush[p].closing) :
          row' = Written(p, done)
    /\ WriteFails(p)
    /\ UNCHANGED <<pending, twice>>

\* enforceBandwidth; refreshBandwidthUsage keeps the old snapshot on an error
Enforced_Exceeded(used) == {s \in live : key[s][1] \in Identified /\ used[key[s][1]] > Cap}
Enforced(used) == {s \in live : key[s][1] \in Identified /\ used[key[s][1]] >= Cap}

Refresh(p) ==
    /\ In(p, "refresh")
    /\ \/ usage' = rollup /\ UNCHANGED faults
       \/ usage' = usage /\ faults < MaxFaults /\ faults' = faults + 1
    /\ Finalise(Enforced(usage'))
    /\ Step(p, [NoFlush EXCEPT !.pc = "stops"])
    /\ UNCHANGED <<bytes, row, stop, process>>

\* applyRemoteStops, pendingStops
Stopped == {s \in live \cap stop : row[s] = "active"}

ApplyStops(p) ==
    /\ In(p, "stops")
    /\ \/ Finalise(Stopped) /\ UNCHANGED faults
       \/ faults < MaxFaults /\ faults' = faults + 1 /\ UNCHANGED registry
    /\ Step(p, NoFlush)
    /\ UNCHANGED <<bytes, usage, row, stop, process>>

----------------------------------------------------------------------------
(* The process *)

\* shutdown: stopAll, closeAll and the last flush; a pass under way goes on
Exit ==
    /\ phase = "up" /\ stops < MaxStops
    /\ stops' = stops + 1 /\ phase' = "exiting"
    /\ Collect("exit", live)
    /\ UNCHANGED <<served, twice, tail, rollup, usage, row, stop, behind, recovered, faults>>

\* The end takes what was in memory with it, and the bytes nobody wrote.
Down ==
    /\ phase' = "down"
    /\ live' = {} /\ finalised' = {} /\ exempt' = {}
    /\ reads' = Nothing /\ handles' = Nothing /\ quiet' = {}
    /\ pending' = Nothing /\ tail' = Nothing
    /\ usage' = [u \in User |-> 0]
    /\ served' = rollup /\ twice' = usage'
    /\ flush' = [p \in Pass |-> NoFlush]
    /\ behind' = FALSE
    /\ UNCHANGED <<opened, key, rollup, row, stop, recovered, faults>>

Exited ==
    /\ phase = "exiting" /\ flush["exit"].pc = "idle"
    /\ Down
    /\ UNCHANGED stops

Crash ==
    /\ Running /\ stops < MaxStops /\ stops' = stops + 1
    /\ Down

\* recoverOrphans and refreshBandwidthUsage at boot; what fails is logged and
\* the boot goes on
Boot ==
    /\ phase = "down" /\ phase' = "up"
    /\ \E failed \in SUBSET {"rows", "usage"} :
          /\ faults' = faults + Cardinality(failed) /\ faults' <= MaxFaults
          /\ recovered' = ("rows" \notin failed)
          /\ row' = [s \in Session |-> IF recovered' /\ row[s] = "active" THEN "ended" ELSE row[s]]
          /\ usage' = IF "usage" \in failed THEN usage ELSE rollup
    /\ UNCHANGED <<registry, bytes, stop, flush, behind, stops>>

FlushStep(p) ==
    \/ WriteBytes(p) \/ BytesFail(p)
    \/ WriteRows(p) \/ RowsFail(p)
    \/ Refresh(p) \/ ApplyStops(p)

Next ==
    \/ \E s \in Session :
          AddBytes(s) \/ Close(s) \/ Silence(s) \/ Kill(s)
              \/ RequestStop(s) \/ EndSilent(s)
    \/ \E share \in BOOLEAN :
          (\E s \in Session : Join(s, share)) \/ (\E k \in Key : Open(k, share))
    \/ FlushStarts
    \/ \E p \in Pass : FlushStep(p)
    \/ Exit \/ Exited \/ Crash \/ Boot

\* The task manager starts the flush every five seconds, every statement
\* returns or fails, and a process that ended is started again.  Viewers owe
\* nothing.
Fairness ==
    /\ WF_vars(FlushStarts)
    /\ \A p \in Pass : WF_vars(FlushStep(p))
    /\ WF_vars(Exited) /\ WF_vars(Boot)

Spec == Init /\ [][Next]_vars /\ Fairness

----------------------------------------------------------------------------
(* Properties *)

TypeOK ==
    /\ opened \in 0 .. MaxSessions
    /\ key \in [Session -> Key \cup {None}]
    /\ live \subseteq 1 .. opened /\ finalised \subseteq 1 .. opened
    /\ live \cap finalised = {}
    /\ exempt \subseteq live
    /\ reads \in [Session -> 0 .. MaxReads]
    /\ handles \in [Session -> 0 .. MaxReads]
    /\ quiet \subseteq live
    /\ pending \in [Session -> Nat] /\ tail \in [Session -> Nat]
    /\ served \in [User -> Nat] /\ twice \in [User -> Nat]
    /\ row \in [Session -> {"none", "active", "ended"}]
    /\ stop \subseteq Session

\* The registry is the source of truth for what is live and the rows mirror
\* it: an active row of a running process that recovered its past has a live
\* session, or one that ended and is still to be written, through failed and
\* half-done writes.  Nothing else would ever close the row.
RowsOwned ==
    phase = "up" /\ recovered => \A s \in Session : row[s] = "active" => Owned(s)

SessionsSound == TypeOK /\ RowsOwned

\* Every chunk served is counted: it is in the rollup, in the hands of a pass
\* that has yet to write it, or pending, whichever writes fail.  It is counted
\* once, unless a pass failed between two of its statements: that one writes
\* again what it had written.
Balanced ==
    \A u \in User :
        rollup[u] + SumOver(pending, Mine(u))
          + SumOver(flush["task"].claims, Mine(u)) + SumOver(flush["exit"].claims, Mine(u))
            = served[u] + twice[u]

\* While the process is up, what no pass will take any more reached its session
\* after its end.
OnlyTailsLost ==
    phase = "up" => \A s \in Session : Owned(s) \/ pending[s] <= tail[s]

BytesCounted == Balanced /\ OnlyTailsLost

\* Only a rejoin within the grace, the operator's share and a caller without a
\* name get past the connection limit: of the sessions of a user that are being
\* read, those the limit was held against are within it.
LimitHeld ==
    \A u \in Identified : Cardinality(Serving(u) \ exempt) <= Limit

\* A stop another replica asked for ends the session and closes its row, also
\* when the owner rewrites the row, fails, exits or dies meanwhile.
StopsHonoured ==
    \A s \in Session :
        (s \in stop /\ row[s] = "active") ~> (row[s] = "ended" \/ ~recovered)

\* A cap that is reached stops what is already running.
CapTrips ==
    \A u \in Identified : (rollup[u] >= Cap) ~> (Of(u) = {})

================================================================================
