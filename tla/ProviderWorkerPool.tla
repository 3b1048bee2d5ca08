--------------------------- MODULE ProviderWorkerPool ---------------------------
(***************************************************************************)
(* One provider's pool of NNTP connections                                 *)
(* (usenet/nntp/provider-worker-pool.ts): requests wait in three queues,   *)
(* connections are dialed on demand, pipeline up to Depth transfers each,  *)
(* and the pool adapts to connection limits, failed logins and failures.   *)
(*                                                                         *)
(* The server and the sockets are external: a dial or a transfer ends in   *)
(* any of the ways the code distinguishes. dispatch() is synchronous; it   *)
(* walks the slots one action at a time while `cursor` is not 0. The       *)
(* "disabled" state (nothing is ever queued), the EWMAs and the breaker's  *)
(* trippedUntil (they only rank providers) are left out.                   *)
(***************************************************************************)
EXTENDS Integers, Sequences, FiniteSets, SequencesExt

CONSTANTS
  Req,        \* request identities, reused once settled
  MaxConns,   \* maxConnections
  Depth,      \* pipelineDepth
  LowOdds,    \* lowOdds
  Threshold   \* circuitBreakerThreshold

ASSUME ReqAssumption       == IsFiniteSet(Req)
ASSUME ConnsAssumption     == MaxConns \in Nat \ {0} /\ Depth \in Nat \ {0}
ASSUME OddsAssumption      == LowOdds \in 0..100
ASSUME ThresholdAssumption == Threshold \in Nat \ {0}

High == 0
Low == 1
Idle == 2
Class == {High, Low, Idle}
Slots == 1..MaxConns

VARIABLES
  req,      \* per request: "queued", "running", "orphan" (its connection died, the
            \* rejection is due) or "settled" (or not submitted yet)
  prio,     \* per request: its class
  at,       \* per request: the slot it was fired on, 0 before
  queue,    \* per class: prioQ, normalQ, idleQ
  conn,     \* per slot: "none", "dialing", "up" or "dead" (no longer usable)
  failures, \* per slot, capped at Threshold
  state,    \* "online" or "auth_failed"
  auth,     \* authClearAt: "clear", "latched" (0), "cooling" (ahead), "elapsed"
  everOnline, allowed, lowAcc,
  retry,    \* a re-dispatch timer is pending (several are merged)
  cursor,   \* dispatch(): 0 not running, the slot visited, MaxConns + 1 dialing
  closed

vars == <<req, prio, at, queue, conn, failures, state, auth, everOnline, allowed, lowAcc,
          retry, cursor, closed>>

TypeOK ==
  /\ req \in [Req -> {"queued", "running", "orphan", "settled"}]
  /\ prio \in [Req -> Class]
  /\ at \in [Req -> 0..MaxConns]
  /\ queue \in [Class -> Seq(Req)]
  /\ conn \in [Slots -> {"none", "dialing", "up", "dead"}]
  /\ failures \in [Slots -> 0..Threshold]
  /\ state \in {"online", "auth_failed"}
  /\ auth \in {"clear", "latched", "cooling", "elapsed"}
  /\ allowed \in 1..MaxConns
  /\ lowAcc \in 0..99
  /\ cursor \in 0..(MaxConns + 1)
  /\ {everOnline, retry, closed} \subseteq BOOLEAN

Init ==
  /\ req = [r \in Req |-> "settled"]
  /\ prio = [r \in Req |-> High]
  /\ at = [r \in Req |-> 0]
  /\ queue = [p \in Class |-> <<>>]
  /\ conn = [s \in Slots |-> "none"]
  /\ failures = [s \in Slots |-> 0]
  /\ state = "online" /\ auth = "clear" /\ everOnline = FALSE
  /\ allowed = MaxConns /\ lowAcc = 0
  /\ retry = FALSE /\ cursor = 0 /\ closed = FALSE

--------------------------------------------------------------------------------
(* Counts *)

Queued == {r \in Req : req[r] = "queued"}
OnConn(s) == {r \in Req : req[r] = "running" /\ at[r] = s}
InFlightTotal == Cardinality({r \in Req : req[r] = "running"})
IdleInFlight == Cardinality({r \in Req : req[r] \in {"running", "orphan"} /\ prio[r] = Idle})
Conns(states) == {s \in Slots : conn[s] \in states}
OpenConns == Cardinality(Conns({"dialing", "up", "dead"}))
HasWork == Queued # {}
AuthBlocked == state = "auth_failed" /\ auth \in {"latched", "cooling"}

IdleShare == (allowed * Depth * 3) \div 4
Positive(n) == IF n > 0 THEN n ELSE 0
\* The share, less non-idle work in flight or queued.
IdleBudget ==
  Positive(IdleShare - (InFlightTotal - IdleInFlight + Len(queue[High]) + Len(queue[Low])))

--------------------------------------------------------------------------------
(* dispatch *)

StartDispatch == cursor' = IF closed' THEN 0 ELSE 1

\* The classes pullFor may take from now, and the accumulator after it.
LowTurn == LowOdds > 0 /\ queue[High] # <<>> /\ queue[Low] # <<>>
IdleFits == IdleInFlight < IdleBudget
PulledClass ==
  IF queue[High] # <<>> THEN IF LowTurn /\ lowAcc + LowOdds >= 100 THEN {Low} ELSE {High}
  ELSE IF queue[Low] # <<>> THEN {Low}
  ELSE IF queue[Idle] # <<>> /\ IdleFits THEN {Idle}
  ELSE {}
Accumulated ==
  IF ~LowTurn THEN lowAcc ELSE IF lowAcc + LowOdds >= 100 THEN lowAcc + LowOdds - 100
  ELSE lowAcc + LowOdds

CanAccept(s) == conn[s] = "up" /\ Cardinality(OnConn(s)) < Depth

\* While logins are blocked the whole queue is failed over.
FailBlocked ==
  /\ cursor = 1 /\ AuthBlocked
  /\ req' = [r \in Req |-> IF req[r] = "queued" THEN "settled" ELSE req[r]]
  /\ queue' = [p \in Class |-> <<>>]
  /\ cursor' = 0
  /\ UNCHANGED <<prio, at, conn, failures, state, auth, everOnline, allowed, lowAcc, retry, closed>>

Walks == cursor \in Slots /\ ~(cursor = 1 /\ AuthBlocked)

\* The visited connection takes one request.
FillOne ==
  /\ Walks /\ CanAccept(cursor)
  /\ \E p \in PulledClass :
       /\ queue' = [queue EXCEPT ![p] = Tail(@)]
       /\ req' = [req EXCEPT ![Head(queue[p])] = "running"]
       /\ at' = [at EXCEPT ![Head(queue[p])] = cursor]
  /\ lowAcc' = Accumulated
  /\ UNCHANGED <<prio, conn, failures, state, auth, everOnline, allowed, retry, cursor, closed>>

\* On to the next slot; an unusable connection is let go.
NextSlot ==
  /\ Walks /\ ~(CanAccept(cursor) /\ PulledClass # {})
  /\ conn' = IF HasWork /\ conn[cursor] = "dead" THEN [conn EXCEPT ![cursor] = "none"] ELSE conn
  /\ cursor' = IF HasWork THEN cursor + 1 ELSE 0
  /\ UNCHANGED <<req, prio, at, queue, failures, state, auth, everOnline, allowed, lowAcc, retry, closed>>

\* Connections to open for the demand the pool cannot serve; one probe while
\* recovering from a failed login.
Demand ==
  Len(queue[High]) + Len(queue[Low])
  + (LET room == Positive(IdleBudget - IdleInFlight) IN
     IF Len(queue[Idle]) < room THEN Len(queue[Idle]) ELSE room)
WantConns ==
  LET n == (InFlightTotal + Demand + Depth - 1) \div Depth IN IF n < allowed THEN n ELSE allowed
ToDial_Uncounted ==
  IF Demand = 0 THEN 0
  ELSE IF state = "auth_failed" THEN Positive(1 - OpenConns)
  ELSE Positive(WantConns - Cardinality(Conns({"up", "dead"})))
ToDial_Eager ==
  IF Demand = 0 THEN 0 ELSE Positive(WantConns - OpenConns)
ToDial ==
  IF Demand = 0 THEN 0
  ELSE IF state = "auth_failed" THEN Positive(1 - OpenConns)
  ELSE Positive(WantConns - OpenConns)

Dial ==
  /\ cursor = MaxConns + 1
  /\ LET shut == Conns({"none"})
         rank(s) == Cardinality({t \in shut : t < s})
     IN  conn' = [s \in Slots |-> IF s \in shut /\ rank(s) < ToDial THEN "dialing" ELSE conn[s]]
  /\ cursor' = 0
  /\ UNCHANGED <<req, prio, at, queue, failures, state, auth, everOnline, allowed, lowAcc, retry, closed>>

--------------------------------------------------------------------------------
(* Requests *)

\* submit. A closed or blocked pool rejects at once.
Submit(r, p) ==
  /\ cursor = 0 /\ req[r] = "settled"
  /\ prio' = [prio EXCEPT ![r] = p]
  /\ IF closed \/ AuthBlocked
       THEN UNCHANGED <<req, queue, cursor>>
       ELSE /\ req' = [req EXCEPT ![r] = "queued"]
            /\ queue' = [queue EXCEPT ![p] = Append(@, r)]
            /\ cursor' = 1
  /\ UNCHANGED <<at, conn, failures, state, auth, everOnline, allowed, lowAcc, retry, closed>>

\* The caller aborts: only a queued request is withdrawn.
Withdrawn_LeavesEntry(r) == queue
Withdrawn(r) == [p \in Class |-> RemoveFirst(queue[p], r)]

Abort(r) ==
  /\ cursor = 0 /\ req[r] = "queued"
  /\ req' = [req EXCEPT ![r] = "settled"]
  /\ queue' = Withdrawn(r)
  /\ UNCHANGED <<prio, at, conn, failures, state, auth, everOnline, allowed, lowAcc, retry, cursor, closed>>

\* The transfer succeeds, or fails on its content (article missing,
\* undecodable, abandoned): the connection is fine.
TransferDone(r) ==
  /\ cursor = 0 /\ req[r] = "running"
  /\ req' = [req EXCEPT ![r] = "settled"]
  /\ failures' \in {failures, [failures EXCEPT ![at[r]] = 0]}
  /\ UNCHANGED closed
  /\ StartDispatch
  /\ UNCHANGED <<prio, at, queue, conn, state, auth, everOnline, allowed, lowAcc, retry>>

\* recordConnFailure: at the threshold everything queued fails over.
Records(s, done) ==
  LET trips == failures[s] + 1 >= Threshold IN
  /\ failures' = [failures EXCEPT ![s] = IF @ < Threshold THEN @ + 1 ELSE @]
  /\ queue' = IF trips THEN [p \in Class |-> <<>>] ELSE queue
  /\ req' = [r \in Req |-> IF r \in done \/ (trips /\ req[r] = "queued") THEN "settled" ELSE req[r]]

\* A dead connection is let go.
LetGo(s) == IF conn[s] = "dead" THEN [conn EXCEPT ![s] = "none"] ELSE conn

\* The transfer fails with its connection, or on a connection that survives.
TransferFails(r) ==
  /\ cursor = 0 /\ req[r] \in {"running", "orphan"}
  /\ IF closed
       THEN req' = [req EXCEPT ![r] = "settled"] /\ UNCHANGED <<failures, queue, conn>>
       ELSE Records(at[r], {r}) /\ conn' = LetGo(at[r])
  /\ UNCHANGED closed
  /\ StartDispatch
  /\ UNCHANGED <<prio, at, state, auth, everOnline, allowed, lowAcc, retry>>

\* "Too many connections": the ceiling drops to what is open.
Ceiling(open) == IF open > 1 THEN open ELSE 1
Throttled(open) == IF Ceiling(open) < allowed THEN Ceiling(open) ELSE allowed

\* The command itself is answered with a limit status: no failure is recorded,
\* and what is open, a connection about to be let go included, is the ceiling.
TransferLimited(r) ==
  /\ cursor = 0 /\ ~closed /\ req[r] \in {"running", "orphan"}
  /\ req' = [req EXCEPT ![r] = "settled"]
  /\ allowed' = Throttled(OpenConns)
  /\ conn' = LetGo(at[r])
  /\ UNCHANGED closed
  /\ StartDispatch
  /\ UNCHANGED <<prio, at, queue, failures, state, auth, everOnline, lowAcc, retry>>

\* A connection dies; the commands on it are about to be rejected.
Orphaned(s) == [r \in Req |-> IF r \in OnConn(s) THEN "orphan" ELSE req[r]]

ConnDies(s) ==
  /\ cursor = 0 /\ conn[s] = "up"
  /\ conn' = [conn EXCEPT ![s] = "dead"]
  /\ req' = Orphaned(s)
  /\ UNCHANGED <<prio, at, queue, failures, state, auth, everOnline, allowed, lowAcc, retry, cursor, closed>>

\* A connection idle past its deadline, dead, or failing its keepalive is let
\* go; both timers end in a dispatch when there is work.
Purge(s) ==
  /\ cursor = 0 /\ ~closed /\ conn[s] \in {"up", "dead"} /\ OnConn(s) = {}
  /\ conn' = [conn EXCEPT ![s] = "none"]
  /\ UNCHANGED closed
  /\ IF HasWork THEN StartDispatch ELSE UNCHANGED cursor
  /\ UNCHANGED <<req, prio, at, queue, failures, state, auth, everOnline, allowed, lowAcc, retry>>

--------------------------------------------------------------------------------
(* Dials *)

DialOk(s) ==
  /\ cursor = 0 /\ conn[s] = "dialing"
  /\ UNCHANGED closed
  /\ IF closed
       THEN /\ conn' = [conn EXCEPT ![s] = "none"]
            /\ UNCHANGED <<failures, everOnline, state, auth>>
       ELSE /\ conn' = [conn EXCEPT ![s] = "up"]
            /\ failures' = [failures EXCEPT ![s] = 0]
            /\ everOnline' = TRUE
            /\ state' = "online"
            /\ auth' = IF state = "online" THEN auth ELSE "clear"
  /\ StartDispatch
  /\ UNCHANGED <<req, prio, at, queue, allowed, lowAcc, retry>>

\* The login is rejected: a cooldown for an account that worked before, a
\* terminal latch for one that never did.
DialAuthFails(s) ==
  /\ cursor = 0 /\ conn[s] = "dialing"
  /\ conn' = [conn EXCEPT ![s] = "none"]
  /\ state' = "auth_failed"
  /\ auth' = IF everOnline THEN "cooling" ELSE "latched"
  /\ UNCHANGED closed
  /\ StartDispatch
  /\ UNCHANGED <<req, prio, at, queue, failures, everOnline, allowed, lowAcc, retry>>

\* A failed recovery probe re-arms the cooldown.
ReArmed == IF state = "auth_failed" /\ everOnline THEN "cooling" ELSE auth

\* Both failures below dispatch again after DIAL_BACKOFF_MS.
Redispatch_Dropped == UNCHANGED retry
Redispatch == retry' = TRUE

DialLimited(s) ==
  /\ cursor = 0 /\ conn[s] = "dialing"
  /\ conn' = [conn EXCEPT ![s] = "none"]
  /\ auth' = ReArmed
  /\ allowed' = Throttled(OpenConns - 1)
  /\ Redispatch
  /\ UNCHANGED <<req, prio, at, queue, failures, state, everOnline, lowAcc, cursor, closed>>

\* Any other dial failure counts against the slot.
DialFails(s) ==
  /\ cursor = 0 /\ conn[s] = "dialing"
  /\ conn' = [conn EXCEPT ![s] = "none"]
  /\ auth' = ReArmed
  /\ IF closed THEN UNCHANGED <<failures, queue, req>> ELSE Records(s, {})
  /\ Redispatch
  /\ UNCHANGED <<prio, at, state, everOnline, allowed, lowAcc, cursor, closed>>

--------------------------------------------------------------------------------
(* Timers and close *)

RetryTimer ==
  /\ cursor = 0 /\ retry
  /\ retry' = FALSE
  /\ UNCHANGED closed
  /\ StartDispatch
  /\ UNCHANGED <<req, prio, at, queue, conn, failures, state, auth, everOnline, allowed, lowAcc>>

\* Additive recovery of the ceiling.
ThrottleStep ==
  /\ cursor = 0 /\ ~closed /\ allowed < MaxConns
  /\ allowed' = allowed + 1
  /\ cursor' = 1
  /\ UNCHANGED <<req, prio, at, queue, conn, failures, state, auth, everOnline, lowAcc, retry, closed>>

\* keepalive and purgeStaleIdles: "backstop for any missed-dispatch edge". No
\* fairness below: the liveness property does without it.
Backstop ==
  /\ cursor = 0 /\ ~closed /\ HasWork
  /\ cursor' = 1
  /\ UNCHANGED <<req, prio, at, queue, conn, failures, state, auth, everOnline, allowed, lowAcc, retry, closed>>

CooldownElapses ==
  /\ cursor = 0 /\ auth = "cooling"
  /\ auth' = "elapsed"
  /\ UNCHANGED <<req, prio, at, queue, conn, failures, state, everOnline, allowed, lowAcc, retry, cursor, closed>>

CloseRejects ==
  req' = [r \in Req |-> IF req[r] = "running" THEN "orphan"
                        ELSE IF req[r] = "queued" THEN "settled" ELSE req[r]]

Close ==
  /\ cursor = 0 /\ ~closed
  /\ closed' = TRUE
  /\ conn' = [s \in Slots |-> IF conn[s] = "dialing" THEN "dialing" ELSE "none"]
  /\ CloseRejects
  /\ queue' = [p \in Class |-> <<>>]
  /\ UNCHANGED <<prio, at, failures, state, auth, everOnline, allowed, lowAcc, retry, cursor>>

DialSettles(s) == DialOk(s) \/ DialAuthFails(s) \/ DialLimited(s) \/ DialFails(s)
TransferSettles(r) == TransferDone(r) \/ TransferFails(r) \/ TransferLimited(r)
Dispatching == FailBlocked \/ FillOne \/ NextSlot \/ Dial

Next ==
  \/ Dispatching
  \/ \E r \in Req, p \in Class : Submit(r, p)
  \/ \E r \in Req : Abort(r) \/ TransferSettles(r)
  \/ \E s \in Slots : ConnDies(s) \/ Purge(s) \/ DialSettles(s)
  \/ RetryTimer \/ ThrottleStep \/ Backstop \/ CooldownElapses \/ Close

\* Dials and transfers are bounded by their timeouts, timers fire. Strong,
\* because dispatch(), whose walk disables them here, is one synchronous call.
Fairness ==
  /\ WF_vars(Dispatching)
  /\ \A r \in Req : SF_vars(TransferSettles(r))
  /\ \A s \in Slots : SF_vars(DialSettles(s))
  /\ SF_vars(RetryTimer) /\ SF_vars(ThrottleStep)

\* A server that is dialed again and again lets somebody in eventually.
ServerRelents == SF_vars(\E s \in Slots : DialOk(s))

Spec == Init /\ [][Next]_vars /\ Fairness
RelentingSpec == Spec /\ ServerRelents

--------------------------------------------------------------------------------
(* Properties *)

\* A request is in one place: waiting exactly once in the queue of its class,
\* on a connection, or settled - whatever aborts, fail-overs and deaths cross.
RequestsConserved ==
  \A r \in Req :
    /\ req[r] = "queued" <=> r \in Range(queue[prio[r]])
    /\ \A p \in Class :
         Cardinality({k \in DOMAIN queue[p] : queue[p][k] = r}) =
           IF req[r] = "queued" /\ p = prio[r] THEN 1 ELSE 0

RequestsSound == TypeOK /\ RequestsConserved

\* "otherwise each re-dispatch dials another full batch": connections open or
\* dialing never exceed the adaptive ceiling, and pipelines never their depth.
ConnsWithinCeiling ==
  /\ OpenConns <= allowed
  /\ \A s \in Slots : Cardinality(OnConn(s)) <= Depth
  /\ \A s \in Slots : OnConn(s) # {} => conn[s] = "up"

\* No missed dispatch: while a request waits, something that is certain to
\* happen will dispatch again, without the backstop of the periodic timers.
NoStrandedWork ==
  HasWork /\ cursor = 0 =>
    \/ Conns({"dialing"}) # {}
    \/ \E r \in Req : req[r] \in {"running", "orphan"}
    \/ retry
    \/ allowed < MaxConns

\* Recovering from a failed login dials one probe, and nothing beside it.
LoneProbe ==
  [][state = "auth_failed" /\ Conns({"dialing"})' \ Conns({"dialing"}) # {}
       => OpenConns = 0 /\ OpenConns' = 1 /\ auth = "elapsed"]_vars

\* "Submit one request; resolves/rejects via its own callbacks": every
\* submitted request settles.
EveryRequestSettles == \A r \in Req : req[r] \in {"queued", "running", "orphan"} ~> req[r] = "settled"
================================================================================
