------------------------------ MODULE PlaybackOutbox ------------------------------
(***************************************************************************)
(* The playback outbox (watch-state/handoff, db/repositories/              *)
(* playback-handoff.ts): what a user plays or marks is queued as rows for  *)
(* an addon (a sink), and a task that runs on every replica leases the     *)
(* sink and POSTs its due rows one at a time.                              *)
(*                                                                         *)
(* One sink; sinks share nothing but the run's budget. Times are what is   *)
(* left of them: Tick counts every deadline down. Whatever is not a POST   *)
(* takes no time: the minute the lease adds for it is left out as well.    *)
(***************************************************************************)
EXTENDS Integers, Sequences, FiniteSets, SequencesExt, SubSequences

CONSTANTS
  Replica,      \* the instances that run the delivery task
  Item,         \* what can be watched
  Kind,         \* the events clients cause, of Events
  Position,     \* playback positions told apart by idempotency keys
  RowsPerSink,  \* deliveryRowsPerSink
  MaxAttempts,  \* deliveryMaxAttempts
  MaxFailures,  \* deliveryFailuresBeforeDisable
  Budget,       \* ticks of a pass: deliveryBudgetSeconds
  Request,      \* ticks of a POST: REQUEST_TIMEOUT_MS
  RowWait,      \* ticks a failed row waits: BACKOFF_MS
  SinkWait,     \* ticks a failing sink waits: sinkBackoffMs
  Probe,        \* ticks an unhealthy sink waits: sinkProbeMs
  Remembered,   \* ticks the row of a sink is used again: SINK_ROW_TTL_MS
  MaxEvents,    \* bound: rows ever queued
  MaxFaults,    \* bound: crashes and failed statements
  MaxUnlinks,   \* bound: times the addon loses its account
  None

ASSUME LimitAssumption == {RowsPerSink, MaxAttempts, MaxFailures, Budget, Request} \subseteq Nat \ {0}
ASSUME WaitAssumption == {RowWait, SinkWait, Probe, Remembered, MaxEvents, MaxFaults, MaxUnlinks} \subseteq Nat

Marks == {"played", "unplayed"}
Transitions == {"start", "pause", "stop"}
Events == Marks \union Transitions
SingleLane == 0
BulkLane == 1

ASSUME KindAssumption == Kind \subseteq Events

VARIABLES
  rows,    \* watch_deliveries, by the order of created_at
  order,   \* the pending rows, by next_attempt_at
  sink,    \* the row of watch_sinks
  pass,    \* per replica: its delivery pass
  linked,  \* whether the addon has the user's account
  got,     \* the marks the addon has accepted
  faults, unlinks

vars == <<rows, order, sink, pass, linked, got, faults, unlinks>>

Rows == 1..Len(rows)
Pending == {i \in Rows : rows[i].st = "pending"}

Idle == [pc |-> "idle", left |-> 0, req |-> 0, todo |-> <<>>, short |-> FALSE, tried |-> {}, any |-> FALSE,
         out |-> None, rel |-> None, min |-> None]

\* How a pass ends: the earliest time of the next one, and what is written
\* over the sink's status and failures (None: left as they are).
Releases == [wait : Nat, status : {None, "connected", "error", "auth_expired"}, failures : Nat \union {None}]

TypeOK ==
  /\ \A i \in Rows :
       rows[i] \in [st : {"pending", "finished", "gone"}, kind : Events \union {None}, items : SUBSET Item,
                    lane : {SingleLane, BulkLane}, key : {rows[i].key}, wait : Nat, tries : 0..MaxAttempts]
  /\ IsInjective(order) /\ ToSet(order) = Pending
  /\ \A a, b \in DOMAIN order : a < b => rows[order[a]].wait <= rows[order[b]].wait
  /\ \A i, j \in Rows \ {k \in Rows : rows[k].st = "gone"} : rows[i].key = rows[j].key => i = j
  /\ sink \in [due : Nat \union {None}, holder : Replica \union {None}, left : Nat,
               status : {"connected", "error", "auth_expired"}, since : 0..Probe, failures : 0..MaxFailures]
  /\ \A r \in Replica :
       /\ pass[r].pc \in {"idle", "claim", "read", "send", "wait", "mark", "release", "write"}
       /\ pass[r].left \in 0..Budget /\ pass[r].req \in 0..Request
       /\ pass[r].rel \in Releases \union {None}
       /\ pass[r].pc \in {"send", "wait", "mark"} => pass[r].todo # <<>>
  /\ linked \in BOOLEAN /\ got \subseteq [id : Rows, items : SUBSET Item]

Init ==
  /\ rows = <<>> /\ order = <<>>
  /\ sink = [due |-> None, holder |-> None, left |-> 0, status |-> "connected", since |-> Probe, failures |-> 0]
  /\ pass = [r \in Replica |-> Idle]
  /\ linked = TRUE /\ got = {} /\ faults = 0 /\ unlinks = 0

MinOf(S) == CHOOSE x \in S : \A y \in S : x <= y

--------------------------------------------------------------------------------
(* Queueing *)

\* What a new event makes pointless among the rows still waiting.
Replaces_MarksOnly(kind, finished) == IF kind \in Marks THEN Marks ELSE {}
Replaces(kind, finished) ==
  CASE kind \in Marks -> Events
    [] kind \in {"start", "pause"} -> {"start", "pause"}
    [] kind = "stop" -> IF finished THEN Marks ELSE {}

\* idempotencyKeyFor: a transition keys on its position, a mark on its time.
KeyFor(kind, items, pos) == <<kind, items, IF kind \in Marks THEN Len(rows) + 1 ELSE pos>>

\* The rows after the replaced items are cut out of them; an emptied row is deleted.
Gone == [st |-> "gone", kind |-> None, items |-> {}, lane |-> SingleLane, key |-> None, wait |-> 0, tries |-> 0]
Cut(kinds, items) ==
  [i \in Rows |->
     IF i \notin Pending \/ rows[i].kind \notin kinds THEN rows[i]
     ELSE LET kept == rows[i].items \ items IN
          IF kept = {} THEN Gone ELSE [rows[i] EXCEPT !.items = kept]]

\* A row takes its place among the pending ones by the time of its next attempt.
Placed(seq, i, wait, rs) ==
  Only(seq, {j \in DOMAIN rs : rs[j].wait <= wait}) \o <<i>> \o Only(seq, {j \in DOMAIN rs : rs[j].wait > wait})

\* queueToSinks and enqueueMany: one transaction. A failing sink is skipped
\* until its probe window is over, unless the row at hand is from before it
\* failed; a key still in the table is not queued again.
Enqueue(kind, items, lane, pos, finished) ==
  LET cut  == Cut(Replaces(kind, finished), items)
      key  == KeyFor(kind, items, pos)
      kept == Only(order, {i \in Rows : cut[i].st = "pending"})
      new  == [st |-> "pending", kind |-> kind, items |-> items, lane |-> lane, key |-> key,
               wait |-> 0, tries |-> 0]
      conflict == \E i \in Rows : cut[i].st # "gone" /\ cut[i].key = key IN
  /\ Len(rows) < MaxEvents
  /\ ~(sink.status = "error" /\ sink.since \in Remembered..(Probe - 1))
  /\ IF conflict
     THEN /\ rows' = cut /\ order' = kept
          /\ UNCHANGED sink
     ELSE /\ rows' = Append(cut, new)
          /\ order' = Placed(kept, Len(rows) + 1, 0, rows')
          /\ sink' = [sink EXCEPT !.due = 0]
  /\ UNCHANGED <<pass, linked, got, faults, unlinks>>

\* dispatchPlayback, and dispatchBulkMark for one video or for a whole show.
Play(item, pos, finished) ==
  \E kind \in Kind \intersect Transitions :
    (finished => kind = "stop") /\ Enqueue(kind, {item}, SingleLane, pos, finished)
Mark(items, lane) ==
  \E kind \in Kind \intersect Marks : Enqueue(kind, items, lane, 0, FALSE)
Dispatch ==
  \/ \E item \in Item, pos \in Position, finished \in BOOLEAN : Play(item, pos, finished)
  \/ \E item \in Item : Mark({item}, SingleLane)
  \/ \E items \in SUBSET Item \ {{}} : Mark(items, BulkLane)

\* pruneFinished: the keys of finished rows are forgotten after the retention.
Prune(i) ==
  /\ rows[i].st = "finished"
  /\ rows' = [rows EXCEPT ![i] = Gone]
  /\ UNCHANGED <<order, sink, pass, linked, got, faults, unlinks>>

--------------------------------------------------------------------------------
(* The delivery task *)

\* reconcileDeliveryPointers: an unleased sink with a due row is due.
Reconciled_Never(s) == s
Reconciled(s) ==
  IF s.due # 0 /\ s.left = 0 /\ \E i \in Pending : rows[i].wait = 0 THEN [s EXCEPT !.due = 0] ELSE s

\* A pass ends by its budget, and only a request in flight runs past it.
Lease_Budget == Budget
Lease == Budget + Request

\* claimDeliverySinks, in a transaction.
Claimed(r, s) ==
  IF s.due = 0 /\ s.left = 0
  THEN /\ sink' = [s EXCEPT !.holder = r, !.left = Lease]
       /\ pass' = [pass EXCEPT ![r] = [Idle EXCEPT !.pc = "read", !.left = Budget]]
  ELSE /\ sink' = s
       /\ pass' = [pass EXCEPT ![r] = Idle]

\* deliverPlaybackEvents: the two statements are one step, as what another
\* could do between them it could as well do before or after both.
RunStarts(r) ==
  /\ pass[r].pc = "idle"
  /\ Claimed(r, Reconciled(sink))
  /\ UNCHANGED <<rows, order, linked, got, faults, unlinks>>
NextBatch(r) ==
  /\ pass[r].pc = "claim"
  /\ Claimed(r, sink)
  /\ UNCHANGED <<rows, order, linked, got, faults, unlinks>>

\* dueDeliveries: the single lane first, then by the time of the next attempt.
InLane(seq, lane) == Only(seq, {i \in Rows : rows[i].lane = lane})
Due ==
  LET due == Only(order, {i \in Rows : rows[i].wait = 0})
      all == InLane(due, SingleLane) \o InLane(due, BulkLane) IN
  SubSeq(all, 1, IF Len(all) < RowsPerSink THEN Len(all) ELSE RowsPerSink)

Ends(p, rel) == [Idle EXCEPT !.pc = "release", !.rel = rel]
\* served: a sink that was sent something is healthy.
Served(p) ==
  Ends(p, IF p.tried = {} THEN [wait |-> 0, status |-> None, failures |-> None]
          ELSE [wait |-> 0, status |-> "connected", failures |-> 0])

\* A snapshot of each row's tries goes with it: what is decided from them may be stale.
Read(r) ==
  LET p == pass[r]
      due == Due
      snapshot == [k \in DOMAIN due |-> 
                    [id |-> due[k], kind |-> rows[due[k]].kind, items |-> rows[due[k]].items,
                     tries |-> rows[due[k]].tries]] IN
  /\ p.pc = "read"
  /\ pass' = [pass EXCEPT ![r] =
       IF p.left = 0 \/ due = <<>> THEN Served(p)
       ELSE [p EXCEPT !.pc = "send", !.todo = snapshot, !.short = Len(due) < RowsPerSink]]
  /\ UNCHANGED <<rows, order, sink, linked, got, faults, unlinks>>

Send(r) ==
  LET p == pass[r] IN
  /\ p.pc = "send"
  /\ pass' = [pass EXCEPT ![r] =
       IF p.left = 0 THEN Served(p)
       ELSE [p EXCEPT !.pc = "wait", !.req = Request, !.tried = @ \union {Head(p.todo).id}]]
  /\ UNCHANGED <<rows, order, sink, linked, got, faults, unlinks>>

Accepts(r) ==
  LET e == Head(pass[r].todo) IN
  got' = IF e.kind \in Marks THEN got \union {[id |-> e.id, items |-> e.items]} ELSE got

\* deliverOne: an error after the addon took the event looks like any other.
Answer(r, out) ==
  /\ pass[r].pc = "wait"
  /\ out \in IF linked THEN {"delivered", "permanent", "retry"} ELSE {"reauth", "retry"}
  /\ pass' = [pass EXCEPT ![r].pc = "mark", ![r].req = 0, ![r].out = out]
  /\ \/ out # "permanent" /\ linked /\ Accepts(r)
     \/ out # "delivered" /\ got' = got
  /\ UNCHANGED <<rows, order, sink, linked, faults, unlinks>>

\* failedPass, from the sink as it was when it was claimed.
FailedPass(p) ==
  IF p.any THEN [wait |-> 0, status |-> "connected", failures |-> 0]
  ELSE LET failures == IF sink.failures < MaxFailures THEN sink.failures + 1 ELSE MaxFailures IN
       IF failures >= MaxFailures THEN [wait |-> Probe, status |-> "error", failures |-> failures]
       ELSE [wait |-> SinkWait, status |-> None, failures |-> failures]

\* The rest of the snapshot, or another read of it, or the end of a short one.
Proceeds(p) ==
  LET rest == [p EXCEPT !.todo = Tail(@), !.out = None, !.any = @ \/ p.out = "delivered"] IN
  IF rest.todo # <<>> THEN [rest EXCEPT !.pc = "send"]
  ELSE IF p.short THEN Served(rest) ELSE [rest EXCEPT !.pc = "read"]

\* After a retry the pass ends: what follows the row must not overtake it.
AfterRetry_GoesOn(p) == Proceeds(p)
AfterRetry(p) == Ends(p, FailedPass(p))

Without(i) == Only(order, Rows \ {i})
\* markDelivered and markFailed write by id, whatever the row is by then. Of a
\* finished row only its key matters.
Settled(i) ==
  IF rows[i].st = "gone" THEN rows
  ELSE [rows EXCEPT ![i].st = "finished", ![i].items = {}, ![i].wait = 0, ![i].tries = 0]

MarkOutcome(r) ==
  LET p == pass[r]
      i == Head(p.todo).id
      tries == Head(p.todo).tries + 1 IN
  /\ p.pc = "mark"
  /\ \/ /\ p.out = "delivered"
        /\ rows' = Settled(i) /\ order' = Without(i)
        /\ pass' = [pass EXCEPT ![r] = Proceeds(p)]
     \/ /\ p.out = "reauth"
        /\ pass' = [pass EXCEPT ![r] = Ends(p, [wait |-> Probe, status |-> "auth_expired", failures |-> None])]
        /\ UNCHANGED <<rows, order>>
     \/ /\ p.out = "retry" /\ tries < MaxAttempts
        /\ IF rows[i].st = "pending"
           THEN /\ rows' = [rows EXCEPT ![i].wait = RowWait, ![i].tries = @ + 1]
                /\ order' = Placed(Without(i), i, RowWait, rows')
           ELSE UNCHANGED <<rows, order>>
        /\ pass' = [pass EXCEPT ![r] = AfterRetry(p)]
     \/ /\ p.out = "permanent" \/ (p.out = "retry" /\ tries >= MaxAttempts)
        /\ rows' = Settled(i) /\ order' = Without(i)
        /\ pass' = [pass EXCEPT ![r] = IF p.out = "permanent" THEN Proceeds(p) ELSE Ends(p, FailedPass(p))]
  /\ UNCHANGED <<sink, linked, got, faults, unlinks>>

\* releaseDeliverySink is one statement, but it may have waited for an enqueue
\* to commit: its subselect then still sees the rows as they were before.
\* Only a failing sink's status_at is ever read.
ReleaseReads(r) ==
  /\ pass[r].pc = "release"
  /\ pass' = [pass EXCEPT ![r].pc = "write",
                          ![r].min = IF Pending = {} THEN None ELSE MinOf({rows[i].wait : i \in Pending})]
  /\ UNCHANGED <<rows, order, sink, linked, got, faults, unlinks>>

ReleaseWrites(r) ==
  LET p == pass[r]
      rel == p.rel
      status == IF rel.status = None THEN sink.status ELSE rel.status IN
  /\ p.pc = "write"
  /\ IF sink.holder = r
     THEN sink' = [due |-> IF p.min = None THEN None ELSE IF p.min < rel.wait THEN rel.wait ELSE p.min,
                   holder |-> None, left |-> 0, status |-> status,
                   since |-> IF status # "error" THEN Probe ELSE IF status # sink.status THEN 0 ELSE sink.since,
                   failures |-> IF rel.failures = None THEN sink.failures ELSE rel.failures]
     ELSE UNCHANGED sink
  /\ \E pc \in {"idle", "claim"} : pass' = [pass EXCEPT ![r] = [Idle EXCEPT !.pc = pc]]  \* the next batch
  /\ UNCHANGED <<rows, order, linked, got, faults, unlinks>>

--------------------------------------------------------------------------------
(* Faults and time *)

\* A statement fails: a pass is given up for a minute, a release is left to the lease.
StatementFails(r) ==
  /\ pass[r].pc \in {"read", "mark", "release"} /\ faults < MaxFaults
  /\ pass' = [pass EXCEPT ![r] =
       IF pass[r].pc = "release" THEN Idle ELSE Ends(pass[r], [wait |-> 1, status |-> None, failures |-> None])]
  /\ faults' = faults + 1
  /\ UNCHANGED <<rows, order, sink, linked, got, unlinks>>

\* The process dies; a POST under way may have arrived.
Crash(r) ==
  /\ pass[r].pc # "idle" /\ faults < MaxFaults
  /\ pass' = [pass EXCEPT ![r] = Idle]
  /\ \/ pass[r].pc = "wait" /\ linked /\ Accepts(r)
     \/ got' = got
  /\ faults' = faults + 1
  /\ UNCHANGED <<rows, order, sink, linked, unlinks>>

\* At the addon's own end the user's account goes and comes back.
Unlink == linked /\ unlinks < MaxUnlinks /\ linked' = FALSE /\ unlinks' = unlinks + 1
          /\ UNCHANGED <<rows, order, sink, pass, got, faults>>
Relink == ~linked /\ linked' = TRUE /\ UNCHANGED <<rows, order, sink, pass, got, faults, unlinks>>

Less(n) == IF n > 0 THEN n - 1 ELSE 0
Tick ==
  /\ \A r \in Replica : pass[r].pc \in {"idle", "claim"} \/ (pass[r].pc = "wait" /\ pass[r].req > 0)
  /\ rows' = [i \in Rows |-> [rows[i] EXCEPT !.wait = Less(@)]]
  /\ sink' = [sink EXCEPT !.due = IF @ = None THEN None ELSE Less(@), !.left = Less(@),
                          !.since = IF @ < Probe THEN @ + 1 ELSE Probe]
  /\ pass' = [r \in Replica |-> [pass[r] EXCEPT !.left = Less(@), !.req = Less(@)]]
  /\ UNCHANGED <<order, linked, got, faults, unlinks>>

RunStep(r) ==
  \/ RunStarts(r) \/ NextBatch(r) \/ Read(r) \/ Send(r)
  \/ \E out \in {"delivered", "retry", "permanent", "reauth"} : Answer(r, out)
  \/ MarkOutcome(r) \/ ReleaseReads(r) \/ ReleaseWrites(r)

Next ==
  \/ Dispatch
  \/ \E i \in Rows : Prune(i)
  \/ \E r \in Replica : RunStep(r) \/ StatementFails(r) \/ Crash(r)
  \/ Unlink \/ Relink \/ Tick

\* The task recurs on every replica, a POST is answered or times out, time
\* passes, and the user reconnects the addon some day. Clients owe nothing.
Fairness ==
  /\ \A r \in Replica : WF_vars(RunStep(r))
  /\ WF_vars(Tick) /\ WF_vars(Relink)

Spec == Init /\ [][Next]_vars /\ Fairness

--------------------------------------------------------------------------------
(* What the outbox promises *)

Busy(r) == pass[r].pc \notin {"idle", "claim"}
Posts(r) == pass[r].pc = "send" /\ pass'[r].pc = "wait"
Posted(r) == Head(pass[r].todo)

\* The lease is what keeps the requests of one addon apart
\* (playback-handoff.ts:506): no two passes over it are ever under way, also
\* when the holder's process died and another replica took over. Under it the
\* table stays sound: rows in order, one row per idempotency key.
OnePass == \A r, s \in Replica : Busy(r) /\ Busy(s) => r = s
OutboxSound == TypeOK /\ OnePass

\* A row is sent before an earlier one of its lane or a faster one only if the
\* earlier one was tried and failed in a pass before this one.
OrderKept ==
  [][\A r \in Replica : Posts(r) =>
       \A i \in Pending :
         i < Posted(r).id /\ rows[i].lane <= rows[Posted(r).id].lane =>
           rows[i].tries > 0 /\ i \notin pass[r].tried]_vars

\* "A mark is the final word on an item" (dispatch.ts:313): once the addon has
\* taken a mark, nothing queued for the item before that mark is sent any more,
\* not even by a pass that read its rows before the mark came.
FinalWord ==
  [][\A r \in Replica : Posts(r) =>
       \A m \in got : m.items \intersect Posted(r).items # {} => Posted(r).id >= m.id]_vars

\* Every queued event is delivered, given up or replaced in the end, through
\* lost accounts, failed statements, crashes and a release that overwrote the
\* pointer an enqueue had just set.
EveryEventSettles == \A i \in 1..MaxEvents : (i \in Rows /\ i \in Pending) ~> i \notin Pending

================================================================================
