------------------------------ MODULE DistributedLock ------------------------------
(***************************************************************************)
(* withLock (utils/distributed-lock.ts): of the calls that come together   *)
(* for one key one runs fn, and the others are answered with what it made. *)
(* Four backends keep the lock: a map in the process, Redis, a table and a *)
(* file. One key, so calls stand for the callers; behind the three shared  *)
(* backends each of them may be a process of its own, and die.             *)
(*                                                                         *)
(* Times are what is left of them, in ticks. fn may take any time. It does *)
(* not return undefined behind the memory backend, as its callers know     *)
(* (remuxdb/client.ts:139). A command that fails has had no effect.        *)
(***************************************************************************)
EXTENDS Integers, FiniteSets

CONSTANTS
  Call,     \* bound: calls of withLock
  Backend,  \* the backends modelled
  Ttl,      \* ttl
  Keep,     \* how long an answer is kept: the 2000 ms of setTimeout
  Timeout,  \* timeout
  MaxFaults, \* bound: processes that die and commands that fail
  None

Backends == {"memory", "redis", "sql", "file"}

ASSUME BackendAssumption == Backend \subseteq Backends
ASSUME TimeAssumption == {Ttl, Keep, Timeout} \subseteq Nat \ {0} /\ MaxFaults \in Nat

VARIABLES
  backend,  \* chosen by options.type and the configuration
  lock,     \* the entry, key, row or file of the key; None when there is none
  call,     \* per call: see Calls
  timer,    \* per call: what is left of its delayed release
  ended,    \* per call: ticks since others may have its outcome, to Keep + 1
  late,     \* the calls that still held the lock when its ttl ran out
  broken    \* the calls of which a command failed

vars == <<backend, lock, call, timer, ended, late, broken>>

\* `answered` says whether the row holds a result.
Locks == [owner : Call, left : 0..Ttl, answered : BOOLEAN]

ASSUME NoneAssumption == None \notin Call \union Nat \union Locks

Waits == {"check", "wait", "poll"}
Holds == {"run", "store", "release", "delete"}
Over == {"done", "failed", "dead"}
\* `on` is the call whose lock object a memory waiter is queued on, `from` the
\* call whose outcome answered this one, and `old` the calls whose outcome was
\* too old to be handed out when this call began.
Calls == [pc : {"idle", "acquire", "stat", "unlink", "create", "subscribe", "count", "publish", "again"}
                  \union Waits \union Holds \union Over,
          left : 0..Timeout \union {None}, on : Call \union {None}, from : Call \union {None},
          old : SUBSET Call]

TypeOK ==
  /\ lock \in Locks \union {None}
  /\ call \in [Call -> Calls]
  /\ timer \in [Call -> 0..Keep \union {None}]
  /\ ended \in [Call -> 0..(Keep + 1) \union {None}]
  /\ late \subseteq Call /\ broken \subseteq Call
  /\ backend = "memory" => \A c \in Call : call[c].pc = "wait" <=> call[c].on # None

Init ==
  /\ backend \in Backend
  /\ lock = None
  /\ call = [c \in Call |-> [pc |-> "idle", left |-> None, on |-> None, from |-> None, old |-> {}]]
  /\ timer = [c \in Call |-> None] /\ ended = [c \in Call |-> None]
  /\ late = {} /\ broken = {}

At(c, pc) == call[c].pc = pc
Goes(c, pc) == call' = [call EXCEPT ![c].pc = pc]
Waiting(c, pc) == [call EXCEPT ![c].pc = pc, ![c].left = IF @ = None THEN Timeout ELSE @]
Taken(c) == [owner |-> c, left |-> Ttl, answered |-> FALSE]
Ended(c) == ended' = [ended EXCEPT ![c] = 0]
Owned(c) == lock # None /\ lock.owner = c

\* The calls of S end with c's outcome.
Answered(S, c) ==
  [d \in Call |-> IF d \in S THEN [call[d] EXCEPT !.pc = "done", !.on = None, !.from = c] ELSE call[d]]

--------------------------------------------------------------------------------
(* Common to the backends *)

Begin(c) ==
  /\ At(c, "idle")
  /\ call' = [call EXCEPT ![c].pc = "acquire",
                          ![c].old = {d \in Call : ended[d] # None /\ ended[d] > Keep}]
  /\ UNCHANGED <<backend, lock, timer, ended, late, broken>>

WaitTimesOut(c) ==
  /\ call[c].pc \in {"wait", "poll"} /\ call[c].left = 0
  /\ call' = [call EXCEPT ![c].pc = "failed", ![c].on = None]
  /\ UNCHANGED <<backend, lock, timer, ended, late, broken>>

--------------------------------------------------------------------------------
(* Memory: every step is synchronous *)

\* The sweep drops an expired entry also while its fn still runs.
Swept == IF lock # None /\ lock.left = 0 THEN None ELSE lock

MemoryAcquire(c) ==
  /\ backend = "memory" /\ At(c, "acquire")
  /\ IF Swept = None THEN lock' = Taken(c) /\ Goes(c, "run")
     ELSE /\ lock' = Swept
          /\ call' = IF ended[lock.owner] # None THEN Answered({c}, lock.owner)
                     ELSE [Waiting(c, "wait") EXCEPT ![c].on = lock.owner]
  /\ UNCHANGED <<backend, timer, ended, late, broken>>

MemoryEnds(c) ==
  /\ backend = "memory" /\ At(c, "run")
  /\ call' = [Answered({d \in Call : call[d].on = c}, c) EXCEPT ![c].pc = "done"]
  /\ Ended(c)
  /\ timer' = [timer EXCEPT ![c] = Keep]
  /\ UNCHANGED <<backend, lock, late, broken>>

\* The entry goes whoever's it is by now.
MemoryReleases_Forgets(c) ==
  /\ backend = "memory" /\ timer[c] = 0
  /\ timer' = [timer EXCEPT ![c] = None]
  /\ UNCHANGED <<backend, lock, call, ended, late, broken>>
MemoryReleases(c) ==
  /\ backend = "memory" /\ timer[c] = 0
  /\ lock' = None
  /\ timer' = [timer EXCEPT ![c] = None]
  /\ UNCHANGED <<backend, call, ended, late, broken>>

--------------------------------------------------------------------------------
(* Redis: every command is a step *)

RedisAcquire(c) ==
  /\ backend = "redis" /\ At(c, "acquire")
  /\ IF lock = None THEN lock' = Taken(c) /\ Goes(c, "run")
     ELSE Goes(c, "subscribe") /\ UNCHANGED lock
  /\ UNCHANGED <<backend, timer, ended, late, broken>>

RedisEnds(c) ==
  /\ backend = "redis" /\ At(c, "run")
  /\ Goes(c, "release")
  /\ UNCHANGED <<backend, lock, timer, ended, late, broken>>

\* GET, and DEL if the owner is still the same; an error is published unasked.
AfterRelease == {"count", "publish"}
RedisGet(c) ==
  /\ backend = "redis" /\ At(c, "release")
  /\ \E pc \in IF Owned(c) THEN {"delete"} ELSE AfterRelease : Goes(c, pc)
  /\ UNCHANGED <<backend, lock, timer, ended, late, broken>>
RedisDel(c) ==
  /\ backend = "redis" /\ At(c, "delete")
  /\ lock' = None
  /\ \E pc \in AfterRelease : Goes(c, pc)
  /\ UNCHANGED <<backend, timer, ended, late, broken>>

Subscribed == {d \in Call : call[d].pc \in {"check", "wait"}}

\* hasWaiters
RedisCount(c) ==
  /\ backend = "redis" /\ At(c, "count")
  /\ IF Subscribed = {} THEN Goes(c, "done") /\ Ended(c) ELSE Goes(c, "publish") /\ UNCHANGED ended
  /\ UNCHANGED <<backend, lock, timer, late, broken>>

\* A waiter whose look at the lock is still under way will go on from there.
RedisPublish(c) ==
  /\ backend = "redis" /\ At(c, "publish")
  /\ call' = [d \in Call |->
       IF d = c \/ At(d, "wait") THEN [call[d] EXCEPT !.pc = "done", !.from = IF d = c THEN @ ELSE c]
       ELSE IF At(d, "check") THEN [call[d] EXCEPT !.from = c] ELSE call[d]]
  /\ Ended(c)
  /\ UNCHANGED <<backend, lock, timer, late, broken>>

RedisSubscribe_Untimed(c) ==
  /\ backend = "redis" /\ At(c, "subscribe")
  /\ Goes(c, "check")
  /\ UNCHANGED <<backend, lock, timer, ended, late, broken>>
RedisSubscribe(c) ==
  /\ backend = "redis" /\ At(c, "subscribe")
  /\ call' = Waiting(c, "check")
  /\ UNCHANGED <<backend, lock, timer, ended, late, broken>>

\* Without a lock the waiter runs fn itself, answered or not.
RedisCheck_Skipped(c) ==
  /\ backend = "redis" /\ At(c, "check")
  /\ Goes(c, IF call[c].from # None THEN "done" ELSE "wait")
  /\ UNCHANGED <<backend, lock, timer, ended, late, broken>>
RedisCheck(c) ==
  /\ backend = "redis" /\ At(c, "check")
  /\ Goes(c, IF lock = None THEN "again" ELSE IF call[c].from # None THEN "done" ELSE "wait")
  /\ UNCHANGED <<backend, lock, timer, ended, late, broken>>
RedisRanAgain(c) ==
  /\ backend = "redis" /\ At(c, "again")
  /\ Goes(c, "done")
  /\ UNCHANGED <<backend, lock, timer, ended, late, broken>>

--------------------------------------------------------------------------------
(* The table *)

\* One transaction: expired rows go, and the row is inserted if there is none.
SqlAcquire(c) ==
  /\ backend = "sql" /\ At(c, "acquire")
  /\ IF Swept = None THEN lock' = Taken(c) /\ Goes(c, "run")
     ELSE lock' = Swept /\ call' = Waiting(c, "poll")
  /\ UNCHANGED <<backend, timer, ended, late, broken>>

SqlEnds(c) ==
  /\ backend = "sql" /\ At(c, "run")
  /\ Goes(c, "store")
  /\ UNCHANGED <<backend, lock, timer, ended, late, broken>>

SqlStore(c) ==
  /\ backend = "sql" /\ At(c, "store")
  /\ lock' = IF Owned(c) THEN [lock EXCEPT !.answered = TRUE] ELSE lock
  /\ timer' = [timer EXCEPT ![c] = Keep]
  /\ Goes(c, "done") /\ Ended(c)
  /\ UNCHANGED <<backend, late, broken>>

SqlDeletes_AnyRow(c) == TRUE
SqlDeletes(c) == Owned(c)
SqlReleases(c) ==
  /\ backend = "sql" /\ timer[c] = 0
  /\ lock' = IF SqlDeletes(c) THEN None ELSE lock
  /\ timer' = [timer EXCEPT ![c] = None]
  /\ UNCHANGED <<backend, call, ended, late, broken>>

\* A waiter only reads: it takes an answer, never the lock.
SqlPoll(c) ==
  /\ backend = "sql" /\ At(c, "poll") /\ lock # None /\ lock.answered
  /\ call' = Answered({c}, lock.owner)
  /\ UNCHANGED <<backend, lock, timer, ended, late, broken>>

--------------------------------------------------------------------------------
(* The file *)

\* A fresh file is waited for, and so is one that is gone by the second look; a
\* stale one is removed.
FileAccess(c) ==
  /\ backend = "file" /\ At(c, "acquire")
  /\ Goes(c, IF lock = None THEN "create" ELSE "stat")
  /\ UNCHANGED <<backend, lock, timer, ended, late, broken>>
FileStat(c) ==
  /\ backend = "file" /\ At(c, "stat")
  /\ IF lock # None /\ lock.left = 0 THEN Goes(c, "unlink") ELSE call' = Waiting(c, "poll")
  /\ UNCHANGED <<backend, lock, timer, ended, late, broken>>
FileUnlink(c) ==
  /\ backend = "file" /\ At(c, "unlink")
  /\ lock' = None
  /\ Goes(c, "create")
  /\ UNCHANGED <<backend, timer, ended, late, broken>>
FileCreate(c) ==
  /\ backend = "file" /\ At(c, "create")
  /\ IF lock = None THEN lock' = Taken(c) /\ Goes(c, "run")
     ELSE call' = Waiting(c, "poll") /\ UNCHANGED lock
  /\ UNCHANGED <<backend, timer, ended, late, broken>>

FileEnds(c) ==
  /\ backend = "file" /\ At(c, "run")
  /\ Goes(c, "release")
  /\ UNCHANGED <<backend, lock, timer, ended, late, broken>>
\* unlink, whoever's file it is by now.
FileRelease(c) ==
  /\ backend = "file" /\ At(c, "release")
  /\ lock' = None
  /\ Goes(c, "done")
  /\ UNCHANGED <<backend, timer, ended, late, broken>>

\* A waiter returns when the file is gone, and tries for a stale one.
FilePoll(c) ==
  /\ backend = "file" /\ At(c, "poll")
  /\ \/ lock = None /\ Goes(c, "done")
     \/ lock # None /\ lock.left = 0 /\ call[c].left > 0 /\ Goes(c, "acquire")
  /\ UNCHANGED <<backend, lock, timer, ended, late, broken>>

--------------------------------------------------------------------------------
(* Deaths, failed commands and time *)

Dead == {c \in Call : At(c, "dead")}
FaultsLeft == Cardinality(Dead) + Cardinality(broken) < MaxFaults

Dies(c) ==
  /\ backend # "memory" /\ FaultsLeft
  /\ ~At(c, "idle") /\ (call[c].pc \notin Over \/ timer[c] # None)
  /\ Goes(c, "dead")
  /\ timer' = [timer EXCEPT ![c] = None]
  /\ UNCHANGED <<backend, lock, ended, late, broken>>

Breaks(c) == FaultsLeft /\ broken' = broken \union {c}

\* The error reaches the caller, but a count that fails is taken for waiters.
RedisFails(c) ==
  /\ backend = "redis" /\ Breaks(c)
  /\ \/ call[c].pc \in {"acquire", "subscribe", "release", "delete", "publish"} /\ Goes(c, "failed")
     \/ At(c, "check") /\ Goes(c, IF call[c].from # None THEN "done" ELSE "failed")
     \/ At(c, "count") /\ Goes(c, "publish")
  /\ UNCHANGED <<backend, lock, timer, ended, late>>

\* Neither the outcome nor the error is written; the delayed DELETE fails unnoticed.
SqlFails(c) ==
  /\ backend = "sql" /\ Breaks(c)
  /\ \/ call[c].pc \in {"acquire", "poll"} /\ Goes(c, "failed") /\ UNCHANGED <<timer, ended>>
     \/ At(c, "store") /\ Goes(c, "done") /\ Ended(c) /\ timer' = [timer EXCEPT ![c] = Keep]
     \/ timer[c] = 0 /\ timer' = [timer EXCEPT ![c] = None] /\ UNCHANGED <<call, ended>>
  /\ UNCHANGED <<backend, lock, late>>

\* A look that fails finds no file, and whatever else fails is passed over.
FileFails(c) ==
  /\ backend = "file" /\ Breaks(c)
  /\ \/ call[c].pc \in {"acquire", "unlink"} /\ Goes(c, "create")
     \/ call[c].pc \in {"stat", "create"} /\ call' = Waiting(c, "poll")
     \/ call[c].pc \in {"poll", "release"} /\ Goes(c, "done")
  /\ UNCHANGED <<backend, lock, timer, ended, late>>

\* A memory holder is not done before its delayed release.
StillHolds(c) == call[c].pc \in Holds \/ (backend = "memory" /\ timer[c] # None)

Less(n) == IF n = None \/ n = 0 THEN n ELSE n - 1
Tick ==
  /\ \A c \in Call : timer[c] # 0 /\ ~(call[c].pc \in {"wait", "poll"} /\ call[c].left = 0)
  /\ LET runsOut == lock # None /\ lock.left = 1 IN
     /\ lock' = IF lock = None \/ (runsOut /\ backend = "redis") THEN None
                ELSE [lock EXCEPT !.left = Less(@)]
     /\ late' = IF runsOut /\ StillHolds(lock.owner) THEN late \union {lock.owner} ELSE late
  /\ call' = [c \in Call |-> [call[c] EXCEPT !.left = Less(@)]]
  /\ timer' = [c \in Call |-> Less(timer[c])]
  /\ ended' = [c \in Call |-> IF ended[c] = None \/ ended[c] = Keep + 1 THEN ended[c] ELSE ended[c] + 1]
  /\ UNCHANGED <<backend, broken>>

Proceeds(c) ==
  \/ WaitTimesOut(c)
  \/ MemoryAcquire(c) \/ MemoryEnds(c) \/ MemoryReleases(c)
  \/ RedisAcquire(c) \/ RedisEnds(c) \/ RedisGet(c) \/ RedisDel(c) \/ RedisCount(c) \/ RedisPublish(c)
  \/ RedisSubscribe(c) \/ RedisCheck(c) \/ RedisRanAgain(c)
  \/ SqlAcquire(c) \/ SqlEnds(c) \/ SqlStore(c) \/ SqlReleases(c) \/ SqlPoll(c)
  \/ FileAccess(c) \/ FileStat(c) \/ FileUnlink(c) \/ FileCreate(c) \/ FileEnds(c) \/ FileRelease(c) \/ FilePoll(c)

Next == Tick \/ \E c \in Call : Begin(c) \/ Proceeds(c) \/ Dies(c) \/ RedisFails(c) \/ SqlFails(c) \/ FileFails(c)

\* fn ends, commands are answered, time passes. Nobody has to call.
Fairness == WF_vars(Tick) /\ WF_vars(\E c \in Call : Proceeds(c))

Spec == Init /\ [][Next]_vars /\ Fairness

--------------------------------------------------------------------------------
(* What the lock promises *)

\* What a process leaves behind that died or could not remove it.
Faulty == Dead \union broken

\* While every holder is done within its ttl, one caller at a time runs fn under
\* the lock. What a late holder may break depends on the backend: the table
\* compares owners, so only a late run ever overlaps; the memory entry, the
\* Redis key between GET and DEL, and the file may be removed under a later
\* holder as well, the file also by two callers that clear one nobody removed.
Overlaps(a, b) ==
  CASE backend = "sql" -> a \in late \/ b \in late
    [] backend \in {"memory", "redis"} -> late # {}
    [] backend = "file" -> late \union Faulty # {}
OneRunner == \A a, b \in Call : At(a, "run") /\ At(b, "run") /\ a # b => Overlaps(a, b)
LockSound == TypeOK /\ OneRunner

\* A memory waiter is queued on a run that is still to end. A Redis waiter that
\* has looked at the lock waits for somebody who is still to publish, unless a
\* holder died, outlived its key or failed on the way.
NoStrandedWaiter ==
  \A c \in Call : At(c, "wait") =>
    \/ backend = "memory" /\ At(call[c].on, "run")
    \/ backend = "redis" /\ \/ \E h \in Call : call[h].pc \in Holds \union {"count", "publish"}
                            \/ late \union Faulty # {}

\* Nobody is answered with the outcome of a run that had ended for longer than
\* the answer is kept when it called. Only a row may stay for its ttl: its writer
\* died before its delayed DELETE, or the DELETE failed.
AnswersFresh ==
  \A c \in Call : call[c].from # None =>
    \/ call[c].from \notin call[c].old
    \/ backend = "sql" /\ call[c].from \in Faulty

\* Every call returns or fails, also behind a holder that died.
EveryCallReturns == \A c \in Call : ~At(c, "idle") ~> call[c].pc \in Over

================================================================================
