--------------------------- MODULE DistributedLockProofs ---------------------------
(***************************************************************************)
(* Proofs about DistributedLock for any callers, times and backends.       *)
(***************************************************************************)
EXTENDS DistributedLock, TLAPS

\* The steps of each backend.
Pcs(b) ==
  CASE b = "memory" -> {"idle", "acquire", "run", "wait", "done", "failed"}
    [] b = "redis"  -> {"idle", "acquire", "run", "release", "delete", "count", "publish",
                        "subscribe", "check", "wait", "again", "done", "failed", "dead"}
    [] b = "sql"    -> {"idle", "acquire", "run", "store", "poll", "done", "failed", "dead"}
    [] b = "file"   -> {"idle", "acquire", "stat", "unlink", "create", "run", "release", "poll",
                        "done", "failed", "dead"}
BackendsApart == backend \in Backends /\ \A c \in Call : call[c].pc \in Pcs(backend)

Ran == Holds \union {"count", "publish", "done", "failed", "dead"}

\* What a call gave out, it gave out once, at its end.
EndedOnce ==
  \A c \in Call : /\ ended[c] # None => call[c].pc \in {"done", "dead"}
                  /\ timer[c] # None => /\ call[c].pc = "done"
                                        /\ ended[c] # None /\ ended[c] + timer[c] = Keep
OldEnded ==
  \A c \in Call : /\ \A d \in call[c].old : ended[d] # None /\ ended[d] > Keep
                  /\ At(c, "idle") => call[c].from = None

\* Who holds the lock owns the entry, but for what Overlaps excuses.
Excused(c) ==
  CASE backend = "sql" -> c \in late
    [] backend \in {"memory", "redis"} -> late # {}
    [] backend = "file" -> late \union Faulty # {}
HoldersOwn == \A c \in Call : StillHolds(c) => Owned(c) \/ Excused(c)

\* Who owns the entry ran fn under it, and what is left of it says whether it
\* still does.
OwnerRan == lock # None => call[lock.owner].pc \in Ran
Expired == lock # None => lock.left > 0 \/ ~StillHolds(lock.owner) \/ lock.owner \in late
HolderLives ==
  backend \in {"redis", "file"} /\ late \union Faulty = {} =>
    /\ lock # None => call[lock.owner].pc \in Holds
    /\ \A c \in Call : ~At(c, "unlink")
OwnerAnswers ==
  lock # None =>
    /\ backend = "memory" => At(lock.owner, "run") \/ timer[lock.owner] # None
    /\ backend = "sql" /\ lock.answered => lock.owner \in Faulty \/ timer[lock.owner] # None

IInv ==
  /\ TypeOK /\ BackendsApart /\ EndedOnce /\ OldEnded /\ HoldersOwn
  /\ OwnerRan /\ Expired /\ HolderLives /\ OwnerAnswers
  /\ NoStrandedWaiter /\ AnswersFresh

--------------------------------------------------------------------------------
(* What a step does to the calls *)

OnlyMoves(c) == call' \in [Call -> Calls] /\ \A d \in Call : d # c => call'[d] = call[d]

\* The constants, and that no call or answer is None.
LEMMA Times ==
  /\ Ttl \in Nat /\ Ttl > 0 /\ Keep \in Nat /\ Keep > 0 /\ Timeout \in Nat /\ MaxFaults \in Nat
  /\ \A n \in Nat : n # None
  /\ \A c \in Call : c # None /\ Taken(c) # None /\ Taken(c) \in Locks
<1>1. /\ Ttl \in Nat /\ Ttl > 0 /\ Keep \in Nat /\ Keep > 0 /\ Timeout \in Nat /\ MaxFaults \in Nat
  BY TimeAssumption
<1>2. \A c \in Call : Taken(c) \in Locks
  BY <1>1 DEF Taken, Locks
<1> QED BY <1>1, <1>2, NoneAssumption

AllPcs ==
  {"idle", "acquire", "stat", "unlink", "create", "subscribe", "count", "publish", "again"}
    \union Waits \union Holds \union Over

\* A step of one call moves that call only.
LEMMA GoesFacts ==
  ASSUME TypeOK, NEW c \in Call, NEW pc \in AllPcs, Goes(c, pc)
  PROVE  /\ OnlyMoves(c) /\ call'[c].pc = pc
         /\ call'[c].on = call[c].on /\ call'[c].from = call[c].from /\ call'[c].old = call[c].old
BY DEF TypeOK, Calls, AllPcs, Goes, OnlyMoves, Waits, Holds, Over

\* A call that starts to wait moves itself only.
LEMMA WaitingFacts ==
  ASSUME TypeOK, NEW c \in Call, NEW pc \in AllPcs, call' = Waiting(c, pc)
  PROVE  /\ OnlyMoves(c) /\ call'[c].pc = pc
         /\ call'[c].on = call[c].on /\ call'[c].from = call[c].from /\ call'[c].old = call[c].old
<1> DEFINE left == IF call[c].left = None THEN Timeout ELSE call[c].left
<1>1. call \in [Call -> Calls] /\ call[c] \in Calls
  BY DEF TypeOK
<1>2. left \in 0..Timeout \union {None}
  BY <1>1, Times DEF Calls
<1>3. call' = [call EXCEPT ![c] = [call[c] EXCEPT !.pc = pc, !.left = left]]
  BY <1>1 DEF Waiting, Calls
<1> HIDE DEF left
<1>4. [call[c] EXCEPT !.pc = pc, !.left = left] \in Calls
  BY <1>1, <1>2 DEF Calls, AllPcs
<1> QED BY <1>1, <1>3, <1>4 DEF OnlyMoves, Calls

Ends == Holds \union {"count", "publish"}

\* A step of one call that touches neither the lock nor the times.
LEMMA QuietMove ==
  ASSUME IInv, NEW c \in Call, OnlyMoves(c), UNCHANGED <<backend, lock, timer, ended, late, broken>>,
         call'[c].from = call[c].from, call'[c].old = call[c].old,
         call'[c].pc \in Pcs(backend) \ {"dead", "idle"}, call[c].pc \notin {"idle", "done", "failed", "dead"},
         backend = "memory" => (call'[c].pc = "wait" <=> call'[c].on # None) /\ ~At(c, "run"),
         call'[c].pc \in Holds => call[c].pc \in Holds,
         call[c].pc \in Ends => call'[c].pc \in Ends,
         Owned(c) /\ call[c].pc \in Holds => call'[c].pc \in Holds,
         call'[c].pc = "unlink" => late \union Faulty # {},
         call'[c].pc = "wait" =>
           \/ backend = "memory" /\ call'[c].on \in Call /\ At(call'[c].on, "run")
           \/ backend = "redis" /\ \/ \E h \in Call \ {c} : call[h].pc \in Ends
                                   \/ late \union Faulty # {}
  PROVE  IInv'
<1>0. Faulty' = Faulty
  BY DEF Faulty, Dead, At, OnlyMoves
<1>1. \A d \in Call : (call'[d].pc \in Holds => call[d].pc \in Holds) /\ (StillHolds(d)' => StillHolds(d))
  BY DEF OnlyMoves, StillHolds
<1>2. \A d \in Call : call'[d].from = call[d].from /\ call'[d].old = call[d].old
  BY DEF OnlyMoves
<1>3. lock # None => lock.owner \in Call
  BY DEF IInv, TypeOK, Locks
<1>4. TypeOK'
  BY DEF IInv, TypeOK, OnlyMoves
<1>5. BackendsApart'
  BY DEF IInv, BackendsApart, OnlyMoves
<1>6. EndedOnce'
  BY DEF IInv, EndedOnce, OnlyMoves
<1>7. OldEnded'
  BY <1>2 DEF IInv, OldEnded, At, OnlyMoves
<1>8. HoldersOwn'
  BY <1>0, <1>1 DEF IInv, HoldersOwn, Owned, Excused
<1>9. OwnerRan'
  BY <1>3 DEF IInv, OwnerRan, Ran, OnlyMoves, Ends
<1>10. Expired'
  BY <1>1, <1>3 DEF IInv, Expired
<1>11. HolderLives'
  BY <1>0, <1>3 DEF IInv, HolderLives, At, OnlyMoves, Owned
<1>12. OwnerAnswers'
  BY <1>0, <1>3 DEF IInv, OwnerAnswers, At, OnlyMoves
<1>13. NoStrandedWaiter'
  <2> SUFFICES ASSUME NEW d \in Call, call'[d].pc = "wait"
               PROVE  \/ backend = "memory" /\ call'[call'[d].on].pc = "run"
                      \/ backend = "redis" /\ \/ \E h \in Call : call'[h].pc \in Ends
                                              \/ late \union Faulty # {}
    BY <1>0 DEF NoStrandedWaiter, At, Ends
  <2>1. \A h \in Call : call[h].pc \in Ends => call'[h].pc \in Ends
    BY DEF OnlyMoves
  <2>2. CASE d = c
    BY <2>1, <2>2 DEF OnlyMoves, At
  <2>3. CASE d # c
    <3>1. call'[d] = call[d]
      BY <2>3 DEF OnlyMoves
    <3>2. \/ backend = "memory" /\ call[call[d].on].pc = "run"
          \/ backend = "redis" /\ \/ \E h \in Call : call[h].pc \in Ends
                                  \/ late \union Faulty # {}
      BY <3>1 DEF IInv, NoStrandedWaiter, At, Ends
    <3>3. backend = "memory" => call[d].on \in Call
      BY <3>1 DEF IInv, TypeOK, Calls
    <3> QED BY <2>1, <3>1, <3>2, <3>3 DEF OnlyMoves, At
  <2> QED BY <2>2, <2>3
<1>14. AnswersFresh'
  BY <1>0, <1>2 DEF IInv, AnswersFresh
<1> QED BY <1>4, <1>5, <1>6, <1>7, <1>8, <1>9, <1>10, <1>11, <1>12, <1>13, <1>14 DEF IInv

--------------------------------------------------------------------------------
(* Lemmas shared by the steps that change the lock or give an outcome out *)

\* What is known of the lock's record, and of the record left when the expired is swept.
LEMMA LockView ==
  ASSUME IInv
  PROVE  /\ lock # None => lock.owner \in Call /\ lock.left \in 0..Ttl /\ lock \in Locks
         /\ Swept = None \/ (Swept = lock /\ lock.left > 0)
         /\ Swept = None => lock = None \/ lock.left = 0
BY Times DEF IInv, TypeOK, Locks, Swept

\* Nobody is left waiting for a call that will not answer.
LEMMA WaitersKept ==
  ASSUME IInv, backend' = backend, late' = late, Faulty \subseteq Faulty',
         call' \in [Call -> Calls],
         \A d \in Call : call'[d].pc = "wait" =>
           /\ call[d].pc = "wait" /\ call'[d].on = call[d].on
           /\ backend = "memory" /\ call[d].on \in Call /\ At(call[d].on, "run") =>
                call'[call[d].on].pc = "run",
         backend = "redis" =>
           \/ \A h \in Call : call[h].pc \in Ends => call'[h].pc \in Ends
           \/ \A d \in Call : call'[d].pc # "wait"
           \/ late \union Faulty' # {}
  PROVE  NoStrandedWaiter'
<1> SUFFICES ASSUME NEW d \in Call, call'[d].pc = "wait"
             PROVE  \/ backend = "memory" /\ call'[call'[d].on].pc = "run"
                    \/ backend = "redis" /\ \/ \E h \in Call : call'[h].pc \in Ends
                                            \/ late \union Faulty' # {}
  BY DEF NoStrandedWaiter, At, Ends
<1>1. call[d].pc = "wait" /\ call'[d].on = call[d].on
  OBVIOUS
<1>2. \/ backend = "memory" /\ call[call[d].on].pc = "run"
      \/ backend = "redis" /\ \/ \E h \in Call : call[h].pc \in Ends
                              \/ late \union Faulty # {}
  BY <1>1 DEF IInv, NoStrandedWaiter, At, Ends
<1>3. backend = "memory" => call[d].on \in Call
  BY <1>1 DEF IInv, TypeOK, Calls
<1>4. CASE backend = "memory"
  BY <1>1, <1>2, <1>3, <1>4 DEF At
<1>5. CASE backend = "redis"
  BY <1>1, <1>2, <1>5
<1> QED BY <1>2, <1>4, <1>5

\* Answers stay as fresh as they were given.
LEMMA AnswersKept ==
  ASSUME IInv, backend' = backend, Faulty \subseteq Faulty', NEW a \in Call,
         call' \in [Call -> Calls],
         \A d \in Call : \/ call'[d].from = call[d].from /\ call'[d].old = call[d].old
                         \/ call'[d].from = None
                         \/ call'[d].from = a /\ call'[d].old = call[d].old /\ a \notin call[d].old
  PROVE  AnswersFresh'
BY DEF IInv, AnswersFresh

\* Outcomes given out now are of nobody's past.
LEMMA EndsKept ==
  ASSUME IInv, NEW a \in Call, call' \in [Call -> Calls],
         ended' = [ended EXCEPT ![a] = 0], call[a].pc \notin {"done", "dead"},
         \A d \in Call : call'[d].old = call[d].old /\ (call'[d].pc = "idle" => At(d, "idle") /\ call'[d] = call[d])
  PROVE  /\ OldEnded'
         /\ \A d \in Call : a \notin call[d].old
         /\ ended' \in [Call -> 0..(Keep + 1) \union {None}]
         /\ ended'[a] = 0 /\ \A d \in Call : d # a => ended'[d] = ended[d]
<1>1. ended \in [Call -> 0..(Keep + 1) \union {None}]
  BY DEF IInv, TypeOK
<1>2. ended[a] = None
  BY DEF IInv, EndedOnce
<1>3. \A d \in Call : a \notin call[d].old
  BY <1>2 DEF IInv, OldEnded
<1>4. \A d \in Call : call[d].old \subseteq Call
  BY DEF IInv, TypeOK, Calls
<1>5. ended' \in [Call -> 0..(Keep + 1) \union {None}]
  BY <1>1, Times
<1>6. ended'[a] = 0 /\ \A d \in Call : d # a => ended'[d] = ended[d]
  BY <1>1
<1>7. OldEnded'
  BY <1>3, <1>4, <1>6 DEF IInv, OldEnded, At
<1> QED BY <1>3, <1>5, <1>6, <1>7

\* Whoever takes the lock finds nobody holding it, but for what is excused.
LEMMA Takes ==
  ASSUME IInv, NEW c \in Call, call[c].pc \in {"acquire", "create"}, lock' = Taken(c), Goes(c, "run"),
         UNCHANGED <<backend, timer, ended, late, broken>>,
         \/ lock = None
         \/ lock.left = 0 /\ backend \in {"memory", "sql"}
  PROVE  IInv'
<1>1. /\ OnlyMoves(c) /\ call'[c].pc = "run"
      /\ call'[c].on = call[c].on /\ call'[c].from = call[c].from /\ call'[c].old = call[c].old
  BY GoesFacts DEF IInv, AllPcs, Holds
<1>2. lock' # None /\ lock' \in Locks /\ lock'.owner = c /\ lock'.left = Ttl /\ lock'.answered = FALSE
  BY Times DEF Taken
<1>3. ended[c] = None /\ timer[c] = None
  BY DEF IInv, EndedOnce
<1>4. Faulty' = Faulty
  BY <1>1 DEF Faulty, Dead, At, OnlyMoves
<1>5. \A d \in Call : StillHolds(d) => Excused(d)
  <2> SUFFICES ASSUME NEW d \in Call, StillHolds(d), Owned(d) PROVE Excused(d)
    BY DEF IInv, HoldersOwn
  <2>1. lock # None /\ lock.owner = d /\ lock.left = 0 /\ backend \in {"memory", "sql"}
    BY DEF Owned
  <2>2. d \in late
    BY <2>1, Times DEF IInv, Expired
  <2> QED BY <2>1, <2>2 DEF Excused
<1>6. TypeOK'
  BY <1>1, <1>2 DEF IInv, TypeOK, OnlyMoves
<1>7. BackendsApart'
  BY <1>1 DEF IInv, BackendsApart, OnlyMoves, Pcs, Backends
<1>8. EndedOnce'
  BY <1>1, <1>3 DEF IInv, EndedOnce, OnlyMoves
<1>9. OldEnded'
  BY <1>1 DEF IInv, OldEnded, At, OnlyMoves
<1>10. HoldersOwn'
  <2> SUFFICES ASSUME NEW d \in Call, StillHolds(d)' PROVE Owned(d)' \/ Excused(d)'
    BY DEF HoldersOwn
  <2>1. CASE d = c
    BY <1>2, <2>1 DEF Owned
  <2>2. CASE d # c
    <3>1. StillHolds(d)
      BY <1>1, <2>2 DEF StillHolds, OnlyMoves
    <3> QED BY <1>4, <1>5, <3>1 DEF Excused
  <2> QED BY <2>1, <2>2
<1>11. OwnerRan' /\ Expired' /\ OwnerAnswers'
  BY <1>1, <1>2, Times DEF OwnerRan, Ran, Holds, Expired, OwnerAnswers, At
<1>12. HolderLives'
  BY <1>1, <1>2, <1>4 DEF IInv, HolderLives, Holds, At, OnlyMoves
<1>13. NoStrandedWaiter'
  <2>1. \A h \in Call : At(h, "run") => call'[h].pc = "run"
    BY <1>1 DEF OnlyMoves, At
  <2>2. \A d \in Call : call'[d].pc = "wait" => call[d].pc = "wait" /\ call'[d].on = call[d].on
    BY <1>1 DEF OnlyMoves
  <2>3. \A h \in Call : call[h].pc \in Ends => call'[h].pc \in Ends
    BY <1>1 DEF OnlyMoves, Ends, Holds
  <2>4. call' \in [Call -> Calls] /\ Faulty \subseteq Faulty'
    BY <1>1, <1>4 DEF OnlyMoves
  <2>5. backend' = backend /\ late' = late
    OBVIOUS
  <2> QED BY <2>5, <2>1, <2>2, <2>3, <2>4, WaitersKept
<1>14. AnswersFresh'
  BY <1>1, <1>4, AnswersKept DEF OnlyMoves
<1> QED BY <1>6, <1>7, <1>8, <1>9, <1>10, <1>11, <1>12, <1>13, <1>14 DEF IInv

\* Time and deaths aside, steps that leave the lock to nobody.
LEMMA Frees ==
  ASSUME IInv, lock' = None, UNCHANGED <<backend, late, broken>>, Faulty' = Faulty, call' \in [Call -> Calls],
         \A d \in Call : StillHolds(d)' => StillHolds(d) /\ (Owned(d) => Excused(d)),
         \A d \in Call : call'[d].pc = "unlink" => At(d, "unlink")
  PROVE  HoldersOwn' /\ OwnerRan' /\ Expired' /\ HolderLives' /\ OwnerAnswers'
<1>1. HoldersOwn'
  BY DEF IInv, HoldersOwn, Excused
<1>2. OwnerRan' /\ Expired' /\ OwnerAnswers'
  BY DEF OwnerRan, Expired, OwnerAnswers
<1>3. HolderLives'
  BY DEF IInv, HolderLives, At
<1> QED BY <1>1, <1>2, <1>3

--------------------------------------------------------------------------------
(* Steps common to the backends *)

\* withLock is called.
LEMMA BeginStep ==
  ASSUME IInv, NEW c \in Call, Begin(c)
  PROVE  IInv'
<1> DEFINE past == {d \in Call : ended[d] # None /\ ended[d] > Keep}
<1>1. /\ At(c, "idle") /\ UNCHANGED <<backend, lock, timer, ended, late, broken>>
      /\ call' = [call EXCEPT ![c].pc = "acquire", ![c].old = past]
  BY DEF Begin
<1>2. /\ OnlyMoves(c) /\ call'[c].pc = "acquire" /\ call'[c].old = past
      /\ call'[c].on = call[c].on /\ call'[c].from = None
  <2>1. call' = [call EXCEPT ![c] = [call[c] EXCEPT !.pc = "acquire", !.old = past]]
    BY <1>1 DEF IInv, TypeOK, Calls
  <2>2. [call[c] EXCEPT !.pc = "acquire", !.old = past] \in Calls
    <3>1. call[c] \in Calls /\ past \in SUBSET Call
      BY DEF IInv, TypeOK
    <3> HIDE DEF past
    <3> QED BY <3>1 DEF Calls
  <2>3. call[c].from = None
    BY <1>1 DEF IInv, OldEnded
  <2> QED BY <2>1, <2>2, <2>3 DEF IInv, TypeOK, OnlyMoves, Calls
<1> HIDE DEF past
<1>3. Faulty' = Faulty
  BY <1>1, <1>2 DEF Faulty, Dead, At, OnlyMoves
<1>4. \A d \in Call : StillHolds(d)' => StillHolds(d)
  BY <1>1, <1>2 DEF OnlyMoves, StillHolds, Holds
<1>5. lock # None => lock.owner \in Call /\ lock.owner # c /\ call'[lock.owner] = call[lock.owner]
  BY <1>1, <1>2, LockView DEF IInv, OwnerRan, Ran, Holds, At, OnlyMoves
<1>6. TypeOK'
  BY <1>1, <1>2 DEF IInv, TypeOK, OnlyMoves, At
<1>7. BackendsApart'
  BY <1>1, <1>2 DEF IInv, BackendsApart, OnlyMoves, Pcs, Backends
<1>8. EndedOnce'
  BY <1>1, <1>2 DEF IInv, EndedOnce, OnlyMoves, At
<1>9. OldEnded'
  BY <1>1, <1>2 DEF IInv, OldEnded, At, OnlyMoves, past
<1>10. HoldersOwn'
  BY <1>1, <1>3, <1>4 DEF IInv, HoldersOwn, Owned, Excused
<1>11. OwnerRan' /\ Expired' /\ OwnerAnswers'
  BY <1>1, <1>3, <1>4, <1>5 DEF IInv, OwnerRan, Expired, OwnerAnswers, At
<1>12. HolderLives'
  BY <1>1, <1>2, <1>3, <1>5 DEF IInv, HolderLives, At, OnlyMoves
<1>13. NoStrandedWaiter'
  <2>1. \A h \in Call : At(h, "run") => call'[h].pc = "run"
    BY <1>1, <1>2 DEF OnlyMoves, At
  <2>2. \A d \in Call : call'[d].pc = "wait" => call[d].pc = "wait" /\ call'[d].on = call[d].on
    BY <1>2 DEF OnlyMoves
  <2>3. \A h \in Call : call[h].pc \in Ends => call'[h].pc \in Ends
    BY <1>1, <1>2 DEF OnlyMoves, Ends, Holds, At
  <2>4. call' \in [Call -> Calls] /\ Faulty \subseteq Faulty' /\ late' = late /\ backend' = backend
    BY <1>1, <1>2, <1>3 DEF OnlyMoves
  <2> QED BY <2>1, <2>2, <2>3, <2>4, WaitersKept
<1>14. AnswersFresh'
  BY <1>1, <1>2, <1>3 DEF IInv, AnswersFresh, OnlyMoves
<1> QED BY <1>6, <1>7, <1>8, <1>9, <1>10, <1>11, <1>12, <1>13, <1>14 DEF IInv

\* A waiter gives up.
LEMMA WaitTimesOutStep ==
  ASSUME IInv, NEW c \in Call, WaitTimesOut(c)
  PROVE  IInv'
<1>1. call' = [call EXCEPT ![c] = [call[c] EXCEPT !.pc = "failed", !.on = None]]
  BY DEF IInv, TypeOK, Calls, WaitTimesOut
<1>2. /\ OnlyMoves(c) /\ call'[c].pc = "failed" /\ call'[c].on = None
      /\ call'[c].from = call[c].from /\ call'[c].old = call[c].old
  <2>1. ASSUME NEW r \in Calls
        PROVE  LET n == [r EXCEPT !.pc = "failed", !.on = None]
               IN  n \in Calls /\ n.pc = "failed" /\ n.on = None /\ n.from = r.from /\ n.old = r.old
    BY DEF Calls, Over
  <2>2. call \in [Call -> Calls]
    BY DEF IInv, TypeOK
  <2> HIDE DEF Calls
  <2>3. call'[c] = [call[c] EXCEPT !.pc = "failed", !.on = None] /\ \A d \in Call : d # c => call'[d] = call[d]
    BY <1>1, <2>2
  <2>4. call[c] \in Calls /\ call' \in [Call -> Calls]
    BY <1>1, <2>1, <2>2
  <2> QED BY <2>1, <2>3, <2>4 DEF OnlyMoves
<1>3. call[c].pc \in {"wait", "poll"} /\ UNCHANGED <<backend, lock, timer, ended, late, broken>>
  BY DEF WaitTimesOut
<1>4. "failed" \in Pcs(backend)
  BY DEF IInv, BackendsApart, Backends, Pcs
<1> QED BY <1>2, <1>3, <1>4, QuietMove DEF Holds, Ends, At

\* The steps of the shared backends that move one call and nothing else.
LEMMA SharedMoves ==
  ASSUME IInv, NEW c \in Call, NEW pc, Goes(c, pc) \/ (call' = Waiting(c, pc)),
         UNCHANGED <<backend, lock, timer, ended, late, broken>>,
         backend # "memory", pc \in Pcs(backend) \ {"dead", "idle"},
         call[c].pc \notin {"idle", "done", "failed", "dead"},
         pc \in Holds => call[c].pc \in Holds,
         call[c].pc \in Ends => pc \in Ends,
         Owned(c) /\ call[c].pc \in Holds => pc \in Holds,
         pc = "unlink" => late \union Faulty # {},
         pc = "wait" => backend = "redis" /\ \/ \E h \in Call \ {c} : call[h].pc \in Ends
                                             \/ late \union Faulty # {}
  PROVE  IInv'
<1>1. pc \in AllPcs
  BY DEF IInv, BackendsApart, Backends, Pcs, AllPcs, Holds, Waits, Over
<1>2. /\ OnlyMoves(c) /\ call'[c].pc = pc
      /\ call'[c].on = call[c].on /\ call'[c].from = call[c].from /\ call'[c].old = call[c].old
  BY <1>1, GoesFacts, WaitingFacts DEF IInv
<1> QED BY <1>2, QuietMove

\* While nobody was late or died, the owner of a Redis key or of a file holds it.
LEMMA LiveOwner ==
  ASSUME IInv, backend \in {"redis", "file"}, late \union Faulty = {}, lock # None
  PROVE  lock.owner \in Call /\ call[lock.owner].pc \in Holds /\ lock.left > 0
<1>1. lock.owner \in Call /\ call[lock.owner].pc \in Holds
  BY LockView DEF IInv, HolderLives
<1>2. lock.left > 0
  BY <1>1 DEF IInv, Expired, StillHolds
<1> QED BY <1>1, <1>2

\* Steps that move their caller and touch neither lock nor answers.
LEMMA QuietSteps ==
  ASSUME IInv, NEW c \in Call,
         \/ RedisEnds(c) \/ RedisGet(c) \/ RedisSubscribe(c) \/ RedisCheck(c) \/ RedisRanAgain(c)
         \/ SqlEnds(c) \/ FileAccess(c) \/ FileStat(c) \/ FileEnds(c) \/ FilePoll(c)
  PROVE  IInv'
<1>1. CASE RedisEnds(c)
  <2>1. At(c, "run") /\ Goes(c, "release") /\ backend = "redis" /\ UNCHANGED <<backend, lock, timer, ended, late, broken>>
    BY <1>1 DEF RedisEnds
  <2> QED BY <2>1, SharedMoves DEF Pcs, Holds, Ends, At
<1>2. CASE RedisGet(c)
  <2>1. /\ At(c, "release") /\ backend = "redis" /\ UNCHANGED <<backend, lock, timer, ended, late, broken>>
        /\ \E pc \in IF Owned(c) THEN {"delete"} ELSE {"count", "publish"} : Goes(c, pc)
    BY <1>2 DEF RedisGet, AfterRelease
  <2>2. CASE Owned(c)
    <3>1. Goes(c, "delete")
      BY <2>1, <2>2
    <3> QED BY <2>1, <3>1, SharedMoves DEF Pcs, Holds, Ends, At
  <2>3. CASE ~Owned(c)
    <3>1. PICK pc \in {"count", "publish"} : Goes(c, pc)
      BY <2>1, <2>3
    <3> QED BY <2>1, <2>3, <3>1, SharedMoves DEF Pcs, Holds, Ends, At
  <2> QED BY <2>2, <2>3
<1>3. CASE RedisSubscribe(c)
  <2>1. At(c, "subscribe") /\ call' = Waiting(c, "check") /\ backend = "redis" /\ UNCHANGED <<backend, lock, timer, ended, late, broken>>
    BY <1>3 DEF RedisSubscribe
  <2> QED BY <2>1, SharedMoves DEF Pcs, Holds, Ends, At
<1>4. CASE RedisCheck(c)
  <2> DEFINE pc == IF lock = None THEN "again" ELSE IF call[c].from # None THEN "done" ELSE "wait"
  <2>1. At(c, "check") /\ Goes(c, pc) /\ backend = "redis" /\ UNCHANGED <<backend, lock, timer, ended, late, broken>>
    BY <1>4 DEF RedisCheck
  <2>2. pc = "wait" => late \union Faulty # {} \/ \E h \in Call \ {c} : call[h].pc \in Ends
    BY <2>1, LiveOwner DEF Ends, Holds, At
  <2>3. pc \in {"again", "done", "wait"}
    OBVIOUS
  <2> HIDE DEF pc
  <2> QED BY <2>1, <2>2, <2>3, SharedMoves DEF Pcs, Holds, Ends, At
<1>5. CASE RedisRanAgain(c)
  <2>1. At(c, "again") /\ Goes(c, "done") /\ backend = "redis" /\ UNCHANGED <<backend, lock, timer, ended, late, broken>>
    BY <1>5 DEF RedisRanAgain
  <2> QED BY <2>1, SharedMoves DEF Pcs, Holds, Ends, At
<1>6. CASE SqlEnds(c)
  <2>1. At(c, "run") /\ Goes(c, "store") /\ backend = "sql" /\ UNCHANGED <<backend, lock, timer, ended, late, broken>>
    BY <1>6 DEF SqlEnds
  <2> QED BY <2>1, SharedMoves DEF Pcs, Holds, Ends, At
<1>7. CASE FileAccess(c) \/ FileStat(c)
  <2>1. /\ At(c, "acquire") \/ At(c, "stat")
        /\ backend = "file" /\ UNCHANGED <<backend, lock, timer, ended, late, broken>>
    BY <1>7 DEF FileAccess, FileStat
  <2>2. CASE call' = Waiting(c, "poll")
    BY <2>1, <2>2, SharedMoves DEF Pcs, Holds, Ends, At
  <2>3. CASE call' # Waiting(c, "poll")
    <3>1. PICK pc \in {"stat", "create", "unlink"} :
            Goes(c, pc) /\ (pc = "unlink" => lock # None /\ lock.left = 0)
      BY <1>7, <2>3 DEF FileAccess, FileStat
    <3>2. pc = "unlink" => late \union Faulty # {}
      BY <2>1, <3>1, LiveOwner
    <3> QED BY <2>1, <3>1, <3>2, SharedMoves DEF Pcs, Holds, Ends, At
  <2> QED BY <2>2, <2>3
<1>8. CASE FileEnds(c)
  <2>1. At(c, "run") /\ Goes(c, "release") /\ backend = "file" /\ UNCHANGED <<backend, lock, timer, ended, late, broken>>
    BY <1>8 DEF FileEnds
  <2> QED BY <2>1, SharedMoves DEF Pcs, Holds, Ends, At
<1>9. CASE FilePoll(c)
  <2>1. At(c, "poll") /\ backend = "file" /\ UNCHANGED <<backend, lock, timer, ended, late, broken>>
        /\ \E pc \in {"done", "acquire"} : Goes(c, pc)
    BY <1>9 DEF FilePoll
  <2> QED BY <2>1, SharedMoves DEF Pcs, Holds, Ends, At
<1> QED BY <1>1, <1>2, <1>3, <1>4, <1>5, <1>6, <1>7, <1>8, <1>9

--------------------------------------------------------------------------------
(* The memory backend *)

\* A waiter is answered with the outcome of a call that is over.
LEMMA AnsweredFacts ==
  ASSUME IInv, NEW S \in SUBSET Call, NEW a \in Call, NEW m, m = Answered(S, a)
  PROVE  /\ m \in [Call -> Calls]
         /\ \A d \in S : m[d].pc = "done" /\ m[d].on = None /\ m[d].from = a /\ m[d].old = call[d].old
         /\ \A d \in Call \ S : m[d] = call[d]
<1>1. \A d \in Call : call[d] \in Calls
  BY DEF IInv, TypeOK
<1>2. ASSUME NEW r \in Calls
      PROVE  LET n == [r EXCEPT !.pc = "done", !.on = None, !.from = a]
             IN  n \in Calls /\ n.pc = "done" /\ n.on = None /\ n.from = a /\ n.old = r.old
  BY DEF Calls, Over
<1> HIDE DEF Calls
<1> QED BY <1>1, <1>2 DEF Answered

\* One waiter takes an answer, the lock as it was.
LEMMA TakesAnswer ==
  ASSUME IInv, NEW c \in Call, NEW a \in Call, call' = Answered({c}, a),
         backend \in {"memory", "sql"}, call[c].pc \in {"acquire", "poll"},
         UNCHANGED <<backend, lock, timer, ended, late, broken>>,
         a \notin call[c].old \/ (backend = "sql" /\ a \in Faulty)
  PROVE  IInv'
<1>1. OnlyMoves(c) /\ call'[c].pc = "done" /\ call'[c].on = None /\ call'[c].from = a /\ call'[c].old = call[c].old
  BY AnsweredFacts DEF OnlyMoves
<1>2. Faulty' = Faulty
  BY <1>1 DEF Faulty, Dead, At, OnlyMoves
<1>3. \A d \in Call : StillHolds(d)' => StillHolds(d)
  BY <1>1 DEF OnlyMoves, StillHolds, Holds
<1>4. lock # None => lock.owner \in Call /\ lock.owner # c /\ call'[lock.owner] = call[lock.owner]
  BY <1>1, LockView DEF IInv, OwnerRan, Ran, Holds, OnlyMoves
<1>5. TypeOK'
  BY <1>1, ZenonT(30) DEF IInv, TypeOK, OnlyMoves
<1>6. BackendsApart'
  <2>1. "done" \in Pcs(backend)
    BY DEF Pcs
  <2>2. \A d \in Call : call'[d].pc \in Pcs(backend)
    BY <1>1, <2>1 DEF IInv, BackendsApart, OnlyMoves
  <2> QED BY <2>2 DEF IInv, BackendsApart
<1>7. EndedOnce'
  BY <1>1 DEF IInv, EndedOnce, OnlyMoves
<1>8. OldEnded'
  BY <1>1 DEF IInv, OldEnded, At, OnlyMoves
<1>9. HoldersOwn'
  BY <1>2, <1>3 DEF IInv, HoldersOwn, Owned, Excused
<1>10. OwnerRan' /\ Expired' /\ OwnerAnswers'
  BY <1>2, <1>3, <1>4 DEF IInv, OwnerRan, Expired, OwnerAnswers, At
<1>11. HolderLives'
  BY <1>1, <1>2, <1>4 DEF IInv, HolderLives, At, OnlyMoves
<1>12. NoStrandedWaiter'
  <2>1. \A h \in Call : At(h, "run") => call'[h].pc = "run"
    BY <1>1 DEF OnlyMoves, At
  <2>2. \A d \in Call : call'[d].pc = "wait" => call[d].pc = "wait" /\ call'[d].on = call[d].on
    BY <1>1 DEF OnlyMoves
  <2>3. backend # "redis" /\ call' \in [Call -> Calls] /\ Faulty \subseteq Faulty' /\ late' = late /\ backend' = backend
    BY <1>1, <1>2 DEF OnlyMoves
  <2> QED BY <2>1, <2>2, <2>3, WaitersKept
<1>13. AnswersFresh'
  BY <1>1, <1>2 DEF IInv, AnswersFresh, OnlyMoves
<1> QED BY <1>5, <1>6, <1>7, <1>8, <1>9, <1>10, <1>11, <1>12, <1>13 DEF IInv

\* An outcome whose delayed release is still to come is nobody's past.
LEMMA TimedIsFresh ==
  ASSUME IInv, NEW a \in Call, timer[a] # None
  PROVE  /\ timer[a] \in 0..Keep /\ ended[a] # None /\ ended[a] + timer[a] = Keep /\ call[a].pc = "done"
         /\ \A c \in Call : a \notin call[c].old
<1>1. timer[a] \in 0..Keep /\ ended[a] \in 0..(Keep + 1) /\ ended[a] + timer[a] = Keep /\ ended[a] # None
      /\ call[a].pc = "done"
  BY DEF IInv, TypeOK, EndedOnce
<1>2. ~(ended[a] > Keep)
  BY <1>1, Times
<1> QED BY <1>1, <1>2 DEF IInv, OldEnded

\* In one process: the map's entry is taken or waited on.
LEMMA MemoryAcquireStep ==
  ASSUME IInv, NEW c \in Call, MemoryAcquire(c)
  PROVE  IInv'
<1>1. backend = "memory" /\ At(c, "acquire") /\ UNCHANGED <<backend, timer, ended, late, broken>>
  BY DEF MemoryAcquire
<1>2. CASE Swept = None
  BY <1>1, <1>2, Takes, LockView DEF MemoryAcquire, At
<1>3. CASE Swept # None
  <2> DEFINE o == lock.owner
  <2>1. lock' = lock /\ lock # None /\ o \in Call
    BY <1>3, LockView DEF MemoryAcquire
  <2>2. At(o, "run") \/ timer[o] # None
    BY <1>1, <2>1 DEF IInv, OwnerAnswers
  <2> HIDE DEF o
  <2>3. CASE ended[o] # None
    <3>1. call' = Answered({c}, o)
      BY <1>3, <2>3 DEF MemoryAcquire, o
    <3>2. ~At(o, "run")
      BY <2>1, <2>3 DEF IInv, EndedOnce, At
    <3>3. o \notin call[c].old
      BY <2>1, <2>2, <3>2, TimedIsFresh
    <3> QED BY <1>1, <2>1, <3>1, <3>3, TakesAnswer DEF At
  <2>4. CASE ended[o] = None
    <3>1. call' = [Waiting(c, "wait") EXCEPT ![c].on = o]
      BY <1>3, <2>4 DEF MemoryAcquire, o
    <3>2. At(o, "run")
      BY <2>1, <2>2, <2>4, TimedIsFresh
    <3>3. /\ OnlyMoves(c) /\ call'[c].pc = "wait" /\ call'[c].on = o
          /\ call'[c].from = call[c].from /\ call'[c].old = call[c].old
      <4> DEFINE left == IF call[c].left = None THEN Timeout ELSE call[c].left
      <4>1. call \in [Call -> Calls] /\ call[c] \in Calls
        BY DEF IInv, TypeOK
      <4>2. left \in 0..Timeout \union {None}
        BY <4>1, Times DEF Calls
      <4>3. call' = [call EXCEPT ![c] = [call[c] EXCEPT !.pc = "wait", !.left = left, !.on = o]]
        BY <3>1, <4>1 DEF Waiting, Calls
      <4> HIDE DEF left
      <4>4. [call[c] EXCEPT !.pc = "wait", !.left = left, !.on = o] \in Calls
        BY <2>1, <4>1, <4>2 DEF Calls, Waits
      <4> QED BY <4>1, <4>3, <4>4 DEF OnlyMoves, Calls
    <3>4. o # None
      BY <2>1, Times
    <3> QED BY <1>1, <2>1, <3>2, <3>3, <3>4, QuietMove DEF Pcs, Holds, Ends, At
  <2> QED BY <2>3, <2>4
<1> QED BY <1>2, <1>3

\* The lock goes with one that holds it, and whoever else holds it is excused.
LEMMA FreesHeld ==
  ASSUME IInv, lock' = None, UNCHANGED <<backend, late, broken>>, Faulty' = Faulty, call' \in [Call -> Calls],
         backend \in {"memory", "redis", "file"},
         NEW c \in Call, StillHolds(c), ~StillHolds(c)',
         \A d \in Call : d # c /\ StillHolds(d)' => StillHolds(d),
         \A d \in Call : call'[d].pc = "unlink" => At(d, "unlink")
  PROVE  HoldersOwn' /\ OwnerRan' /\ Expired' /\ HolderLives' /\ OwnerAnswers'
<1>1. Owned(c) \/ Excused(c)
  BY DEF IInv, HoldersOwn
<1>2. \A d \in Call : Excused(c) => Excused(d)
  BY DEF Excused
<1>3. \A d \in Call : StillHolds(d)' => StillHolds(d) /\ (Owned(d) => Excused(d))
  BY <1>1, <1>2 DEF Owned
<1> QED BY <1>3, Frees

\* In one process: fn ends and its answer goes to everyone waiting.
LEMMA MemoryEndsStep ==
  ASSUME IInv, NEW c \in Call, MemoryEnds(c)
  PROVE  IInv'
<1> DEFINE Q == {d \in Call : call[d].on = c}
           m == Answered(Q, c)
<1>1. /\ backend = "memory" /\ At(c, "run") /\ UNCHANGED <<backend, lock, late, broken>>
      /\ call' = [m EXCEPT ![c].pc = "done"]
      /\ ended' = [ended EXCEPT ![c] = 0] /\ timer' = [timer EXCEPT ![c] = Keep]
  BY DEF MemoryEnds, Ended
<1>2. /\ m \in [Call -> Calls]
      /\ \A d \in Q : m[d].pc = "done" /\ m[d].on = None /\ m[d].from = c /\ m[d].old = call[d].old
      /\ \A d \in Call \ Q : m[d] = call[d]
  <2>1. Q \in SUBSET Call
    OBVIOUS
  <2> HIDE DEF Q
  <2> QED BY <2>1, AnsweredFacts
<1>3. \A d \in Q : call[d].pc = "wait"
  BY <1>1, Times DEF IInv, TypeOK
<1>4. c \notin Q
  BY <1>1, <1>3 DEF At
<1> HIDE DEF Q, m
<1>5. /\ call' \in [Call -> Calls]
      /\ call'[c].pc = "done" /\ call'[c].on = call[c].on
      /\ call'[c].from = call[c].from /\ call'[c].old = call[c].old
      /\ \A d \in Q : call'[d].pc = "done" /\ call'[d].on = None /\ call'[d].from = c /\ call'[d].old = call[d].old
      /\ \A d \in Call \ Q : d # c => call'[d] = call[d]
  <2>1. m[c] = call[c] /\ m[c] \in Calls
    BY <1>2, <1>4
  <2>2. [m[c] EXCEPT !.pc = "done"] \in Calls
    BY <2>1 DEF Calls, Over
  <2>3. call' = [m EXCEPT ![c] = [m[c] EXCEPT !.pc = "done"]]
    BY <1>1, <1>2
  <2>4. [m[c] EXCEPT !.pc = "done"].pc = "done"
        /\ [m[c] EXCEPT !.pc = "done"].on = m[c].on
        /\ [m[c] EXCEPT !.pc = "done"].from = m[c].from
        /\ [m[c] EXCEPT !.pc = "done"].old = m[c].old
    BY <2>1 DEF Calls
  <2> HIDE DEF Calls
  <2> QED BY <1>2, <1>4, <2>1, <2>2, <2>3, <2>4
<1>6. \A d \in Call : call'[d].old = call[d].old /\ (call'[d].pc = "idle" => At(d, "idle") /\ call'[d] = call[d])
  BY <1>4, <1>5 DEF At
<1>7. /\ OldEnded' /\ \A d \in Call : c \notin call[d].old
      /\ ended' \in [Call -> 0..(Keep + 1) \union {None}]
      /\ ended'[c] = 0 /\ \A d \in Call : d # c => ended'[d] = ended[d]
  BY <1>1, <1>5, <1>6, EndsKept DEF At
<1>8. timer' \in [Call -> 0..Keep \union {None}] /\ timer'[c] = Keep /\ \A d \in Call : d # c => timer'[d] = timer[d]
  BY <1>1, Times DEF IInv, TypeOK
<1>9. Faulty' = Faulty
  BY <1>1, <1>3, <1>5 DEF Faulty, Dead, At
<1>10. \A d \in Call : StillHolds(d)' => StillHolds(d)
  BY <1>1, <1>5, <1>8 DEF StillHolds, Holds, At
<1>11. lock # None => /\ lock.owner \in Call /\ lock.owner \notin Q
                      /\ lock.owner # c => call'[lock.owner] = call[lock.owner]
  BY <1>3, <1>5, LockView DEF IInv, OwnerRan, Ran, Holds
<1>12. TypeOK'
  BY <1>1, <1>2, <1>4, <1>5, <1>7, <1>8 DEF IInv, TypeOK, At
<1>13. BackendsApart'
  BY <1>1, <1>5 DEF IInv, BackendsApart, Pcs
<1>14. EndedOnce'
  BY <1>3, <1>5, <1>7, <1>8, Times DEF IInv, EndedOnce
<1>15. HoldersOwn'
  BY <1>1, <1>9, <1>10 DEF IInv, HoldersOwn, Owned, Excused
<1>16. OwnerRan'
  BY <1>1, <1>5, <1>11 DEF IInv, OwnerRan, Ran
<1>17. Expired'
  BY <1>1, <1>10, <1>11 DEF IInv, Expired
<1>18. HolderLives'
  BY <1>1 DEF HolderLives
<1>19. OwnerAnswers'
  BY <1>1, <1>5, <1>8, <1>11, Times DEF IInv, OwnerAnswers, At
<1>20. NoStrandedWaiter'
  <2>1. \A d \in Call : call'[d].pc = "wait" => call[d].pc = "wait" /\ call'[d].on = call[d].on /\ call[d].on # c
    BY <1>5 DEF Q
  <2>2. \A h \in Call : At(h, "run") /\ h # c => call'[h].pc = "run"
    BY <1>3, <1>5 DEF At
  <2>3. backend' = backend /\ late' = late /\ Faulty \subseteq Faulty' /\ backend # "redis"
    BY <1>1, <1>9
  <2> QED BY <1>5, <2>1, <2>2, <2>3, WaitersKept
<1>21. AnswersFresh'
  BY <1>1, <1>5, <1>7, <1>9, AnswersKept
<1> QED BY <1>7, <1>12, <1>13, <1>14, <1>15, <1>16, <1>17, <1>18, <1>19, <1>20, <1>21 DEF IInv

\* Calls that stay as they are wait and answer as they did.
LEMMA CallsStay ==
  ASSUME IInv, UNCHANGED <<backend, call, ended, late, broken>>
  PROVE  BackendsApart' /\ OldEnded' /\ NoStrandedWaiter' /\ AnswersFresh' /\ Faulty' = Faulty
BY DEF IInv, BackendsApart, OldEnded, NoStrandedWaiter, AnswersFresh, At, Faulty, Dead

\* In one process: the delayed removal takes its own entry only.
LEMMA MemoryReleasesStep ==
  ASSUME IInv, NEW c \in Call, MemoryReleases(c)
  PROVE  IInv'
<1>1. /\ backend = "memory" /\ timer[c] = 0 /\ lock' = None /\ timer' = [timer EXCEPT ![c] = None]
      /\ UNCHANGED <<backend, call, ended, late, broken>>
  BY DEF MemoryReleases
<1>2. timer[c] # None /\ call[c].pc = "done" /\ timer'[c] = None /\ \A d \in Call : d # c => timer'[d] = timer[d]
  BY <1>1, Times DEF IInv, TypeOK, EndedOnce
<1>3. StillHolds(c) /\ ~StillHolds(c)' /\ \A d \in Call : d # c /\ StillHolds(d)' => StillHolds(d)
  BY <1>1, <1>2 DEF StillHolds, Holds
<1>4. call' \in [Call -> Calls]
  BY <1>1 DEF IInv, TypeOK
<1>5. TypeOK'
  BY <1>1 DEF IInv, TypeOK
<1>6. EndedOnce'
  BY <1>1, <1>2 DEF IInv, EndedOnce
<1>7. BackendsApart' /\ OldEnded' /\ NoStrandedWaiter' /\ AnswersFresh' /\ Faulty' = Faulty
  BY <1>1, CallsStay
<1>8. HoldersOwn' /\ OwnerRan' /\ Expired' /\ HolderLives' /\ OwnerAnswers'
  BY <1>1, <1>3, <1>4, <1>7, FreesHeld DEF At
<1> QED BY <1>5, <1>6, <1>7, <1>8 DEF IInv

--------------------------------------------------------------------------------
(* Redis *)

\* Redis: SET NX PX.
LEMMA RedisAcquireStep ==
  ASSUME IInv, NEW c \in Call, RedisAcquire(c)
  PROVE  IInv'
<1>1. backend = "redis" /\ At(c, "acquire") /\ UNCHANGED <<backend, timer, ended, late, broken>>
  BY DEF RedisAcquire
<1>2. CASE lock = None
  BY <1>1, <1>2, Takes DEF RedisAcquire, At
<1>3. CASE lock # None
  <2>1. Goes(c, "subscribe") /\ UNCHANGED lock
    BY <1>3 DEF RedisAcquire
  <2> QED BY <1>1, <2>1, SharedMoves DEF Pcs, Holds, Ends, At
<1> QED BY <1>2, <1>3

\* Redis: DEL after the value was read.
LEMMA RedisDelStep ==
  ASSUME IInv, NEW c \in Call, RedisDel(c)
  PROVE  IInv'
<1>1. PICK pc \in {"count", "publish"} : Goes(c, pc)
  BY DEF RedisDel, AfterRelease
<1>2. /\ backend = "redis" /\ call[c].pc = "delete" /\ lock' = None
      /\ UNCHANGED <<backend, timer, ended, late, broken>>
  BY DEF RedisDel, At
<1>3. /\ OnlyMoves(c) /\ call'[c].pc = pc
      /\ call'[c].on = call[c].on /\ call'[c].from = call[c].from /\ call'[c].old = call[c].old
  BY <1>1, GoesFacts DEF IInv, AllPcs
<1>4. Faulty' = Faulty
  BY <1>2, <1>3 DEF Faulty, Dead, At, OnlyMoves
<1>5. StillHolds(c) /\ ~StillHolds(c)' /\ \A d \in Call : d # c /\ StillHolds(d)' => StillHolds(d)
  BY <1>2, <1>3 DEF StillHolds, Holds, OnlyMoves
<1>6. HoldersOwn' /\ OwnerRan' /\ Expired' /\ HolderLives' /\ OwnerAnswers'
  <2>1. \A d \in Call : call'[d].pc = "unlink" => At(d, "unlink")
    BY <1>3 DEF At, OnlyMoves
  <2> QED BY <1>2, <1>3, <1>4, <1>5, <2>1, FreesHeld DEF OnlyMoves
<1>7. TypeOK'
  BY <1>2, <1>3 DEF IInv, TypeOK, OnlyMoves
<1>8. BackendsApart'
  BY <1>2, <1>3 DEF IInv, BackendsApart, OnlyMoves, Pcs
<1>9. EndedOnce'
  BY <1>2, <1>3 DEF IInv, EndedOnce, OnlyMoves
<1>10. OldEnded'
  BY <1>2, <1>3 DEF IInv, OldEnded, At, OnlyMoves
<1>11. NoStrandedWaiter'
  <2>1. \A d \in Call : call'[d].pc = "wait" => call[d].pc = "wait" /\ call'[d].on = call[d].on
    BY <1>3 DEF OnlyMoves
  <2>2. \A h \in Call : call[h].pc \in Ends => call'[h].pc \in Ends
    BY <1>3 DEF OnlyMoves, Ends
  <2>3. backend' = backend /\ late' = late /\ Faulty \subseteq Faulty' /\ backend # "memory" /\ call' \in [Call -> Calls]
    BY <1>2, <1>3, <1>4 DEF OnlyMoves
  <2> QED BY <2>1, <2>2, <2>3, WaitersKept
<1>12. AnswersFresh'
  BY <1>2, <1>3, <1>4 DEF IInv, AnswersFresh, OnlyMoves
<1> QED BY <1>6, <1>7, <1>8, <1>9, <1>10, <1>11, <1>12 DEF IInv

\* One call of a shared backend gives its outcome out: to nobody, to the lock
\* or to the waiters W who hear of it.
LEMMA GivesOut ==
  ASSUME IInv, NEW c \in Call, backend # "memory",
         UNCHANGED <<backend, late, broken>>, lock' \in Locks \union {None},
         call' \in [Call -> Calls], ended' = [ended EXCEPT ![c] = 0],
         call[c].pc \in Ends, call'[c].pc = "done",
         timer' = timer \/ timer' = [timer EXCEPT ![c] = Keep],
         \A d \in Call : d # c =>
           \/ call'[d] = call[d]
           \/ call'[d].pc = "done" /\ call[d].pc = "wait"
           \/ call'[d].pc = "check" /\ call[d].pc = "check",
         \A d \in Call : /\ call'[d].old = call[d].old
                         /\ call'[d].from \in {call[d].from, c},
         backend = "redis" =>
           (\A h \in Call : call[h].pc \in Ends => call'[h].pc \in Ends) \/ (\A d \in Call : call'[d].pc # "wait")
  PROVE  /\ TypeOK' /\ BackendsApart' /\ EndedOnce' /\ OldEnded' /\ NoStrandedWaiter' /\ AnswersFresh'
         /\ Faulty' = Faulty
         /\ ~StillHolds(c)' /\ \A d \in Call : d # c => (StillHolds(d)' <=> StillHolds(d))
<1>1. \A d \in Call : call'[d].pc = "idle" => At(d, "idle") /\ call'[d] = call[d]
  BY DEF At
<1>2. call[c].pc \notin {"done", "dead"}
  BY DEF Ends, Holds
<1>3. /\ OldEnded' /\ \A d \in Call : c \notin call[d].old
      /\ ended' \in [Call -> 0..(Keep + 1) \union {None}]
      /\ ended'[c] = 0 /\ \A d \in Call : d # c => ended'[d] = ended[d]
  BY <1>1, <1>2, EndsKept
<1>4. /\ timer' \in [Call -> 0..Keep \union {None}] /\ timer'[c] \in {None, Keep}
      /\ \A d \in Call : d # c => timer'[d] = timer[d]
  BY <1>2, Times DEF IInv, TypeOK, EndedOnce
<1>5. TypeOK'
  BY <1>3, <1>4 DEF IInv, TypeOK
<1>6. BackendsApart'
  BY DEF IInv, BackendsApart, Pcs, Backends
<1>7. EndedOnce'
  BY <1>3, <1>4, Times DEF IInv, EndedOnce
<1>8. Faulty' = Faulty
  BY <1>2 DEF Faulty, Dead, At
<1>9. ~StillHolds(c)' /\ \A d \in Call : d # c => (StillHolds(d)' <=> StillHolds(d))
  BY <1>4 DEF StillHolds, Holds
<1>10. NoStrandedWaiter'
  <2>1. \A d \in Call : call'[d].pc = "wait" => call[d].pc = "wait" /\ call'[d].on = call[d].on
    OBVIOUS
  <2> QED BY <1>8, <2>1, WaitersKept
<1>11. AnswersFresh'
  BY <1>3, <1>8, AnswersKept
<1> QED BY <1>3, <1>5, <1>6, <1>7, <1>8, <1>9, <1>10, <1>11

\* A Redis call past its release gives its outcome out.
LEMMA RedisGivesOut ==
  ASSUME IInv, NEW c \in Call, backend = "redis", call[c].pc \in {"count", "publish"},
         UNCHANGED <<backend, lock, timer, late, broken>>,
         call' \in [Call -> Calls], ended' = [ended EXCEPT ![c] = 0], call'[c].pc = "done",
         \A d \in Call : d # c =>
           \/ call'[d] = call[d] /\ call[d].pc # "wait"
           \/ call'[d].pc = "done" /\ call[d].pc = "wait"
           \/ call'[d].pc = "check" /\ call[d].pc = "check",
         \A d \in Call : /\ call'[d].old = call[d].old
                         /\ call'[d].from \in {call[d].from, c}
  PROVE  IInv'
<1>1. lock \in Locks \union {None}
  BY DEF IInv, TypeOK
<1>2. \A d \in Call : call'[d].pc # "wait"
  OBVIOUS
<1>3. /\ TypeOK' /\ BackendsApart' /\ EndedOnce' /\ OldEnded' /\ NoStrandedWaiter' /\ AnswersFresh'
      /\ Faulty' = Faulty
      /\ ~StillHolds(c)' /\ \A d \in Call : d # c => (StillHolds(d)' <=> StillHolds(d))
  BY <1>1, <1>2, GivesOut DEF Ends
<1>4. lock # None => /\ lock.owner \in Call
                     /\ lock.owner # c => call'[lock.owner] = call[lock.owner]
  BY LockView DEF IInv, OwnerRan, Ran, Holds
<1>5. HoldersOwn'
  BY <1>3 DEF IInv, HoldersOwn, Owned, Excused
<1>6. OwnerRan' /\ Expired'
  BY <1>3, <1>4 DEF IInv, OwnerRan, Ran, Expired
<1>7. HolderLives'
  BY <1>3, <1>4 DEF IInv, HolderLives, Holds, At
<1>8. OwnerAnswers'
  BY DEF OwnerAnswers
<1> QED BY <1>3, <1>5, <1>6, <1>7, <1>8 DEF IInv

\* Redis: the holder counts the subscribers.
LEMMA RedisCountStep ==
  ASSUME IInv, NEW c \in Call, RedisCount(c)
  PROVE  IInv'
<1>1. backend = "redis" /\ call[c].pc = "count" /\ UNCHANGED <<backend, lock, timer, late, broken>>
  BY DEF RedisCount, At
<1>2. CASE Subscribed = {}
  <2>1. Goes(c, "done") /\ ended' = [ended EXCEPT ![c] = 0]
    BY <1>2 DEF RedisCount, Ended
  <2>2. /\ OnlyMoves(c) /\ call'[c].pc = "done"
        /\ call'[c].on = call[c].on /\ call'[c].from = call[c].from /\ call'[c].old = call[c].old
    BY <2>1, GoesFacts DEF IInv, AllPcs, Over
  <2>3. \A d \in Call : call[d].pc # "wait"
    BY <1>2 DEF Subscribed
  <2>4. \A d \in Call : call'[d].old = call[d].old /\ call'[d].from = call[d].from
    BY <2>2 DEF OnlyMoves
  <2> QED BY <1>1, <2>1, <2>2, <2>3, <2>4, RedisGivesOut DEF OnlyMoves
<1>3. CASE Subscribed # {}
  <2>1. Goes(c, "publish") /\ UNCHANGED ended
    BY <1>3 DEF RedisCount
  <2> QED BY <1>1, <2>1, SharedMoves DEF Pcs, Holds, Ends
<1> QED BY <1>2, <1>3

\* Redis: the answer reaches those subscribed by then.
LEMMA RedisPublishStep ==
  ASSUME IInv, NEW c \in Call, RedisPublish(c)
  PROVE  IInv'
<1>1. /\ backend = "redis" /\ call[c].pc = "publish" /\ UNCHANGED <<backend, lock, timer, late, broken>>
      /\ ended' = [ended EXCEPT ![c] = 0]
  BY DEF RedisPublish, At, Ended
<1>2. call' = [d \in Call |->
         IF d = c \/ At(d, "wait") THEN [call[d] EXCEPT !.pc = "done", !.from = IF d = c THEN @ ELSE c]
         ELSE IF At(d, "check") THEN [call[d] EXCEPT !.from = c] ELSE call[d]]
  BY DEF RedisPublish
<1> DEFINE Out(r, f) == [r EXCEPT !.pc = "done", !.from = f]
           Heard(r, f) == [r EXCEPT !.from = f]
<1>3. ASSUME NEW r \in Calls, NEW f \in Call \union {None}
      PROVE  /\ Out(r, f) \in Calls /\ Out(r, f).pc = "done" /\ Out(r, f).from = f /\ Out(r, f).old = r.old
             /\ Heard(r, f) \in Calls /\ Heard(r, f).pc = r.pc /\ Heard(r, f).from = f /\ Heard(r, f).old = r.old
  BY DEF Calls, Over
<1>4. \A d \in Call : call[d] \in Calls /\ call[d].from \in Call \union {None}
  BY DEF IInv, TypeOK, Calls
<1>5. ASSUME NEW d \in Call
      PROVE  /\ call'[d] \in Calls /\ call'[d].old = call[d].old /\ call'[d].from \in {call[d].from, c}
             /\ d = c => call'[d].pc = "done"
             /\ d # c => \/ call'[d] = call[d] /\ call[d].pc # "wait"
                         \/ call'[d].pc = "done" /\ call[d].pc = "wait"
                         \/ call'[d].pc = "check" /\ call[d].pc = "check"
  <2>1. CASE d = c
    <3>1. call'[d] = Out(call[d], call[d].from)
      BY <1>2, <2>1
    <3> HIDE DEF Out, Heard
    <3> QED BY <1>3, <1>4, <2>1, <3>1
  <2>2. CASE d # c /\ At(d, "wait")
    <3>1. call'[d] = Out(call[d], c)
      BY <1>2, <2>2
    <3> HIDE DEF Out, Heard
    <3>2. /\ Out(call[d], c) \in Calls /\ Out(call[d], c).from = c /\ Out(call[d], c).old = call[d].old
          /\ Out(call[d], c).pc = "done"
      <4>1. call[d] \in Calls /\ c \in Call \union {None}
        BY <1>4
      <4> HIDE DEF Calls
      <4> QED BY <1>3, <4>1, Zenon
    <3> QED BY <3>1, <3>2, <2>2 DEF At
  <2>3. CASE d # c /\ At(d, "check")
    <3>1. call'[d] = Heard(call[d], c)
      BY <1>2, <2>3 DEF At
    <3> HIDE DEF Out, Heard
    <3>2. /\ Heard(call[d], c) \in Calls /\ Heard(call[d], c).from = c /\ Heard(call[d], c).old = call[d].old
          /\ Heard(call[d], c).pc = call[d].pc
      <4>1. call[d] \in Calls /\ c \in Call \union {None}
        BY <1>4
      <4> HIDE DEF Calls
      <4> QED BY <1>3, <4>1, Zenon
    <3> QED BY <3>1, <3>2, <2>3 DEF At
  <2>4. CASE d # c /\ ~At(d, "wait") /\ ~At(d, "check")
    BY <1>2, <1>4, <2>4 DEF At
  <2> QED BY <2>1, <2>2, <2>3, <2>4
<1>6. call' \in [Call -> Calls]
  <2> HIDE DEF Calls
  <2> QED BY <1>2, <1>5
<1> QED BY <1>1, <1>5, <1>6, RedisGivesOut

--------------------------------------------------------------------------------
(* The table *)

\* Table: the insert, after the expired row is swept.
LEMMA SqlAcquireStep ==
  ASSUME IInv, NEW c \in Call, SqlAcquire(c)
  PROVE  IInv'
<1>1. backend = "sql" /\ At(c, "acquire") /\ UNCHANGED <<backend, timer, ended, late, broken>>
  BY DEF SqlAcquire
<1>2. CASE Swept = None
  BY <1>1, <1>2, Takes, LockView DEF SqlAcquire, At
<1>3. CASE Swept # None
  <2>1. lock' = lock /\ call' = Waiting(c, "poll")
    BY <1>3, LockView DEF SqlAcquire
  <2> QED BY <1>1, <2>1, SharedMoves DEF Pcs, Holds, Ends, At
<1> QED BY <1>2, <1>3

\* The row's owner may be another by now, and then the row stays as it is.
LEMMA SqlStoreStep ==
  ASSUME IInv, NEW c \in Call, SqlStore(c)
  PROVE  IInv'
<1>1. /\ backend = "sql" /\ call[c].pc = "store" /\ UNCHANGED <<backend, late, broken>>
      /\ lock' = IF Owned(c) THEN [lock EXCEPT !.answered = TRUE] ELSE lock
      /\ timer' = [timer EXCEPT ![c] = Keep] /\ ended' = [ended EXCEPT ![c] = 0]
      /\ Goes(c, "done")
  BY DEF SqlStore, At, Ended
<1>2. /\ OnlyMoves(c) /\ call'[c].pc = "done"
      /\ call'[c].on = call[c].on /\ call'[c].from = call[c].from /\ call'[c].old = call[c].old
  BY <1>1, GoesFacts DEF IInv, AllPcs, Over
<1>3. /\ lock' \in Locks \union {None}
      /\ lock' = None <=> lock = None
      /\ lock # None => /\ lock'.owner = lock.owner /\ lock'.left = lock.left
                        /\ lock'.owner # c => lock'.answered = lock.answered
  BY <1>1, NoneAssumption DEF IInv, TypeOK, Locks, Owned
<1>4. \A d \in Call : call'[d].old = call[d].old /\ call'[d].from = call[d].from
  BY <1>2 DEF OnlyMoves
<1>5. /\ TypeOK' /\ BackendsApart' /\ EndedOnce' /\ OldEnded' /\ NoStrandedWaiter' /\ AnswersFresh'
      /\ Faulty' = Faulty
      /\ ~StillHolds(c)' /\ \A d \in Call : d # c => (StillHolds(d)' <=> StillHolds(d))
  BY <1>1, <1>2, <1>3, <1>4, GivesOut DEF OnlyMoves, Ends, Holds
<1>6. HoldersOwn'
  BY <1>1, <1>3, <1>5 DEF IInv, HoldersOwn, Owned, Excused
<1>7. lock # None => lock.owner \in Call
  BY LockView
<1>8. OwnerRan' /\ Expired'
  BY <1>1, <1>2, <1>3, <1>5, <1>7 DEF IInv, OwnerRan, Ran, Expired, OnlyMoves
<1>9. HolderLives'
  BY <1>1 DEF HolderLives
<1>10. OwnerAnswers'
  <2>1. timer'[c] # None /\ \A d \in Call : d # c => timer'[d] = timer[d]
    BY <1>1, Times DEF IInv, TypeOK
  <2> SUFFICES ASSUME lock' # None, lock'.answered, lock'.owner # c
               PROVE  lock.owner \in Faulty \/ timer[lock.owner] # None
    BY <1>1, <1>3, <1>5, <1>7, <2>1 DEF OwnerAnswers
  <2>2. lock # None /\ lock.answered = lock'.answered
    BY <1>3
  <2> QED BY <1>1, <2>2 DEF IInv, OwnerAnswers
<1> QED BY <1>5, <1>6, <1>8, <1>9, <1>10 DEF IInv

\* Table: the delayed delete takes the owner's row only.
LEMMA SqlReleasesStep ==
  ASSUME IInv, NEW c \in Call, SqlReleases(c)
  PROVE  IInv'
<1>1. /\ backend = "sql" /\ timer[c] = 0 /\ timer' = [timer EXCEPT ![c] = None]
      /\ lock' = IF Owned(c) THEN None ELSE lock
      /\ UNCHANGED <<backend, call, ended, late, broken>>
  BY DEF SqlReleases, SqlDeletes
<1>2. timer[c] # None /\ call[c].pc = "done" /\ \A d \in Call : d # c => timer'[d] = timer[d]
  BY <1>1, Times DEF IInv, TypeOK, EndedOnce
<1>3. \A d \in Call : (StillHolds(d)' <=> StillHolds(d)) /\ ~StillHolds(c)
  BY <1>1, <1>2 DEF StillHolds, Holds
<1>4. TypeOK'
  BY <1>1 DEF IInv, TypeOK
<1>5. EndedOnce'
  BY <1>1, <1>2 DEF IInv, EndedOnce, TypeOK
<1>6. BackendsApart' /\ OldEnded' /\ NoStrandedWaiter' /\ AnswersFresh' /\ Faulty' = Faulty
  BY <1>1, CallsStay
<1>7. HoldersOwn' /\ OwnerRan' /\ Expired' /\ HolderLives' /\ OwnerAnswers'
  <2>1. CASE Owned(c)
    <3>1. \A d \in Call : StillHolds(d)' => StillHolds(d) /\ (Owned(d) => Excused(d))
      BY <1>3, <2>1 DEF Owned
    <3>2. call' \in [Call -> Calls] /\ \A d \in Call : call'[d].pc = "unlink" => At(d, "unlink")
      BY <1>1 DEF IInv, TypeOK, At
    <3> QED BY <1>1, <1>6, <2>1, <3>1, <3>2, Frees
  <2>2. CASE ~Owned(c)
    <3>1. lock' = lock /\ (lock # None => lock.owner \in Call /\ timer'[lock.owner] = timer[lock.owner])
      BY <1>1, <1>2, <2>2, LockView DEF Owned
    <3> QED BY <1>1, <1>3, <1>6, <3>1
            DEF IInv, HoldersOwn, OwnerRan, Expired, HolderLives, OwnerAnswers, Owned, Excused, At
  <2> QED BY <2>1, <2>2
<1> QED BY <1>4, <1>5, <1>6, <1>7 DEF IInv

\* Table: a waiter reads the row.
LEMMA SqlPollStep ==
  ASSUME IInv, NEW c \in Call, SqlPoll(c)
  PROVE  IInv'
<1> DEFINE o == lock.owner
<1>1. /\ backend = "sql" /\ call[c].pc = "poll" /\ lock # None /\ lock.answered
      /\ call' = Answered({c}, o) /\ UNCHANGED <<backend, lock, timer, ended, late, broken>>
  BY DEF SqlPoll, At
<1>2. o \in Call /\ (o \in Faulty \/ timer[o] # None)
  BY <1>1, LockView DEF IInv, OwnerAnswers
<1>3. o \in Faulty \/ o \notin call[c].old
  BY <1>2, TimedIsFresh DEF Faulty, Dead
<1> QED BY <1>1, <1>2, <1>3, TakesAnswer

--------------------------------------------------------------------------------
(* The file *)

\* File: a stale file is removed.
LEMMA FileUnlinkStep ==
  ASSUME IInv, NEW c \in Call, FileUnlink(c)
  PROVE  IInv'
<1>1. /\ backend = "file" /\ call[c].pc = "unlink" /\ lock' = None /\ Goes(c, "create")
      /\ UNCHANGED <<backend, timer, ended, late, broken>>
  BY DEF FileUnlink, At
<1>2. /\ OnlyMoves(c) /\ call'[c].pc = "create"
      /\ call'[c].on = call[c].on /\ call'[c].from = call[c].from /\ call'[c].old = call[c].old
  BY <1>1, GoesFacts DEF IInv, AllPcs
<1>3. Faulty' = Faulty
  BY <1>1, <1>2 DEF Faulty, Dead, At, OnlyMoves
<1>4. late \union Faulty # {}
  BY <1>1 DEF IInv, HolderLives, At
<1>5. HoldersOwn' /\ OwnerRan' /\ Expired' /\ HolderLives' /\ OwnerAnswers'
  <2>1. \A d \in Call : StillHolds(d)' => StillHolds(d) /\ (Owned(d) => Excused(d))
    BY <1>1, <1>2, <1>4 DEF StillHolds, Holds, OnlyMoves, Excused
  <2>2. \A d \in Call : call'[d].pc = "unlink" => At(d, "unlink")
    BY <1>2 DEF OnlyMoves, At
  <2> QED BY <1>1, <1>2, <1>3, <2>1, <2>2, Frees DEF OnlyMoves
<1>6. TypeOK'
  BY <1>1, <1>2 DEF IInv, TypeOK, OnlyMoves
<1>7. BackendsApart'
  BY <1>1, <1>2 DEF IInv, BackendsApart, OnlyMoves, Pcs
<1>8. EndedOnce'
  BY <1>1, <1>2 DEF IInv, EndedOnce, OnlyMoves
<1>9. OldEnded'
  BY <1>1, <1>2 DEF IInv, OldEnded, At, OnlyMoves
<1>10. NoStrandedWaiter'
  <2>1. \A d \in Call : call'[d].pc = "wait" => call[d].pc = "wait" /\ call'[d].on = call[d].on
    BY <1>2 DEF OnlyMoves
  <2>2. /\ backend' = backend /\ late' = late /\ Faulty \subseteq Faulty' /\ backend \notin {"memory", "redis"}
        /\ call' \in [Call -> Calls]
    BY <1>1, <1>2, <1>3 DEF OnlyMoves
  <2> QED BY <2>1, <2>2, WaitersKept
<1>11. AnswersFresh'
  BY <1>1, <1>2, <1>3 DEF IInv, AnswersFresh, OnlyMoves
<1> QED BY <1>5, <1>6, <1>7, <1>8, <1>9, <1>10, <1>11 DEF IInv

\* File: exclusive creation.
LEMMA FileCreateStep ==
  ASSUME IInv, NEW c \in Call, FileCreate(c)
  PROVE  IInv'
<1>1. backend = "file" /\ At(c, "create") /\ UNCHANGED <<backend, timer, ended, late, broken>>
  BY DEF FileCreate
<1>2. CASE lock = None
  BY <1>1, <1>2, Takes DEF FileCreate, At
<1>3. CASE lock # None
  <2>1. lock' = lock /\ call' = Waiting(c, "poll")
    BY <1>3 DEF FileCreate
  <2> QED BY <1>1, <2>1, SharedMoves DEF Pcs, Holds, Ends, At
<1> QED BY <1>2, <1>3

\* File: the holder removes the file.
LEMMA FileReleaseStep ==
  ASSUME IInv, NEW c \in Call, FileRelease(c)
  PROVE  IInv'
<1>1. /\ backend = "file" /\ call[c].pc = "release" /\ lock' = None /\ Goes(c, "done")
      /\ UNCHANGED <<backend, timer, ended, late, broken>>
  BY DEF FileRelease, At
<1>2. /\ OnlyMoves(c) /\ call'[c].pc = "done"
      /\ call'[c].on = call[c].on /\ call'[c].from = call[c].from /\ call'[c].old = call[c].old
  BY <1>1, GoesFacts DEF IInv, AllPcs, Over
<1>3. Faulty' = Faulty
  BY <1>1, <1>2 DEF Faulty, Dead, At, OnlyMoves
<1>4. StillHolds(c) /\ ~StillHolds(c)' /\ \A d \in Call : d # c /\ StillHolds(d)' => StillHolds(d)
  BY <1>1, <1>2 DEF StillHolds, Holds, OnlyMoves
<1>5. HoldersOwn' /\ OwnerRan' /\ Expired' /\ HolderLives' /\ OwnerAnswers'
  <2>1. \A d \in Call : call'[d].pc = "unlink" => At(d, "unlink")
    BY <1>2 DEF OnlyMoves, At
  <2> QED BY <1>1, <1>2, <1>3, <1>4, <2>1, FreesHeld DEF OnlyMoves
<1>6. TypeOK'
  BY <1>1, <1>2 DEF IInv, TypeOK, OnlyMoves
<1>7. BackendsApart'
  BY <1>1, <1>2 DEF IInv, BackendsApart, OnlyMoves, Pcs
<1>8. EndedOnce'
  BY <1>1, <1>2 DEF IInv, EndedOnce, OnlyMoves
<1>9. OldEnded'
  BY <1>1, <1>2 DEF IInv, OldEnded, At, OnlyMoves
<1>10. NoStrandedWaiter'
  <2>1. \A d \in Call : call'[d].pc = "wait" => call[d].pc = "wait" /\ call'[d].on = call[d].on
    BY <1>2 DEF OnlyMoves
  <2>2. /\ backend' = backend /\ late' = late /\ Faulty \subseteq Faulty' /\ backend \notin {"memory", "redis"}
        /\ call' \in [Call -> Calls]
    BY <1>1, <1>2, <1>3 DEF OnlyMoves
  <2> QED BY <2>1, <2>2, WaitersKept
<1>11. AnswersFresh'
  BY <1>1, <1>2, <1>3 DEF IInv, AnswersFresh, OnlyMoves
<1> QED BY <1>5, <1>6, <1>7, <1>8, <1>9, <1>10, <1>11 DEF IInv

--------------------------------------------------------------------------------
(* Deaths, failed commands and time *)

\* A process ends with its calls; what it left behind stays.
LEMMA DiesStep ==
  ASSUME IInv, NEW c \in Call, Dies(c)
  PROVE  IInv'
<1>1. /\ backend # "memory" /\ ~At(c, "idle") /\ Goes(c, "dead") /\ timer' = [timer EXCEPT ![c] = None]
      /\ UNCHANGED <<backend, lock, ended, late, broken>>
  BY DEF Dies
<1>2. /\ OnlyMoves(c) /\ call'[c].pc = "dead"
      /\ call'[c].on = call[c].on /\ call'[c].from = call[c].from /\ call'[c].old = call[c].old
  BY <1>1, GoesFacts DEF IInv, AllPcs, Over
<1>3. timer'[c] = None /\ \A d \in Call : d # c => timer'[d] = timer[d]
  BY <1>1 DEF IInv, TypeOK
<1>4. Faulty \subseteq Faulty' /\ c \in Faulty'
  BY <1>1, <1>2 DEF Faulty, Dead, At, OnlyMoves
<1>5. \A d \in Call : (Excused(d) => Excused(d)')
  <2>1. backend \in Backends
    BY DEF IInv, BackendsApart
  <2> QED BY <1>1, <1>4, <2>1 DEF Excused, Backends
<1>6. \A d \in Call : StillHolds(d)' => StillHolds(d)
  BY <1>1, <1>2, <1>3 DEF StillHolds, Holds, OnlyMoves
<1>7. lock # None => lock.owner \in Call
  BY LockView
<1>8. TypeOK'
  BY <1>1, <1>2 DEF IInv, TypeOK, OnlyMoves
<1>9. BackendsApart'
  BY <1>1, <1>2 DEF IInv, BackendsApart, OnlyMoves, Pcs, Backends
<1>10. EndedOnce'
  BY <1>1, <1>2, <1>3 DEF IInv, EndedOnce, OnlyMoves
<1>11. OldEnded'
  BY <1>1, <1>2 DEF IInv, OldEnded, At, OnlyMoves
<1>12. HoldersOwn'
  BY <1>1, <1>5, <1>6 DEF IInv, HoldersOwn, Owned
<1>13. OwnerRan' /\ Expired'
  BY <1>1, <1>2, <1>6, <1>7 DEF IInv, OwnerRan, Ran, Expired, OnlyMoves
<1>14. HolderLives'
  BY <1>4 DEF HolderLives
<1>15. OwnerAnswers'
  BY <1>1, <1>2, <1>3, <1>4, <1>7 DEF IInv, OwnerAnswers, At, OnlyMoves
<1>16. NoStrandedWaiter'
  <2>1. \A d \in Call : call'[d].pc = "wait" => call[d].pc = "wait" /\ call'[d].on = call[d].on
    BY <1>2 DEF OnlyMoves
  <2>2. backend' = backend /\ late' = late /\ late \union Faulty' # {} /\ call' \in [Call -> Calls]
    BY <1>1, <1>2, <1>4 DEF OnlyMoves
  <2> QED BY <1>1, <1>4, <2>1, <2>2, WaitersKept
<1>17. AnswersFresh'
  BY <1>1, <1>2, <1>4 DEF IInv, AnswersFresh, OnlyMoves
<1> QED BY <1>8, <1>9, <1>10, <1>11, <1>12, <1>13, <1>14, <1>15, <1>16, <1>17 DEF IInv

\* Calls are where they were, or the failing one is over: what holds of the lock
\* holds on, and the fault excuses the rest.
LEMMA FaultKept ==
  ASSUME IInv, NEW c \in Call, UNCHANGED <<backend, lock, late>>, broken' = broken \union {c},
         backend # "memory", OnlyMoves(c),
         call'[c].from = call[c].from, call'[c].old = call[c].old,
         \A d \in Call : timer[d] # None /\ d # c => timer'[d] # None,
         \A d \in Call : StillHolds(d)' => StillHolds(d),
         call'[c].pc # "wait", call[c].pc # "dead",
         lock # None /\ lock.owner = c => call'[c].pc \in Ran
  PROVE  /\ HoldersOwn' /\ OwnerRan' /\ Expired' /\ HolderLives' /\ OwnerAnswers'
         /\ NoStrandedWaiter' /\ AnswersFresh' /\ broken' \subseteq Call
<1>1. Faulty \subseteq Faulty' /\ c \in Faulty'
  BY DEF Faulty, Dead, At, OnlyMoves
<1>2. \A d \in Call : Excused(d) => Excused(d)'
  <2>1. backend \in Backends
    BY DEF IInv, BackendsApart
  <2> QED BY <1>1, <2>1 DEF Excused, Backends
<1>3. lock # None => lock.owner \in Call
  BY LockView
<1>4. HoldersOwn'
  BY <1>2 DEF IInv, HoldersOwn, Owned
<1>5. OwnerRan' /\ Expired'
  BY <1>3 DEF IInv, OwnerRan, Expired, OnlyMoves
<1>6. HolderLives'
  BY <1>1 DEF HolderLives
<1>7. OwnerAnswers'
  BY <1>1, <1>3 DEF IInv, OwnerAnswers
<1>8. NoStrandedWaiter'
  <2>1. \A d \in Call : call'[d].pc = "wait" => call[d].pc = "wait" /\ call'[d].on = call[d].on
    BY DEF OnlyMoves
  <2>2. backend' = backend /\ late' = late /\ late \union Faulty' # {} /\ call' \in [Call -> Calls]
    BY <1>1 DEF OnlyMoves
  <2> QED BY <1>1, <2>1, <2>2, WaitersKept
<1>9. AnswersFresh'
  BY <1>1 DEF IInv, AnswersFresh, OnlyMoves
<1>10. broken' \subseteq Call
  BY DEF IInv, TypeOK
<1> QED BY <1>4, <1>5, <1>6, <1>7, <1>8, <1>9, <1>10

\* A failed command that moves its caller and nothing else.
LEMMA FaultMoves ==
  ASSUME IInv, NEW c \in Call, NEW pc, Goes(c, pc) \/ (call' = Waiting(c, pc)),
         UNCHANGED <<backend, lock, timer, ended, late>>, broken' = broken \union {c},
         backend # "memory", pc \in Pcs(backend),
         \/ pc \in {"failed", "done", "publish"}
         \/ pc \in {"create", "poll"} /\ call[c].pc \notin Ran,
         call[c].pc \notin {"idle", "done", "dead"}
  PROVE  IInv'
<1>1. pc \in AllPcs
  BY DEF AllPcs, Over, Waits
<1>2. /\ OnlyMoves(c) /\ call'[c].pc = pc
      /\ call'[c].on = call[c].on /\ call'[c].from = call[c].from /\ call'[c].old = call[c].old
  BY <1>1, GoesFacts, WaitingFacts DEF IInv
<1>3. \A d \in Call : StillHolds(d)' => StillHolds(d)
  BY <1>2 DEF StillHolds, Holds, OnlyMoves
<1>4. lock # None /\ lock.owner = c => call'[c].pc \in Ran
  BY <1>2 DEF IInv, OwnerRan, Ran
<1>5. /\ HoldersOwn' /\ OwnerRan' /\ Expired' /\ HolderLives' /\ OwnerAnswers'
      /\ NoStrandedWaiter' /\ AnswersFresh' /\ broken' \subseteq Call
  BY <1>2, <1>3, <1>4, FaultKept
<1>6. TypeOK'
  BY <1>2, <1>5 DEF IInv, TypeOK, OnlyMoves
<1>7. BackendsApart'
  BY <1>2 DEF IInv, BackendsApart, OnlyMoves
<1>8. EndedOnce' /\ OldEnded'
  <2>1. EndedOnce'
    BY <1>2 DEF IInv, EndedOnce, OnlyMoves
  <2>2. OldEnded'
    BY <1>2 DEF IInv, OldEnded, At, OnlyMoves
  <2> QED BY <2>1, <2>2
<1> QED BY <1>5, <1>6, <1>7, <1>8 DEF IInv

\* A command of Redis or of the file system fails.
LEMMA FailsMoving ==
  ASSUME IInv, NEW c \in Call, RedisFails(c) \/ FileFails(c)
  PROVE  IInv'
<1>1. CASE RedisFails(c)
  <2>1. /\ backend = "redis" /\ UNCHANGED <<backend, lock, timer, ended, late>> /\ broken' = broken \union {c}
        /\ call[c].pc \notin {"idle", "done", "dead"}
    BY <1>1 DEF RedisFails, Breaks, At
  <2>2. PICK pc \in {"failed", "done", "publish"} : Goes(c, pc)
    BY <1>1 DEF RedisFails
  <2> QED BY <2>1, <2>2, FaultMoves DEF Pcs
<1>2. CASE FileFails(c)
  <2>1. /\ backend = "file" /\ UNCHANGED <<backend, lock, timer, ended, late>> /\ broken' = broken \union {c}
        /\ call[c].pc \notin {"idle", "done", "dead"}
    BY <1>2 DEF FileFails, Breaks
  <2>2. PICK pc \in {"create", "poll", "done"} :
          /\ Goes(c, pc) \/ (call' = Waiting(c, pc))
          /\ pc \in {"create", "poll"} => call[c].pc \notin Ran
    BY <1>2 DEF FileFails, Ran, Holds
  <2> QED BY <2>1, <2>2, FaultMoves DEF Pcs
<1> QED BY <1>1, <1>2

\* A statement on the table fails.
LEMMA SqlFailsStep ==
  ASSUME IInv, NEW c \in Call, SqlFails(c)
  PROVE  IInv'
<1>1. backend = "sql" /\ UNCHANGED <<backend, lock, late>> /\ broken' = broken \union {c}
  BY DEF SqlFails, Breaks
<1>2. CASE call[c].pc \in {"acquire", "poll"} /\ Goes(c, "failed") /\ UNCHANGED <<timer, ended>>
  BY <1>1, <1>2, FaultMoves DEF Pcs
<1>3. CASE At(c, "store") /\ Goes(c, "done") /\ Ended(c) /\ timer' = [timer EXCEPT ![c] = Keep]
  <2>1. /\ OnlyMoves(c) /\ call'[c].pc = "done"
        /\ call'[c].on = call[c].on /\ call'[c].from = call[c].from /\ call'[c].old = call[c].old
    BY <1>3, GoesFacts DEF IInv, AllPcs, Over
  <2>2. /\ timer' \in [Call -> 0..Keep \union {None}] /\ timer'[c] = Keep
        /\ \A d \in Call : d # c => timer'[d] = timer[d]
    BY <1>3, Times DEF IInv, TypeOK
  <2>3. \A d \in Call : call'[d].old = call[d].old /\ (call'[d].pc = "idle" => At(d, "idle") /\ call'[d] = call[d])
    BY <2>1 DEF OnlyMoves, At
  <2>4. /\ OldEnded' /\ ended' \in [Call -> 0..(Keep + 1) \union {None}]
        /\ ended'[c] = 0 /\ \A d \in Call : d # c => ended'[d] = ended[d]
    BY <1>3, <2>1, <2>3, EndsKept DEF OnlyMoves, At, Ended
  <2>5. \A d \in Call : StillHolds(d)' => StillHolds(d)
    BY <1>1, <2>1 DEF StillHolds, Holds, OnlyMoves
  <2>6. /\ HoldersOwn' /\ OwnerRan' /\ Expired' /\ HolderLives' /\ OwnerAnswers'
        /\ NoStrandedWaiter' /\ AnswersFresh' /\ broken' \subseteq Call
    BY <1>1, <1>3, <2>1, <2>2, <2>5, FaultKept DEF Ran, At
  <2>7. TypeOK'
    BY <1>1, <2>1, <2>2, <2>4, <2>6 DEF IInv, TypeOK, OnlyMoves
  <2>8. BackendsApart'
    BY <1>1, <2>1 DEF IInv, BackendsApart, OnlyMoves, Pcs
  <2>9. EndedOnce'
    BY <2>1, <2>2, <2>4, Times DEF IInv, EndedOnce, OnlyMoves
  <2> QED BY <2>4, <2>6, <2>7, <2>8, <2>9 DEF IInv
<1>4. CASE timer[c] = 0 /\ timer' = [timer EXCEPT ![c] = None] /\ UNCHANGED <<call, ended>>
  <2>1. timer[c] # None /\ call[c].pc = "done" /\ \A d \in Call : d # c => timer'[d] = timer[d]
    BY <1>4, Times DEF IInv, TypeOK, EndedOnce
  <2>2. OnlyMoves(c) /\ \A d \in Call : StillHolds(d)' => StillHolds(d)
    BY <1>1, <1>4 DEF IInv, TypeOK, OnlyMoves, StillHolds
  <2>3. /\ HoldersOwn' /\ OwnerRan' /\ Expired' /\ HolderLives' /\ OwnerAnswers'
        /\ NoStrandedWaiter' /\ AnswersFresh' /\ broken' \subseteq Call
    BY <1>1, <1>4, <2>1, <2>2, FaultKept DEF Ran
  <2>4. TypeOK'
    BY <1>1, <1>4, <2>3 DEF IInv, TypeOK
  <2>5. EndedOnce'
    BY <1>4, <2>1 DEF IInv, EndedOnce, TypeOK
  <2>6. BackendsApart' /\ OldEnded'
    BY <1>1, <1>4 DEF IInv, BackendsApart, OldEnded, At
  <2> QED BY <2>3, <2>4, <2>5, <2>6 DEF IInv
<1> QED BY <1>2, <1>3, <1>4 DEF SqlFails

\* Time passes, and a lock whose time is over becomes free.
LEMMA TickStep ==
  ASSUME IInv, Tick
  PROVE  IInv'
<1> DEFINE runsOut == lock # None /\ lock.left = 1
<1>1. /\ \A c \in Call : timer[c] # 0
      /\ lock' = IF lock = None \/ (runsOut /\ backend = "redis") THEN None
                 ELSE [lock EXCEPT !.left = Less(@)]
      /\ late' = IF runsOut /\ StillHolds(lock.owner) THEN late \union {lock.owner} ELSE late
      /\ call' = [c \in Call |-> [call[c] EXCEPT !.left = Less(@)]]
      /\ timer' = [c \in Call |-> Less(timer[c])]
      /\ ended' = [c \in Call |-> IF ended[c] = None \/ ended[c] = Keep + 1 THEN ended[c] ELSE ended[c] + 1]
      /\ UNCHANGED <<backend, broken>>
  BY DEF Tick
<1>2. ASSUME NEW N \in Nat, NEW n \in 0..N \union {None}
      PROVE  /\ Less(n) \in 0..N \union {None} /\ (Less(n) = None <=> n = None)
             /\ n \notin {None, 0} => Less(n) = n - 1
  BY <1>2, Times DEF Less
<1>3. ASSUME NEW c \in Call
      PROVE  /\ call'[c] \in Calls /\ call'[c].pc = call[c].pc /\ call'[c].on = call[c].on
             /\ call'[c].from = call[c].from /\ call'[c].old = call[c].old
  <2> DEFINE left == Less(call[c].left)
  <2>1. call[c] \in Calls
    BY DEF IInv, TypeOK
  <2>2. left \in 0..Timeout \union {None}
    BY <1>2, <2>1, Times DEF Calls
  <2>3. call'[c] = [call[c] EXCEPT !.left = left]
    BY <1>1
  <2> HIDE DEF left
  <2> QED BY <2>1, <2>2, <2>3 DEF Calls
<1>4. call' \in [Call -> Calls]
  <2> HIDE DEF Calls
  <2> QED BY <1>1, <1>3
<1>5. \A c \in Call : /\ timer'[c] \in 0..Keep \union {None}
                      /\ timer'[c] = None <=> timer[c] = None
                      /\ timer[c] # None => timer'[c] = timer[c] - 1
  <2>1. \A c \in Call : timer[c] \in 0..Keep \union {None} /\ timer[c] # 0
    BY <1>1 DEF IInv, TypeOK
  <2> QED BY <1>1, <1>2, <2>1, Times
<1>6. /\ lock' = None => lock = None \/ (runsOut /\ backend = "redis")
      /\ lock' # None => /\ lock # None /\ lock' \in Locks /\ lock'.owner = lock.owner
                         /\ lock'.answered = lock.answered /\ lock'.left = Less(lock.left)
      /\ lock' \in Locks \union {None}
  <2>1. ASSUME lock # None
        PROVE  LET l == [lock EXCEPT !.left = Less(@)]
               IN  l \in Locks /\ l # None /\ l.owner = lock.owner /\ l.answered = lock.answered /\ l.left = Less(lock.left)
    <3> DEFINE left == Less(lock.left)
    <3>1. lock \in Locks /\ lock.left \in 0..Ttl
      BY <2>1, LockView
    <3>2. left \in 0..Ttl
      BY <1>2, <3>1, Times
    <3> HIDE DEF left
    <3>3. [lock EXCEPT !.left = left] \in Locks
      BY <3>1, <3>2 DEF Locks
    <3>4. LET l == [lock EXCEPT !.left = left]
          IN  l.owner = lock.owner /\ l.answered = lock.answered /\ l.left = left
      BY <3>1 DEF Locks
    <3> QED BY <3>3, <3>4, NoneAssumption DEF left
  <2> QED BY <1>1, <2>1
<1> HIDE DEF runsOut
<1>7. late \subseteq late' /\ late' \subseteq Call /\ (runsOut /\ StillHolds(lock.owner) => lock.owner \in late')
  BY <1>1, LockView DEF IInv, TypeOK, runsOut
<1>8. Faulty' = Faulty
  BY <1>1, <1>3 DEF Faulty, Dead, At
<1>9. \A d \in Call : /\ StillHolds(d)' <=> StillHolds(d)
                      /\ Excused(d) => Excused(d)'
  <2>1. backend \in Backends
    BY DEF IInv, BackendsApart
  <2>2. \A d \in Call : Excused(d) => Excused(d)'
    BY <1>1, <1>7, <1>8, <2>1 DEF Excused, Backends
  <2> QED BY <1>1, <1>3, <1>5, <2>2 DEF StillHolds
<1>10. lock # None => lock.owner \in Call
  BY LockView
<1>11. \A c \in Call : /\ ended'[c] \in 0..(Keep + 1) \union {None}
                       /\ ended'[c] = None <=> ended[c] = None
                       /\ ended[c] # None => ended'[c] >= ended[c]
                       /\ ended[c] # None /\ ended[c] <= Keep => ended'[c] = ended[c] + 1
  <2> SUFFICES ASSUME NEW c \in Call
               PROVE  /\ ended'[c] \in 0..(Keep + 1) \union {None}
                      /\ ended'[c] = None <=> ended[c] = None
                      /\ ended[c] # None => ended'[c] >= ended[c]
                      /\ ended[c] # None /\ ended[c] <= Keep => ended'[c] = ended[c] + 1
    OBVIOUS
  <2>1. ended[c] \in 0..(Keep + 1) \union {None}
    BY DEF IInv, TypeOK
  <2>2. CASE ended[c] = None
    BY <1>1, <2>2
  <2>3. CASE ended[c] # None /\ ended[c] = Keep + 1
    BY <1>1, <2>3, Times
  <2>4. CASE ended[c] # None /\ ended[c] # Keep + 1
    <3>1. ended[c] \in 0..Keep
      BY <2>1, <2>4, Times
    <3>3. ended'[c] = ended[c] + 1
      BY <1>1, <2>4
    <3>2. ended[c] + 1 \in Nat /\ ended[c] + 1 # None
      BY <3>1, Times
    <3> QED BY <2>4, <3>1, <3>2, <3>3, Times
  <2> QED BY <2>2, <2>3, <2>4
<1>12. TypeOK'
  <2>1. timer' \in [Call -> 0..Keep \union {None}] /\ ended' \in [Call -> 0..(Keep + 1) \union {None}]
    BY <1>1, <1>5, <1>11
  <2> QED BY <1>1, <1>3, <1>4, <1>6, <1>7, <2>1 DEF IInv, TypeOK
<1>13. BackendsApart'
  BY <1>1, <1>3 DEF IInv, BackendsApart
<1>14. EndedOnce'
  <2> SUFFICES ASSUME NEW c \in Call, timer[c] # None PROVE ended'[c] + timer'[c] = Keep
    BY <1>3, <1>5, <1>11 DEF IInv, EndedOnce
  <2>1. timer[c] \in 1..Keep /\ ended[c] \in 0..(Keep + 1) /\ ended[c] + timer[c] = Keep /\ ended[c] # None
    BY <1>1, Times DEF IInv, TypeOK, EndedOnce
  <2>2. ended'[c] = ended[c] + 1
    BY <1>11, <2>1, Times
  <2> QED BY <1>5, <2>1, <2>2, Times
<1>15. OldEnded'
  <2> SUFFICES ASSUME NEW c \in Call, NEW d \in call[c].old PROVE ended'[d] # None /\ ended'[d] > Keep
    BY <1>3 DEF IInv, OldEnded, At
  <2>1. d \in Call /\ ended[d] # None /\ ended[d] > Keep /\ ended[d] \in 0..(Keep + 1)
    BY DEF IInv, TypeOK, Calls, OldEnded
  <2> QED BY <1>11, <2>1, Times
<1>16. HoldersOwn'
  <2> SUFFICES ASSUME NEW d \in Call, StillHolds(d), ~Excused(d)' PROVE Owned(d)'
    BY <1>9 DEF HoldersOwn
  <2>1. Owned(d)
    BY <1>9 DEF IInv, HoldersOwn
  <2>2. lock' # None
    BY <1>1, <1>6, <1>7, <2>1 DEF Owned, Excused
  <2> QED BY <1>6, <2>1, <2>2 DEF Owned
<1>17. OwnerRan' /\ OwnerAnswers'
  BY <1>1, <1>3, <1>5, <1>6, <1>8, <1>10 DEF IInv, OwnerRan, OwnerAnswers, At
<1>18. Expired'
  <2> SUFFICES ASSUME lock' # None, StillHolds(lock.owner), lock.owner \notin late' PROVE lock'.left > 0
    BY <1>6, <1>9, <1>10 DEF Expired
  <2>1. lock.left \in Nat /\ lock.left > 0 /\ lock.left # 1 /\ lock.left \in 0..Ttl
    BY <1>6, <1>7, LockView, Times DEF IInv, Expired, runsOut
  <2>2. lock'.left = lock.left - 1
    BY <1>2, <1>6, <2>1, Times
  <2> QED BY <2>1, <2>2
<1>19. HolderLives'
  BY <1>1, <1>3, <1>6, <1>7, <1>8, <1>10 DEF IInv, HolderLives, At
<1>20. NoStrandedWaiter'
  <2> SUFFICES ASSUME NEW d \in Call, call[d].pc = "wait"
               PROVE  \/ backend = "memory" /\ call'[call'[d].on].pc = "run"
                      \/ backend = "redis" /\ \/ \E h \in Call : call'[h].pc \in Ends
                                              \/ late' \union Faulty' # {}
    BY <1>1, <1>3 DEF NoStrandedWaiter, At, Ends
  <2>1. \/ backend = "memory" /\ call[call[d].on].pc = "run"
        \/ backend = "redis" /\ \/ \E h \in Call : call[h].pc \in Ends
                                \/ late \union Faulty # {}
    BY DEF IInv, NoStrandedWaiter, At, Ends
  <2>2. backend = "memory" => call[d].on \in Call
    BY DEF IInv, TypeOK, Calls
  <2> QED BY <1>3, <1>7, <1>8, <2>1, <2>2
<1>21. AnswersFresh'
  BY <1>1, <1>3, <1>8 DEF IInv, AnswersFresh
<1> QED BY <1>12, <1>13, <1>14, <1>15, <1>16, <1>17, <1>18, <1>19, <1>20, <1>21 DEF IInv

--------------------------------------------------------------------------------
(* The theorems *)

\* Nobody has called.
LEMMA InitInv == Init => IInv
<1> SUFFICES ASSUME Init PROVE IInv
  OBVIOUS
<1>1. backend \in Backends /\ lock = None /\ \A c \in Call : ended[c] = None /\ timer[c] = None
  BY BackendAssumption DEF Init
<1>2. \A c \in Call : call[c].pc = "idle" /\ call[c].on = None /\ call[c].from = None /\ call[c].old = {}
  BY DEF Init
<1>3. TypeOK
  BY <1>2 DEF Init, TypeOK, Calls, Locks
<1> QED BY <1>1, <1>2, <1>3
        DEF IInv, BackendsApart, Pcs, Backends, EndedOnce, OldEnded, HoldersOwn, StillHolds, Holds, OwnerRan,
            Expired, HolderLives, OwnerAnswers, NoStrandedWaiter, AnswersFresh, At

\* Every step a call takes by itself keeps the inductive invariant.
LEMMA ProceedsInv == ASSUME IInv, NEW c \in Call, Proceeds(c) PROVE IInv'
BY WaitTimesOutStep, MemoryAcquireStep, MemoryEndsStep, MemoryReleasesStep, RedisAcquireStep, QuietSteps,
   RedisDelStep, RedisCountStep, RedisPublishStep, SqlAcquireStep, SqlStoreStep, SqlReleasesStep,
   SqlPollStep, FileUnlinkStep, FileCreateStep, FileReleaseStep DEF Proceeds

\* Every step, of any caller behind any backend, keeps the inductive invariant.
LEMMA NextInv == IInv /\ [Next]_vars => IInv'
<1> SUFFICES ASSUME IInv, [Next]_vars PROVE IInv'
  OBVIOUS
<1>1. CASE Tick
  BY <1>1, TickStep
<1>2. ASSUME NEW c \in Call, Begin(c) \/ Proceeds(c) \/ Dies(c) \/ RedisFails(c) \/ SqlFails(c) \/ FileFails(c) PROVE IInv'
  BY <1>2, BeginStep, ProceedsInv, DiesStep, FailsMoving, SqlFailsStep
<1>3. CASE UNCHANGED vars
  <2> USE <1>3 DEF vars
  <2>1. TypeOK' /\ BackendsApart'
    BY DEF IInv, TypeOK, BackendsApart
  <2>2. EndedOnce' /\ OldEnded'
    <3>1. EndedOnce'
      BY DEF IInv, EndedOnce
    <3>2. OldEnded'
      BY DEF IInv, OldEnded, At
    <3> QED BY <3>1, <3>2
  <2>3. HoldersOwn'
    BY DEF IInv, HoldersOwn, StillHolds, Owned, Excused, Faulty, Dead, At
  <2>4. OwnerRan' /\ Expired'
    BY DEF IInv, OwnerRan, Expired, StillHolds, Owned, Faulty, Dead, At
  <2>5. HolderLives' /\ OwnerAnswers'
    BY DEF IInv, HolderLives, OwnerAnswers, StillHolds, Owned, Faulty, Dead, At
  <2>6. NoStrandedWaiter' /\ AnswersFresh'
    BY DEF IInv, NoStrandedWaiter, AnswersFresh, Faulty, Dead, At
  <2> QED BY <2>1, <2>2, <2>3, <2>4, <2>5, <2>6 DEF IInv
<1> QED BY <1>1, <1>2, <1>3 DEF Next

\* What every caller and backend may rely on, at every moment.
THEOREM Invariance == Spec => []IInv
BY InitInv, NextInv, PTL DEF Spec

\* Two that run fn both own the one entry, unless one of them is excused.
LEMMA HoldersApart == IInv => OneRunner
<1> SUFFICES ASSUME IInv, NEW a \in Call, NEW b \in Call, At(a, "run"), At(b, "run"), a # b
             PROVE  Overlaps(a, b)
  BY DEF OneRunner
<1>1. StillHolds(a) /\ StillHolds(b)
  BY DEF StillHolds, Holds, At
<1>2. Excused(a) \/ Excused(b)
  BY <1>1 DEF IInv, HoldersOwn, Owned
<1>3. backend \in Backends
  BY DEF IInv, BackendsApart
<1> QED BY <1>2, <1>3 DEF Excused, Overlaps, Backends

\* withLock's promise (distributed-lock.ts): one caller at a time runs fn under
\* the lock, whatever the number of callers, the ttl and the timeouts, up to
\* what a late holder, a death or a failed command may break behind each backend.
THEOREM OneRunnerAtATime == Spec => []LockSound
<1>1. IInv => LockSound
  BY HoldersApart DEF IInv, LockSound
<1> QED BY <1>1, Invariance, PTL

\* A memory waiter is queued on a run under way, a Redis waiter has somebody
\* left to publish: while nobody dies, is late or fails, no waiter is left with
\* nothing but its timeout.
THEOREM WaitersHaveSomebody == Spec => []NoStrandedWaiter
<1>1. IInv => NoStrandedWaiter
  BY DEF IInv
<1> QED BY <1>1, Invariance, PTL

\* Nobody is answered with an outcome that was already too old when it called,
\* but from a row that stays for its ttl: the writer died, or its DELETE failed.
THEOREM AnswersAreFresh == Spec => []AnswersFresh
<1>1. IInv => AnswersFresh
  BY DEF IInv
<1> QED BY <1>1, Invariance, PTL
====================================================================================
