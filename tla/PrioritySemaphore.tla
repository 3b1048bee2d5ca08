--------------------------- MODULE PrioritySemaphore ---------------------------
(***************************************************************************)
(* The global download budget of the Usenet engine                         *)
(* (usenet/pool/priority-semaphore.ts): a counting semaphore whose waiters *)
(* are kept sorted by priority, FIFO within a priority, with a             *)
(* deterministic accumulator that diverts a share of the contended grants  *)
(* to the Low class, and a ceiling that throttleTo moves below the hard    *)
(* maximum.                                                                *)
(*                                                                         *)
(* JavaScript runs each method to completion, so each is one action; the   *)
(* one loop (throttleTo granting the headroom it opened) is unrolled into  *)
(* GrantLoop steps that nothing interleaves with while `granting` holds.   *)
(***************************************************************************)
EXTENDS Naturals, Sequences, FiniteSets, SequencesExt

CONSTANTS
  Client,     \* callers; each has at most one acquire outstanding
  MaxPermits, \* `max`, the hard capacity
  LowOdds,    \* round((1 - highShare) * 100)
  ThrottleTo  \* the arguments throttleTo may be called with

ASSUME ClientAssumption  == IsFiniteSet(Client)
ASSUME PermitsAssumption == MaxPermits \in Nat \ {0}
ASSUME OddsAssumption    == LowOdds \in 0..100
ASSUME ThrottleAssumption == ThrottleTo \subseteq Nat

VARIABLES
  limit,    \* the effective ceiling
  inUse,    \* permits leased out
  waiters,  \* the sorted queue of [client, prio]
  lowAcc,   \* the rolling accumulator
  granting, \* TRUE inside throttleTo's loop
  handle,   \* per client: where its acquire stands
  bypassed  \* history: contended grants given to High since Low's last one

vars == <<limit, inUse, waiters, lowAcc, granting, handle, bypassed>>

High == 0
Low  == 1
Idle == 2
Priority == {High, Low, Idle}

Waiter == [client : Client, prio : Priority]

TypeOK ==
  /\ limit \in 1..MaxPermits
  /\ inUse \in 0..MaxPermits
  /\ waiters \in Seq(Waiter)
  /\ lowAcc \in 0..99
  /\ granting \in BOOLEAN
  /\ handle \in [Client -> {"none", "queued", "held", "released"}]
  /\ bypassed \in Nat

Init ==
  /\ limit = MaxPermits
  /\ inUse = 0
  /\ waiters = <<>>
  /\ lowAcc = 0
  /\ granting = FALSE
  /\ handle = [c \in Client |-> "none"]
  /\ bypassed = 0

--------------------------------------------------------------------------------
(* Choosing the waiter to serve *)

PositionsOf(p) == {i \in DOMAIN waiters : waiters[i].prio = p}

\* Both classes wait: some Low waiter exists and the (sorted) head is High.
Contended ==
  /\ LowOdds > 0
  /\ waiters # <<>>
  /\ waiters[1].prio = High
  /\ PositionsOf(Low) # {}

\* The accumulator overflows on this grant, so it goes to Low.
Diverts == Contended /\ lowAcc + LowOdds >= 100

\* The index pickWaiterIndex returns: the first Low waiter or the head.
PickWaiterIndex(i) ==
  IF Diverts THEN i \in PositionsOf(Low) /\ \A j \in PositionsOf(Low) : i <= j
             ELSE i = 1

\* What one pick does to the accumulator (and to the history variable).
Accumulate_Never ==
  /\ lowAcc' = lowAcc
  /\ bypassed' = IF Contended /\ bypassed < 9 THEN bypassed + 1 ELSE bypassed
Accumulate ==
  /\ lowAcc' = IF ~Contended THEN lowAcc
               ELSE IF Diverts THEN lowAcc + LowOdds - 100 ELSE lowAcc + LowOdds
  /\ bypassed' = IF ~Contended THEN bypassed ELSE IF Diverts THEN 0 ELSE bypassed + 1

\* grantNext, from `n` permits in use and the handles `h`.
GrantNext(n, h) ==
  \E i \in DOMAIN waiters :
    /\ PickWaiterIndex(i)
    /\ waiters' = RemoveAt(waiters, i)
    /\ inUse' = n + 1
    /\ handle' = [h EXCEPT ![waiters[i].client] = "held"]
    /\ Accumulate

--------------------------------------------------------------------------------
(* Operations *)

\* A waiter of class p enters at index i: before the first waiter of a later
\* class (seq only grows, so FIFO within a class), or at the end.
EntersAt_Lifo(p, i) ==
  /\ \A j \in 1..(i - 1) : waiters[j].prio < p
  /\ i <= Len(waiters) => waiters[i].prio >= p
EntersAt(p, i) ==
  /\ \A j \in 1..(i - 1) : waiters[j].prio <= p
  /\ i <= Len(waiters) => waiters[i].prio > p

AcquireNow(c) ==
  /\ ~granting
  /\ handle[c] \in {"none", "released"}
  /\ inUse < limit
  /\ inUse' = inUse + 1
  /\ handle' = [handle EXCEPT ![c] = "held"]
  /\ UNCHANGED <<limit, waiters, lowAcc, granting, bypassed>>

AcquireQueued(c, p) ==
  /\ ~granting
  /\ handle[c] \in {"none", "released"}
  /\ inUse >= limit
  /\ \E i \in 1..(Len(waiters) + 1) :
       EntersAt(p, i) /\ waiters' = InsertAt(waiters, i, [client |-> c, prio |-> p])
  /\ handle' = [handle EXCEPT ![c] = "queued"]
  /\ UNCHANGED <<limit, inUse, lowAcc, granting, bypassed>>

\* The caller's signal aborts while it is queued (the listener is removed
\* when the waiter is granted, so an abort then changes nothing).
Abort_LeaveEntry(c) ==
  /\ ~granting
  /\ handle[c] = "queued"
  /\ handle' = [handle EXCEPT ![c] = "none"]
  /\ UNCHANGED <<limit, inUse, waiters, lowAcc, granting, bypassed>>
Abort(c) ==
  /\ ~granting
  /\ handle[c] = "queued"
  /\ \E i \in DOMAIN waiters : waiters[i].client = c /\ waiters' = RemoveAt(waiters, i)
  /\ handle' = [handle EXCEPT ![c] = "none"]
  /\ UNCHANGED <<limit, inUse, lowAcc, granting, bypassed>>

\* release(): hands the permit on, but only within the current ceiling.
HandsOn_AtZero(n) == n = 0 /\ n < limit /\ waiters # <<>>
HandsOn(n) == n < limit /\ waiters # <<>>

\* The release closure is idempotent: it acts on a held permit only.
Release(c) ==
  /\ ~granting
  /\ handle[c] = "held"
  /\ LET n == inUse - 1
         h == [handle EXCEPT ![c] = "released"]
     IN  IF HandsOn(n) THEN GrantNext(n, h)
         ELSE inUse' = n /\ handle' = h /\ UNCHANGED <<waiters, lowAcc, bypassed>>
  /\ UNCHANGED <<limit, granting>>

\* throttleTo(n), restore being throttleTo(MaxPermits).
Clamp(n) == IF n < 1 THEN 1 ELSE IF n > MaxPermits THEN MaxPermits ELSE n

Throttle(n) ==
  /\ ~granting
  /\ Clamp(n) # limit
  /\ limit' = Clamp(n)
  /\ granting' = (inUse < Clamp(n) /\ waiters # <<>>)
  /\ UNCHANGED <<inUse, waiters, lowAcc, handle, bypassed>>

\* One turn of throttleTo's while loop.
GrantLoop ==
  /\ granting
  /\ GrantNext(inUse, handle)
  /\ granting' = (inUse + 1 < limit /\ Len(waiters) > 1)
  /\ UNCHANGED limit

Next ==
  \/ \E c \in Client : AcquireNow(c) \/ Abort(c) \/ Release(c)
  \/ \E c \in Client, p \in Priority : AcquireQueued(c, p)
  \/ \E n \in ThrottleTo : Throttle(n)
  \/ GrantLoop

Spec == Init /\ [][Next]_vars

--------------------------------------------------------------------------------
(* Properties *)

Holders == {c \in Client : handle[c] = "held"}

\* The counter is the number of live release handles and the queue holds
\* exactly the callers still waiting, each once: no permit is leaked or
\* returned twice whatever the order of aborts, hand-offs and releases.
PermitConservation ==
  /\ inUse = Cardinality(Holders)
  /\ \A c \in Client : handle[c] = "queued" <=> \E i \in DOMAIN waiters : waiters[i].client = c
  /\ \A i, j \in DOMAIN waiters : waiters[i].client = waiters[j].client => i = j

PermitsSound == TypeOK /\ PermitConservation

\* Nobody waits beside a free permit: release hands over at most one permit
\* and abort wakes nobody, yet no wakeup is lost, also across throttling.
NoLostWakeup == ~granting /\ waiters # <<>> => inUse >= limit

\* The queue stays sorted, which is what lets the code take its head for the
\* most urgent waiter (a part of the inductive invariant of the proofs).
QueueSorted == \A i, j \in DOMAIN waiters : i < j => waiters[i].prio <= waiters[j].prio

\* A lowered ceiling actually holds: no step adds a permit beyond the ceiling
\* in force, though permits leased before the throttle stay out.
GrantsWithinCeiling == [][inUse' > inUse \/ Holders' \ Holders # {} => inUse' <= limit']_vars

\* The share is kept grant by grant: before each Low grant at most
\* ceil(100 / LowOdds) - 1 contended grants went to High.
BypassBound == bypassed * LowOdds < 100

\* The clients queued in class p, in queue order: the k-th is the one with k - 1
\* waiters of its class before it.
ClassQueue(p) ==
  LET Nth(k) == CHOOSE i \in PositionsOf(p) : Cardinality({j \in PositionsOf(p) : j < i}) = k - 1
  IN  [k \in 1..Cardinality(PositionsOf(p)) |-> waiters[Nth(k)].client]

\* The semaphore implements one FIFO queue per class under a moving ceiling:
\* no barging past a queue, no overtaking inside a class.
Abstract == INSTANCE ClassQueues WITH
              ceiling <- limit, holders <- Holders,
              queue <- [p \in Priority |-> ClassQueue(p)]
ServesClassesInOrder == Abstract!Spec
================================================================================
