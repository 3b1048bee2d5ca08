------------------------------ MODULE BudgetProofs ------------------------------
(***************************************************************************)
(* Proofs about the two components that share out a limited capacity.      *)
(*                                                                         *)
(* PrioritySemaphore (the download budget), for every set of callers,      *)
(* capacity, share and throttle schedule: its invariants, the share, and   *)
(* that it implements one FIFO queue per class (ClassQueues).              *)
(*                                                                         *)
(* DiskBackedCache (the disk tier), for every finite set of keys, payload  *)
(* sizes, disk budgets and bounds on the writes in flight: what a hit may  *)
(* be read from, and the account of the writes.                            *)
(***************************************************************************)
EXTENDS PrioritySemaphore, DiskBackedCache, DataLemmas

--------------------------------------------------------------------------------
(* The inductive invariant *)

\* The share's debt: each contended grant that bypassed Low left LowOdds in
\* the accumulator.
ShareInv == bypassed * LowOdds <= lowAcc

\* throttleTo's loop only runs while it has a permit and a waiter to match.
LoopInv == granting => inUse < limit /\ waiters # <<>>

IInv ==
  /\ TypeOK
  /\ PermitConservation
  /\ NoLostWakeup
  /\ QueueSorted
  /\ ShareInv
  /\ LoopInv

\* One accumulator update keeps the accumulator a percentage and pays each
\* bypass of the Low class.
LEMMA AccumulateKeepsShare ==
  ASSUME TypeOK, ShareInv, Accumulate
  PROVE  lowAcc' \in 0..99 /\ bypassed' \in Nat /\ ShareInv'
<1> USE OddsAssumption DEF TypeOK, ShareInv
<1>1. CASE ~Contended
  BY <1>1 DEF Accumulate
<1>2. CASE Contended /\ lowAcc + LowOdds >= 100
  <2>1. lowAcc' = lowAcc + LowOdds - 100 /\ bypassed' = 0
    BY <1>2 DEF Accumulate, Diverts
  <2> QED BY <2>1, <1>2
<1>3. CASE Contended /\ ~(lowAcc + LowOdds >= 100)
  <2>1. lowAcc' = lowAcc + LowOdds /\ bypassed' = bypassed + 1
    BY <1>3 DEF Accumulate, Diverts
  <2>2. (bypassed + 1) * LowOdds = bypassed * LowOdds + LowOdds
    OBVIOUS
  <2> QED BY <2>1, <2>2, <1>3
<1> QED BY <1>1, <1>2, <1>3

\* The queue lists exactly the clients whose handle in h is "queued", each once.
QueueMatches(h) ==
  /\ \A c \in Client : h[c] = "queued" <=> \E i \in DOMAIN waiters : waiters[i].client = c
  /\ \A i, j \in DOMAIN waiters : waiters[i].client = waiters[j].client => i = j

\* One waiter leaves the queue, granted (v = "held") or aborted (v = "none"):
\* the rest of the queue still matches the handles and stays sorted.
LEMMA DepartProperties ==
  ASSUME waiters \in Seq(Waiter), QueueSorted,
         NEW h \in [Client -> {"none", "queued", "held", "released"}],
         QueueMatches(h),
         NEW i \in DOMAIN waiters, waiters' = RemoveAt(waiters, i),
         NEW v \in {"none", "held"}, handle' = [h EXCEPT ![waiters[i].client] = v]
  PROVE  /\ waiters[i].client \in Client /\ h[waiters[i].client] = "queued"
         /\ waiters' \in Seq(Waiter) /\ Len(waiters') = Len(waiters) - 1
         /\ handle' \in [Client -> {"none", "queued", "held", "released"}]
         /\ QueueMatches(handle)'
         /\ QueueSorted'
<1>1. /\ waiters' = RemoveAt(waiters, i)
      /\ handle' = [h EXCEPT ![waiters[i].client] = v]
  OBVIOUS
<1>2. Len(waiters) \in Nat /\ DOMAIN waiters = 1..Len(waiters)
  BY LenProperties
<1>3. /\ waiters' \in Seq(Waiter)
      /\ Len(waiters') = Len(waiters) - 1
      /\ DOMAIN waiters' = 1..(Len(waiters) - 1)
      /\ \A j \in 1..(Len(waiters) - 1) : waiters'[j] = IF j < i THEN waiters[j] ELSE waiters[j + 1]
  <2>1. /\ waiters' \in Seq(Waiter)
        /\ Len(waiters') = Len(waiters) - 1
        /\ \A j \in 1..(Len(waiters) - 1) : waiters'[j] = IF j < i THEN waiters[j] ELSE waiters[j + 1]
    <3>1. i \in 1..Len(waiters)
      BY <1>2
    <3>2. /\ RemoveAt(waiters, i) \in Seq(Waiter)
          /\ Len(RemoveAt(waiters, i)) = Len(waiters) - 1
          /\ \A j \in 1..(Len(waiters) - 1) :
               RemoveAt(waiters, i)[j] = IF j < i THEN waiters[j] ELSE waiters[j + 1]
      BY <3>1, RemoveAtProperties
    <3> QED BY <3>2
  <2> QED BY <2>1, LenProperties
<1> DEFINE d == waiters[i].client
<1>4. d \in Client /\ h[d] = "queued"
  <2>1. waiters[i] \in Waiter
    BY <1>1, <1>2, ElementOfSeq
  <2> QED BY <2>1, <1>1 DEF Waiter, QueueMatches
<1>6. handle' \in [Client -> {"none", "queued", "held", "released"}]
  BY <1>1, <1>4
<1>8. \A c \in Client : handle'[c] = "queued" <=> \E k \in DOMAIN waiters' : waiters'[k].client = c
  <2> SUFFICES ASSUME NEW c \in Client
               PROVE  handle'[c] = "queued" <=> \E k \in DOMAIN waiters' : waiters'[k].client = c
    OBVIOUS
  <2>1. CASE c = d
    <3>1. handle'[c] = v
      BY <2>1, <1>1, <1>4
    <3>2. ASSUME NEW k \in DOMAIN waiters', waiters'[k].client = c
          PROVE  FALSE
      <4>1. k \in 1..(Len(waiters) - 1)
        BY <1>3
      <4>2. CASE k < i
        <5>1. waiters[k].client = d /\ k \in DOMAIN waiters
          BY <4>1, <4>2, <3>2, <2>1, <1>2, <1>3
        <5> QED BY <5>1, <4>2, <1>2 DEF QueueMatches
      <4>3. CASE ~(k < i)
        <5>1. waiters[k + 1].client = d /\ k + 1 \in DOMAIN waiters /\ k + 1 # i
          BY <4>1, <4>3, <3>2, <2>1, <1>2, <1>3
        <5> QED BY <5>1 DEF QueueMatches
      <4> QED BY <4>2, <4>3
    <3> QED BY <3>1, <3>2
  <2>2. CASE c # d
    <3>1. handle'[c] = h[c]
      BY <2>2, <1>1
    <3>2. ASSUME NEW k \in DOMAIN waiters, waiters[k].client = c
          PROVE  \E l \in DOMAIN waiters' : waiters'[l].client = c
      <4>1. k # i /\ k \in 1..Len(waiters)
        BY <3>2, <2>2, <1>2
      <4>2. CASE k < i
        <5>1. k \in DOMAIN waiters' /\ waiters'[k] = waiters[k]
          BY <4>1, <4>2, <1>2, <1>3
        <5> QED BY <5>1, <3>2
      <4>3. CASE k > i
        <5>1. k - 1 \in DOMAIN waiters' /\ ~(k - 1 < i) /\ (k - 1) + 1 = k
          BY <4>1, <4>3, <1>2, <1>3
        <5>2. waiters'[k - 1] = waiters[k]
          BY <5>1, <1>3
        <5> QED BY <5>1, <5>2, <3>2
      <4> QED BY <4>1, <4>2, <4>3, <1>2
    <3>3. ASSUME NEW k \in DOMAIN waiters', waiters'[k].client = c
          PROVE  \E l \in DOMAIN waiters : waiters[l].client = c
      <4>1. k \in 1..(Len(waiters) - 1) /\ k \in DOMAIN waiters /\ k + 1 \in DOMAIN waiters
        BY <1>2, <1>3
      <4> QED BY <4>1, <3>3, <1>3
    <3> QED BY <3>1, <3>2, <3>3 DEF QueueMatches
  <2> QED BY <2>1, <2>2
<1>9. ASSUME NEW k \in DOMAIN waiters', NEW l \in DOMAIN waiters',
             waiters'[k].client = waiters'[l].client
      PROVE  k = l
  <2> DEFINE kk == IF k < i THEN k ELSE k + 1
             ll == IF l < i THEN l ELSE l + 1
  <2>1. kk \in DOMAIN waiters /\ ll \in DOMAIN waiters
    BY <1>2, <1>3
  <2>2. waiters'[k] = waiters[kk] /\ waiters'[l] = waiters[ll]
    BY <1>3
  <2>3. kk = ll
    BY <2>1, <2>2, <1>9 DEF QueueMatches
  <2> QED BY <2>3, <1>2, <1>3
<1>10. QueueMatches(handle)'
  BY <1>8, <1>9 DEF QueueMatches
<1>11. QueueSorted'
  <2> SUFFICES ASSUME NEW k \in DOMAIN waiters', NEW l \in DOMAIN waiters', k < l
               PROVE  waiters'[k].prio <= waiters'[l].prio
    BY DEF QueueSorted
  <2> DEFINE kk == IF k < i THEN k ELSE k + 1
             ll == IF l < i THEN l ELSE l + 1
  <2>1. kk \in DOMAIN waiters /\ ll \in DOMAIN waiters /\ kk < ll
    BY <1>2, <1>3
  <2>2. waiters'[k] = waiters[kk] /\ waiters'[l] = waiters[ll]
    BY <1>3
  <2> QED BY <2>1, <2>2 DEF QueueSorted
<1> QED BY <1>3, <1>4, <1>6, <1>10, <1>11

\* The holders are finitely many, so they can be counted.
LEMMA HoldersFinite ==
  ASSUME NEW h
  PROVE  IsFiniteSet({c \in Client : h[c] = "held"})
BY ClientAssumption, FS_Subset

\* What a grant does, from a base (n, h) in which n counts the held handles
\* and the queue lists the queued ones.
LEMMA GrantNextProperties ==
  ASSUME TypeOK, QueueSorted, ShareInv,
         NEW n \in 0..MaxPermits, n < limit,
         NEW h \in [Client -> {"none", "queued", "held", "released"}],
         n = Cardinality({c \in Client : h[c] = "held"}),
         QueueMatches(h),
         GrantNext(n, h)
  PROVE  /\ inUse' = n + 1
         /\ waiters' \in Seq(Waiter) /\ Len(waiters') = Len(waiters) - 1
         /\ handle' \in [Client -> {"none", "queued", "held", "released"}]
         /\ lowAcc' \in 0..99 /\ bypassed' \in Nat /\ ShareInv'
         /\ PermitConservation'
         /\ QueueSorted'
<1>1. PICK i \in DOMAIN waiters :
        /\ waiters' = RemoveAt(waiters, i)
        /\ inUse' = n + 1
        /\ handle' = [h EXCEPT ![waiters[i].client] = "held"]
        /\ Accumulate
  BY DEF GrantNext
<1> DEFINE d == waiters[i].client
<1>2. /\ d \in Client /\ h[d] = "queued"
      /\ waiters' \in Seq(Waiter) /\ Len(waiters') = Len(waiters) - 1
      /\ handle' \in [Client -> {"none", "queued", "held", "released"}]
      /\ QueueMatches(handle)'
      /\ QueueSorted'
  <2>1. waiters \in Seq(Waiter)
    BY DEF TypeOK
  <2>2. "held" \in {"none", "held"}
    OBVIOUS
  <2> QED BY <1>1, <2>1, <2>2, DepartProperties
<1>3. lowAcc' \in 0..99 /\ bypassed' \in Nat /\ ShareInv'
  BY <1>1, AccumulateKeepsShare
<1>4. inUse' = Cardinality(Holders')
  <2> DEFINE H == {c \in Client : h[c] = "held"}
  <2>1. Holders' = H \cup {d}
    BY <1>1, <1>2 DEF Holders
  <2>2. IsFiniteSet(H) /\ d \notin H
    BY <1>2, HoldersFinite
  <2>3. Cardinality(H \cup {d}) = Cardinality(H) + 1
    BY <2>2, FS_AddElement
  <2> QED BY <2>1, <2>3, <1>1
<1> QED BY <1>1, <1>2, <1>3, <1>4 DEF PermitConservation, QueueMatches

--------------------------------------------------------------------------------
(* Init and each action establish the invariant *)

\* No permit taken, nobody queued.
LEMMA InitInv == Init => IInv
<1> SUFFICES ASSUME Init PROVE IInv
  OBVIOUS
<1> USE PermitsAssumption, OddsAssumption DEF Init
<1>1. TypeOK
  <2>1. waiters \in Seq(Waiter)
    BY EmptySeq
  <2>2. handle \in [Client -> {"none", "queued", "held", "released"}]
    OBVIOUS
  <2>3. limit \in 1..MaxPermits /\ inUse \in 0..MaxPermits /\ lowAcc \in 0..99 /\ bypassed \in Nat
    OBVIOUS
  <2> QED BY <2>1, <2>2, <2>3 DEF TypeOK
<1>2. PermitConservation
  <2>1. Holders = {} /\ DOMAIN waiters = {}
    BY DEF Holders
  <2> QED BY <2>1, FS_EmptySet DEF PermitConservation
<1> QED BY <1>1, <1>2 DEF IInv, NoLostWakeup, QueueSorted, ShareInv, LoopInv

\* acquire with a permit free.
LEMMA AcquireNowInv ==
  ASSUME IInv, NEW c \in Client, AcquireNow(c)
  PROVE  IInv'
<1> USE DEF IInv, TypeOK, AcquireNow
<1>1. TypeOK'
  BY PermitsAssumption
<1>2. PermitConservation'
  <2>1. Holders' = Holders \cup {c} /\ c \notin Holders
    BY DEF Holders
  <2>2. IsFiniteSet(Holders)
    BY HoldersFinite DEF Holders
  <2>3. inUse' = Cardinality(Holders')
    BY <2>1, <2>2, FS_AddElement DEF PermitConservation
  <2>4. \A d \in Client : handle'[d] = "queued" <=> handle[d] = "queued"
    OBVIOUS
  <2> QED BY <2>3, <2>4 DEF PermitConservation
<1>3. NoLostWakeup'
  BY DEF NoLostWakeup
<1> QED BY <1>1, <1>2, <1>3 DEF QueueSorted, ShareInv, LoopInv

\* acquire that queues.
LEMMA AcquireQueuedInv ==
  ASSUME IInv, NEW c \in Client, NEW p \in Priority, AcquireQueued(c, p)
  PROVE  IInv'
<1> DEFINE w == [client |-> c, prio |-> p]
<1>0. Len(waiters) \in Nat /\ DOMAIN waiters = 1..Len(waiters) /\ waiters \in Seq(Waiter) /\ w \in Waiter
  BY LenProperties DEF IInv, TypeOK, Waiter
<1>1. PICK i \in 1..(Len(waiters) + 1) : EntersAt(p, i) /\ waiters' = InsertAt(waiters, i, w)
  BY DEF AcquireQueued
<1>2. /\ waiters' \in Seq(Waiter)
      /\ Len(waiters') = Len(waiters) + 1
      /\ DOMAIN waiters' = 1..(Len(waiters) + 1)
      /\ \A j \in 1..(Len(waiters) + 1) :
           waiters'[j] = IF j < i THEN waiters[j] ELSE IF j = i THEN w ELSE waiters[j - 1]
  <2>1. /\ waiters' \in Seq(Waiter)
        /\ Len(waiters') = Len(waiters) + 1
        /\ \A j \in 1..(Len(waiters) + 1) :
             waiters'[j] = IF j < i THEN waiters[j] ELSE IF j = i THEN w ELSE waiters[j - 1]
    BY <1>0, <1>1, InsertAtProperties, SMTT(30)
  <2> QED BY <2>1, LenProperties
<1> HIDE DEF w
<1>3. w.client = c /\ w.prio = p
  BY DEF w
<1>4. TypeOK'
  BY <1>2 DEF IInv, TypeOK, AcquireQueued
<1>5. \A d \in Client : handle'[d] = IF d = c THEN "queued" ELSE handle[d]
  BY DEF IInv, TypeOK, AcquireQueued
<1>6. handle[c] # "queued" /\ handle[c] # "held"
  BY DEF AcquireQueued
<1>7. \A j \in DOMAIN waiters : waiters[j].client # c
  BY <1>6 DEF IInv, PermitConservation
<1>8. PermitConservation'
  <2>1. inUse' = Cardinality(Holders')
    <3>1. Holders' = Holders
      BY <1>5, <1>6 DEF Holders
    <3> QED BY <3>1 DEF IInv, PermitConservation, AcquireQueued
  <2>2. ASSUME NEW d \in Client
        PROVE  handle'[d] = "queued" <=> \E k \in DOMAIN waiters' : waiters'[k].client = d
    <3>1. CASE d = c
      <4>1. i \in DOMAIN waiters' /\ waiters'[i].client = c
        BY <1>2, <1>3, <1>0
      <4> QED BY <4>1, <3>1, <1>5
    <3>2. CASE d # c
      <4>1. ASSUME NEW k \in DOMAIN waiters, waiters[k].client = d
            PROVE  \E l \in DOMAIN waiters' : waiters'[l].client = d
        <5>1. CASE k < i
          <6>1. k \in DOMAIN waiters' /\ waiters'[k] = waiters[k]
            BY <5>1, <1>0, <1>2
          <6> QED BY <6>1, <4>1
        <5>2. CASE ~(k < i)
          <6>1. k + 1 \in DOMAIN waiters' /\ waiters'[k + 1] = waiters[k]
            BY <5>2, <1>0, <1>2
          <6> QED BY <6>1, <4>1
        <5> QED BY <5>1, <5>2
      <4>2. ASSUME NEW l \in DOMAIN waiters', waiters'[l].client = d
            PROVE  \E k \in DOMAIN waiters : waiters[k].client = d
        <5>1. l # i
          BY <4>2, <3>2, <1>2, <1>3
        <5>2. CASE l < i
          BY <5>2, <4>2, <1>0, <1>2
        <5>3. CASE l > i
          <6>1. l - 1 \in DOMAIN waiters /\ waiters'[l] = waiters[l - 1]
            BY <5>3, <1>0, <1>2
          <6> QED BY <6>1, <4>2
        <5> QED BY <5>1, <5>2, <5>3, <1>0, <1>2
      <4> QED BY <4>1, <4>2, <3>2, <1>5 DEF IInv, PermitConservation
    <3> QED BY <3>1, <3>2
  <2>3. ASSUME NEW k \in DOMAIN waiters', NEW l \in DOMAIN waiters',
               waiters'[k].client = waiters'[l].client
        PROVE  k = l
    <3> DEFINE kk == IF k < i THEN k ELSE k - 1
               ll == IF l < i THEN l ELSE l - 1
    <3>1. k # i => kk \in DOMAIN waiters /\ waiters'[k] = waiters[kk]
      BY <1>0, <1>2
    <3>2. l # i => ll \in DOMAIN waiters /\ waiters'[l] = waiters[ll]
      BY <1>0, <1>2
    <3>3. waiters'[i].client = c
      BY <1>0, <1>2, <1>3
    <3>4. CASE k = i \/ l = i
      BY <3>1, <3>2, <3>3, <3>4, <2>3, <1>7
    <3>5. CASE k # i /\ l # i
      <4>1. kk = ll
        BY <3>1, <3>2, <3>5, <2>3 DEF IInv, PermitConservation
      <4> QED BY <4>1, <3>5, <1>0, <1>2
    <3> QED BY <3>4, <3>5
  <2> QED BY <2>1, <2>2, <2>3 DEF PermitConservation
<1>9. QueueSorted'
  <2> SUFFICES ASSUME NEW k \in DOMAIN waiters', NEW l \in DOMAIN waiters', k < l
               PROVE  waiters'[k].prio <= waiters'[l].prio
    BY DEF QueueSorted
  <2>0. p \in Nat /\ \A j \in DOMAIN waiters : waiters[j].prio \in Nat
    <3>1. \A j \in DOMAIN waiters : waiters[j] \in Waiter
      BY <1>0, ElementOfSeq
    <3> QED BY <3>1 DEF Waiter, Priority, High, Low, Idle
  <2>1. CASE l < i \/ k > i
    <3> DEFINE kk == IF k < i THEN k ELSE k - 1
               ll == IF l < i THEN l ELSE l - 1
    <3>1. kk \in DOMAIN waiters /\ ll \in DOMAIN waiters /\ kk < ll
      BY <2>1, <1>0, <1>2
    <3>2. waiters'[k] = waiters[kk] /\ waiters'[l] = waiters[ll]
      BY <2>1, <1>0, <1>2
    <3> QED BY <3>1, <3>2 DEF IInv, QueueSorted
  <2>2. CASE k < i /\ l > i
    <3>1. k \in DOMAIN waiters /\ l - 1 \in DOMAIN waiters /\ k < l - 1
      BY <2>2, <1>0, <1>2
    <3>2. waiters'[k] = waiters[k] /\ waiters'[l] = waiters[l - 1]
      BY <2>2, <1>0, <1>2
    <3> QED BY <3>1, <3>2, <2>0 DEF IInv, QueueSorted
  <2>3. CASE l = i
    <3>1. waiters'[l].prio = p /\ waiters'[k] = waiters[k] /\ k \in 1..(i - 1)
      BY <2>3, <1>0, <1>2, <1>3
    <3> QED BY <3>1, <1>1 DEF EntersAt
  <2>4. CASE k = i
    <3>1. waiters'[k].prio = p /\ waiters'[l] = waiters[l - 1] /\ l - 1 \in DOMAIN waiters /\ i <= l - 1
      BY <2>4, <1>0, <1>2, <1>3
    <3>2. waiters[i].prio > p /\ i \in DOMAIN waiters
      BY <3>1, <1>0, <1>1 DEF EntersAt
    <3>3. waiters[i].prio <= waiters[l - 1].prio
      BY <3>1, <3>2, <2>0, <1>0 DEF IInv, QueueSorted
    <3> QED BY <3>1, <3>2, <3>3, <2>0
  <2> QED BY <2>1, <2>2, <2>3, <2>4, <1>0, <1>2
<1>10. NoLostWakeup'
  BY DEF NoLostWakeup, AcquireQueued
<1> QED BY <1>4, <1>8, <1>9, <1>10 DEF IInv, AcquireQueued, ShareInv, LoopInv

\* onAbort takes the entry out of the queue.
LEMMA AbortInv ==
  ASSUME IInv, NEW c \in Client, Abort(c)
  PROVE  IInv'
<1>1. PICK i \in DOMAIN waiters : waiters[i].client = c /\ waiters' = RemoveAt(waiters, i)
  BY DEF Abort
<1>2. /\ waiters' \in Seq(Waiter) /\ Len(waiters') = Len(waiters) - 1
      /\ handle' \in [Client -> {"none", "queued", "held", "released"}]
      /\ QueueMatches(handle)'
      /\ QueueSorted'
  <2>1. handle' = [handle EXCEPT ![waiters[i].client] = "none"]
    BY <1>1 DEF Abort
  <2>2. waiters \in Seq(Waiter) /\ QueueSorted /\ handle \in [Client -> {"none", "queued", "held", "released"}]
    BY DEF IInv, TypeOK
  <2>3. QueueMatches(handle)
    BY DEF IInv, PermitConservation, QueueMatches
  <2>4. "none" \in {"none", "held"}
    OBVIOUS
  <2> QED BY <1>1, <2>1, <2>2, <2>3, <2>4, DepartProperties
<1>3. PermitConservation'
  <2>1. Holders' = Holders
    BY DEF Abort, IInv, TypeOK, Holders
  <2> QED BY <2>1, <1>2 DEF IInv, PermitConservation, QueueMatches, Abort
<1>4. TypeOK'
  BY <1>2 DEF IInv, TypeOK, Abort
<1>5. NoLostWakeup'
  <2>1. waiters # <<>>
    BY <1>1
  <2> QED BY <2>1 DEF IInv, NoLostWakeup, Abort
<1> QED BY <1>2, <1>3, <1>4, <1>5 DEF IInv, Abort, ShareInv, LoopInv

\* release hands the permit on, or returns it.
LEMMA ReleaseInv ==
  ASSUME IInv, NEW c \in Client, Release(c)
  PROVE  IInv'
<1> DEFINE n == inUse - 1
           h == [handle EXCEPT ![c] = "released"]
<1>1. /\ n \in 0..MaxPermits
      /\ n = Cardinality({d \in Client : h[d] = "held"})
  <2>1. {d \in Client : h[d] = "held"} = Holders \ {c} /\ c \in Holders
    BY DEF IInv, TypeOK, Holders, Release
  <2>2. IsFiniteSet(Holders)
    BY HoldersFinite DEF Holders
  <2>3. Cardinality(Holders \ {c}) = inUse - 1
    BY <2>1, <2>2, FS_RemoveElement DEF IInv, PermitConservation
  <2>4. Cardinality(Holders \ {c}) \in Nat
    BY <2>2, FS_RemoveElement, FS_CardinalityType
  <2>5. inUse - 1 \in 0..MaxPermits
    BY <2>3, <2>4, PermitsAssumption DEF IInv, TypeOK
  <2> HIDE DEF h
  <2> QED BY <2>1, <2>3, <2>5
<1>2. h \in [Client -> {"none", "queued", "held", "released"}]
  BY DEF IInv, TypeOK
<1>3. \A d \in Client : h[d] = "queued" <=> handle[d] = "queued"
  BY DEF IInv, TypeOK, Release
<1>4. QueueMatches(h)
  BY <1>3 DEF IInv, PermitConservation, QueueMatches
<1>5. CASE HandsOn(n)
  <2>1. GrantNext(n, h) /\ n < limit /\ UNCHANGED <<limit, granting>> /\ ~granting
    BY <1>5 DEF Release, HandsOn
  <2>2. TypeOK /\ QueueSorted /\ ShareInv
    BY DEF IInv
  <2> HIDE DEF n, h
  <2>3. /\ inUse' = n + 1
        /\ waiters' \in Seq(Waiter) /\ Len(waiters') = Len(waiters) - 1
        /\ handle' \in [Client -> {"none", "queued", "held", "released"}]
        /\ lowAcc' \in 0..99 /\ bypassed' \in Nat /\ ShareInv'
        /\ PermitConservation'
        /\ QueueSorted'
    BY <1>1, <1>2, <1>4, <2>1, <2>2, GrantNextProperties
  <2>4. TypeOK'
    BY <1>1, <2>1, <2>2, <2>3, PermitsAssumption DEF TypeOK
  <2>5. NoLostWakeup'
    <3>1. inUse >= limit
      BY <1>5, <2>1 DEF HandsOn, IInv, NoLostWakeup
    <3>2. inUse' = inUse /\ limit' = limit
      BY <2>1, <2>2, <2>3 DEF n, TypeOK
    <3> QED BY <3>1, <3>2 DEF NoLostWakeup
  <2> QED BY <2>1, <2>3, <2>4, <2>5 DEF IInv, LoopInv
<1>6. CASE ~HandsOn(n)
  <2>1. /\ inUse' = n /\ handle' = h
        /\ UNCHANGED <<waiters, lowAcc, bypassed, limit, granting>> /\ ~granting
    BY <1>6 DEF Release
  <2>2. Holders' = {d \in Client : h[d] = "held"}
    BY <2>1 DEF Holders
  <2>3. PermitConservation'
    BY <2>1, <2>2, <1>1, <1>4 DEF PermitConservation, QueueMatches
  <2>4. NoLostWakeup'
    <3>1. waiters' # <<>> => n >= limit
      BY <1>1, <1>6, <2>1 DEF HandsOn, IInv, TypeOK
    <3> QED BY <3>1, <2>1 DEF NoLostWakeup
  <2>5. TypeOK'
    BY <2>1, <1>1, <1>2 DEF IInv, TypeOK
  <2> QED BY <2>1, <2>3, <2>4, <2>5 DEF IInv, QueueSorted, ShareInv, LoopInv
<1> QED BY <1>5, <1>6

\* throttleTo sets the ceiling.
LEMMA ThrottleInv ==
  ASSUME IInv, NEW n \in ThrottleTo, Throttle(n)
  PROVE  IInv'
<1>1. n \in Nat /\ Clamp(n) \in 1..MaxPermits
  BY ThrottleAssumption, PermitsAssumption DEF Clamp
<1>2. TypeOK'
  BY <1>1 DEF IInv, TypeOK, Throttle
<1>3. NoLostWakeup' /\ LoopInv'
  <2>1. CASE inUse < Clamp(n) /\ waiters # <<>>
    <3>1. granting' = TRUE
      BY <2>1 DEF Throttle
    <3> QED BY <3>1, <2>1 DEF Throttle, NoLostWakeup, LoopInv
  <2>2. CASE ~(inUse < Clamp(n) /\ waiters # <<>>)
    <3>1. granting' = FALSE
      BY <2>2 DEF Throttle
    <3>2. waiters' # <<>> => inUse' >= limit'
      BY <2>2, <1>1 DEF IInv, TypeOK, Throttle
    <3> QED BY <3>1, <3>2 DEF NoLostWakeup, LoopInv
  <2> QED BY <2>1, <2>2
<1> QED BY <1>2, <1>3 DEF IInv, Throttle, PermitConservation, Holders, QueueSorted, ShareInv

\* One turn of throttleTo's loop grants to one waiter.
LEMMA GrantLoopInv ==
  ASSUME IInv, GrantLoop
  PROVE  IInv'
<1>1. /\ GrantNext(inUse, handle) /\ inUse < limit /\ waiters # <<>> /\ limit' = limit
      /\ granting' = (inUse + 1 < limit /\ Len(waiters) > 1)
  BY DEF GrantLoop, IInv, LoopInv
<1>2. TypeOK /\ QueueSorted /\ ShareInv
  BY DEF IInv
<1>3. /\ inUse \in 0..MaxPermits
      /\ handle \in [Client -> {"none", "queued", "held", "released"}]
      /\ inUse = Cardinality({d \in Client : handle[d] = "held"})
      /\ QueueMatches(handle)
  BY DEF IInv, TypeOK, PermitConservation, Holders, QueueMatches
<1>4. /\ inUse' = inUse + 1
      /\ waiters' \in Seq(Waiter) /\ Len(waiters') = Len(waiters) - 1
      /\ handle' \in [Client -> {"none", "queued", "held", "released"}]
      /\ lowAcc' \in 0..99 /\ bypassed' \in Nat /\ ShareInv'
      /\ PermitConservation'
      /\ QueueSorted'
  BY <1>1, <1>2, <1>3, GrantNextProperties
<1>5. TypeOK'
  BY <1>1, <1>2, <1>4, PermitsAssumption DEF TypeOK
<1>6. Len(waiters) \in Nat /\ (waiters' # <<>> <=> Len(waiters') # 0)
  BY <1>2, <1>4, LenProperties, EmptySeq DEF TypeOK
<1>7. NoLostWakeup' /\ LoopInv'
  <2>1. CASE inUse + 1 < limit /\ Len(waiters) > 1
    <3>1. granting' = TRUE
      BY <2>1, <1>1
    <3>2. inUse' < limit' /\ waiters' # <<>>
      BY <2>1, <1>1, <1>4, <1>6
    <3> QED BY <3>1, <3>2 DEF NoLostWakeup, LoopInv
  <2>2. CASE ~(inUse + 1 < limit /\ Len(waiters) > 1)
    <3>1. granting' = FALSE
      BY <2>2, <1>1
    <3>2. waiters' # <<>> => inUse' >= limit'
      BY <2>2, <1>1, <1>2, <1>4, <1>6 DEF TypeOK
    <3> QED BY <3>1, <3>2 DEF NoLostWakeup, LoopInv
  <2> QED BY <2>1, <2>2
<1> QED BY <1>4, <1>5, <1>7 DEF IInv

\* Every step keeps the inductive invariant.
LEMMA StepInv == IInv /\ [Next]_vars => IInv'
<1> SUFFICES ASSUME IInv, [Next]_vars PROVE IInv'
  OBVIOUS
<1>1. CASE UNCHANGED vars
  BY <1>1 DEF vars, IInv, TypeOK, PermitConservation, Holders, NoLostWakeup, QueueSorted, ShareInv, LoopInv
<1>2. ASSUME NEW c \in Client, AcquireNow(c) PROVE IInv'
  BY <1>2, AcquireNowInv
<1>3. ASSUME NEW c \in Client, Abort(c) PROVE IInv'
  BY <1>3, AbortInv
<1>4. ASSUME NEW c \in Client, Release(c) PROVE IInv'
  BY <1>4, ReleaseInv
<1>5. ASSUME NEW c \in Client, NEW p \in Priority, AcquireQueued(c, p) PROVE IInv'
  BY <1>5, AcquireQueuedInv
<1>6. ASSUME NEW n \in ThrottleTo, Throttle(n) PROVE IInv'
  BY <1>6, ThrottleInv
<1>7. CASE GrantLoop
  BY <1>7, GrantLoopInv
<1> QED BY <1>1, <1>2, <1>3, <1>4, <1>5, <1>6, <1>7 DEF Next

--------------------------------------------------------------------------------
(* The theorems *)

\* The inductive invariant holds of every behaviour.
THEOREM Invariance == Spec => []IInv
BY InitInv, StepInv, PTL DEF Spec

\* The state is well typed (in particular inUse never exceeds the hard capacity)
\* and permits are conserved: inUse counts the live release handles and the
\* queue lists exactly the waiting callers.
THEOREM PermitsHold == Spec => []PermitsSound
<1>1. IInv => PermitsSound
  BY DEF IInv, PermitsSound
<1> QED BY <1>1, Invariance, PTL

\* No wakeup is lost: while someone waits every permit under the ceiling is out.
THEOREM NoWakeupLost == Spec => []NoLostWakeup
<1>1. IInv => NoLostWakeup
  BY DEF IInv
<1> QED BY <1>1, Invariance, PTL

\* The High/Low share is kept grant by grant.
THEOREM ShareKept == Spec => []BypassBound
<1>1. IInv => BypassBound
  BY OddsAssumption DEF IInv, TypeOK, ShareInv, BypassBound
<1> QED BY <1>1, Invariance, PTL

\* No step hands out a permit beyond the ceiling then in force.
THEOREM CeilingHolds == Spec => GrantsWithinCeiling
<1> DEFINE Grants == inUse' > inUse \/ Holders' \ Holders # {} => inUse' <= limit'
<1>1. IInv /\ IInv' /\ [Next]_vars => [Grants]_vars
  <2> SUFFICES ASSUME IInv, IInv', Next PROVE Grants
    OBVIOUS
  <2> USE DEF IInv, TypeOK
  <2>1. ASSUME NEW c \in Client, AcquireNow(c) PROVE Grants
    BY <2>1 DEF AcquireNow
  <2>2. ASSUME NEW c \in Client, Abort(c) PROVE Grants
    BY <2>2 DEF Abort, Holders
  <2>3. ASSUME NEW c \in Client, Release(c) PROVE Grants
    <3>1. CASE HandsOn(inUse - 1)
      <4>1. inUse' = (inUse - 1) + 1 /\ limit' = limit /\ inUse - 1 < limit
        BY <2>3, <3>1 DEF Release, HandsOn, GrantNext
      <4> QED BY <4>1
    <3>2. CASE ~HandsOn(inUse - 1)
      BY <2>3, <3>2 DEF Release, Holders
    <3> QED BY <3>1, <3>2
  <2>4. ASSUME NEW c \in Client, NEW p \in Priority, AcquireQueued(c, p) PROVE Grants
    BY <2>4 DEF AcquireQueued, Holders
  <2>5. ASSUME NEW n \in ThrottleTo, Throttle(n) PROVE Grants
    BY <2>5 DEF Throttle, Holders
  <2>6. CASE GrantLoop
    <3>1. inUse' = inUse + 1 /\ limit' = limit /\ inUse < limit
      BY <2>6 DEF GrantLoop, GrantNext, LoopInv
    <3> QED BY <3>1
  <2> QED BY <2>1, <2>2, <2>3, <2>4, <2>5, <2>6 DEF Next
<1>2. Spec => [][Grants]_vars
  BY <1>1, Invariance, PTL DEF Spec
<1> QED BY <1>2 DEF GrantsWithinCeiling

--------------------------------------------------------------------------------
(* The refinement: a class is a block of the sorted queue, between its     *)
(* bounds a and b, and a step of the semaphore is a step of ClassQueues.   *)

Positions(w, p) == {i \in DOMAIN w : w[i].prio = p}
ClassOf(w, p) ==
  LET Nth(k) == CHOOSE i \in Positions(w, p) : Cardinality({j \in Positions(w, p) : j < i}) = k - 1
  IN  [k \in 1..Cardinality(Positions(w, p)) |-> w[Nth(k)].client]

Sorted(w) == \A i, j \in DOMAIN w : i < j => w[i].prio <= w[j].prio

Block(w, p, a, b) ==
  /\ a \in Nat /\ b \in Nat /\ a <= b /\ b <= Len(w)
  /\ \A i \in 1..Len(w) : (w[i].prio < p <=> i <= a) /\ (w[i].prio > p <=> b < i)

\* What is known of the entries of a queue.
LEMMA WaiterTypes ==
  ASSUME NEW w \in Seq(Waiter)
  PROVE  /\ Len(w) \in Nat /\ DOMAIN w = 1..Len(w)
         /\ \A i \in 1..Len(w) : w[i] \in Waiter /\ w[i].prio \in Nat /\ w[i].prio \in Priority /\ w[i].client \in Client
<1>1. \A i \in 1..Len(w) : w[i] \in Waiter
  BY ElementOfSeq
<1> QED BY <1>1, LenProperties DEF Waiter, Priority, High, Low, Idle

\* What lies in the block is the class, in order.
LEMMA BlockIsClass ==
  ASSUME NEW w \in Seq(Waiter), NEW p \in Priority, NEW a, NEW b, Block(w, p, a, b)
  PROVE  ClassOf(w, p) = [k \in 1..(b - a) |-> w[a + k].client]
<1> DEFINE P == Positions(w, p)
           Nth(k) == CHOOSE i \in P : Cardinality({j \in P : j < i}) = k - 1
<1>1. a \in Nat /\ b \in Nat /\ a <= b /\ b <= Len(w) /\ Len(w) \in Nat /\ DOMAIN w = 1..Len(w)
  BY LenProperties DEF Block
<1>2. P = (a + 1)..b
  <2>1. p \in Nat
    BY DEF Priority, High, Low, Idle
  <2>2. \A i \in 1..Len(w) : w[i].prio = p <=> a < i /\ i <= b
    BY <1>1, <2>1, WaiterTypes DEF Block
  <2> QED BY <1>1, <2>2 DEF Positions
<1>3. Cardinality(P) = b - a
  <2>1. Cardinality((a + 1)..b) = IF a + 1 > b THEN 0 ELSE b - (a + 1) + 1
    BY <1>1, FS_Interval
  <2>2. (IF a + 1 > b THEN 0 ELSE b - (a + 1) + 1) = b - a
    BY <1>1
  <2> QED BY <2>1, <2>2, <1>2, Zenon
<1> HIDE DEF P
<1>4. ASSUME NEW k \in 1..(b - a)
      PROVE  Nth(k) = a + k
  <2>1. ASSUME NEW i \in P PROVE Cardinality({j \in P : j < i}) = i - 1 - a
    <3>1. {j \in P : j < i} = (a + 1)..(i - 1) /\ i \in Nat /\ a < i
      BY <1>1, <1>2
    <3>2. Cardinality((a + 1)..(i - 1)) = IF a + 1 > i - 1 THEN 0 ELSE (i - 1) - (a + 1) + 1
      <4>1. a + 1 \in Int /\ i - 1 \in Int
        BY <3>1, <1>1
      <4> QED BY <4>1, FS_Interval
    <3>3. (IF a + 1 > i - 1 THEN 0 ELSE (i - 1) - (a + 1) + 1) = i - 1 - a
      BY <3>1, <1>1
    <3> QED BY <3>1, <3>2, <3>3, Zenon
  <2>2. a + k \in P /\ \A i \in P : i \in Nat
    BY <1>1, <1>2
  <2>3. \A i \in P : Cardinality({j \in P : j < i}) = k - 1 <=> i = a + k
    BY <1>1, <2>1, <2>2
  <2> QED BY <2>2, <2>3, Zenon
<1>5. [k \in 1..(b - a) |-> w[Nth(k)].client] = [k \in 1..(b - a) |-> w[a + k].client]
  <2> HIDE DEF Nth
  <2> QED BY <1>4
<1>6. ClassOf(w, p) = [k \in 1..(b - a) |-> w[Nth(k)].client]
  BY <1>3, Zenon DEF ClassOf, P
<1> QED BY <1>5, <1>6, Zenon

\* A sorted queue has a block, perhaps an empty one, for each class.
LEMMA BlockExists ==
  ASSUME NEW w \in Seq(Waiter), Sorted(w), NEW p \in Priority
  PROVE  \E a, b : Block(w, p, a, b)
<1>1. /\ Len(w) \in Nat /\ DOMAIN w = 1..Len(w)
      /\ \A i \in 1..Len(w) : w[i].prio \in Nat
  BY WaiterTypes
<1>2. p \in Nat
  BY DEF Priority, High, Low, Idle
<1> DEFINE G == {i \in 1..Len(w) : w[i].prio >= p}
           H == {i \in 1..Len(w) : w[i].prio > p}
<1>3. \A i \in 1..Len(w) : (i \in G <=> w[i].prio >= p) /\ (i \in H <=> w[i].prio > p)
  OBVIOUS
<1> HIDE DEF G, H
<1>4. PICK m \in 1..(Len(w) + 1) : (\A i \in 1..Len(w) : i \in G => m <= i) /\ (m <= Len(w) => m \in G)
  BY <1>1, FirstWith
<1>5. PICK n \in 1..(Len(w) + 1) : (\A i \in 1..Len(w) : i \in H => n <= i) /\ (n <= Len(w) => n \in H)
  BY <1>1, FirstWith
<1>6. \A i, j \in 1..Len(w) : i <= j => w[i].prio <= w[j].prio
  BY <1>1 DEF Sorted
<1>7. \A i \in 1..Len(w) : w[i].prio < p <=> i <= m - 1
  <2> SUFFICES ASSUME NEW i \in 1..Len(w) PROVE w[i].prio < p <=> i <= m - 1
    OBVIOUS
  <2>1. CASE m <= i
    <3>1. m \in 1..Len(w) /\ w[m].prio >= p /\ w[m].prio <= w[i].prio
      BY <2>1, <1>1, <1>3, <1>4, <1>6
    <3> QED BY <3>1, <2>1, <1>1, <1>2
  <2>2. CASE i < m
    BY <2>2, <1>1, <1>2, <1>3, <1>4
  <2> QED BY <2>1, <2>2, <1>1
<1>8. \A i \in 1..Len(w) : w[i].prio > p <=> n - 1 < i
  <2> SUFFICES ASSUME NEW i \in 1..Len(w) PROVE w[i].prio > p <=> n - 1 < i
    OBVIOUS
  <2>1. CASE n <= i
    <3>1. n \in 1..Len(w) /\ w[n].prio > p /\ w[n].prio <= w[i].prio
      BY <2>1, <1>1, <1>3, <1>5, <1>6
    <3> QED BY <3>1, <2>1, <1>1, <1>2
  <2>2. CASE i < n
    BY <2>2, <1>1, <1>2, <1>3, <1>5
  <2> QED BY <2>1, <2>2, <1>1
<1>9. m <= n
  <2>1. n <= Len(w) => w[n].prio >= p
    BY <1>1, <1>2, <1>3, <1>5
  <2> QED BY <2>1, <1>1, <1>3, <1>4, <1>5
<1>10. Block(w, p, m - 1, n - 1)
  BY <1>1, <1>7, <1>8, <1>9 DEF Block
<1> QED BY <1>10

\* Who enters behind the last of its class and before the later ones is appended
\* to its class, and the other classes are as they were.
LEMMA EnterClass ==
  ASSUME NEW w \in Seq(Waiter), Sorted(w), NEW e \in Waiter, NEW i \in 1..(Len(w) + 1),
         \A j \in 1..(i - 1) : w[j].prio <= e.prio,
         i <= Len(w) => w[i].prio > e.prio,
         NEW q \in Priority
  PROVE  ClassOf(InsertAt(w, i, e), q) = IF q = e.prio THEN Append(ClassOf(w, q), e.client) ELSE ClassOf(w, q)
<1> DEFINE v == InsertAt(w, i, e)
           n == Len(w)
           p == e.prio
<1>1. /\ n \in Nat /\ DOMAIN w = 1..n /\ \A j \in 1..n : w[j].prio \in Nat /\ w[j].client \in Client
      /\ p \in Nat /\ p \in Priority /\ q \in Nat /\ i \in Nat /\ e.client \in Client
  <2>1. p \in Priority /\ e.client \in Client
    BY DEF Waiter
  <2>2. p \in Nat /\ q \in Nat
    BY <2>1 DEF Priority, High, Low, Idle
  <2>3. n \in Nat /\ DOMAIN w = 1..n /\ \A j \in 1..n : w[j].prio \in Nat /\ w[j].client \in Client
    BY WaiterTypes
  <2> QED BY <2>1, <2>2, <2>3
<1>2. /\ v \in Seq(Waiter) /\ Len(v) = n + 1
      /\ \A j \in 1..(n + 1) : v[j] = IF j < i THEN w[j] ELSE IF j = i THEN e ELSE w[j - 1]
  BY InsertAtProperties
<1>3. PICK a, b : Block(w, q, a, b)
  BY BlockExists
<1>4. /\ a \in Nat /\ b \in Nat /\ a <= b /\ b <= n
      /\ \A j \in 1..n : (w[j].prio < q <=> j <= a) /\ (w[j].prio > q <=> b < j)
  BY <1>3 DEF Block
<1>5. ClassOf(w, q) = [k \in 1..(b - a) |-> w[a + k].client]
  BY <1>3, BlockIsClass
<1>6. \A j \in 1..n : (j < i => w[j].prio <= p) /\ (i <= j => w[j].prio > p)
  <2> SUFFICES ASSUME NEW j \in 1..n PROVE (j < i => w[j].prio <= p) /\ (i <= j => w[j].prio > p)
    OBVIOUS
  <2>1. i < j => w[i].prio <= w[j].prio
    BY <1>1 DEF Sorted
  <2> QED BY <2>1, <1>1
<1>7. \A j \in 1..(n + 1) : /\ j < i => j \in 1..n /\ v[j] = w[j]
                            /\ j = i => v[j] = e
                            /\ i < j => j - 1 \in 1..n /\ v[j] = w[j - 1] /\ i <= j - 1
  BY <1>1, <1>2
<1> HIDE DEF v, n, p
<1>8. CASE q = p
  <2>1. i = b + 1
    <3>1. i - 1 <= b
      <4> SUFFICES ASSUME b < i - 1 PROVE FALSE
        BY <1>1, <1>4
      <4>1. i - 1 \in 1..n /\ i - 1 < i
        BY <1>1, <1>4
      <4>2. w[i - 1].prio > q /\ w[i - 1].prio <= p /\ w[i - 1].prio \in Nat
        BY <4>1, <1>1, <1>4, <1>6
      <4> QED BY <4>2, <1>1, <1>8
    <3>2. b < i
      BY <1>1, <1>4, <1>6, <1>8
    <3>3. i \in Nat /\ b \in Nat
      BY <1>1, <1>4
    <3> QED BY <3>1, <3>2, <3>3
  <2>2. Block(v, q, a, b + 1)
    <3>1. ASSUME NEW j \in 1..(n + 1)
          PROVE  (v[j].prio < q <=> j <= a) /\ (v[j].prio > q <=> b + 1 < j)
      BY <2>1, <1>1, <1>4, <1>7, <1>8, SMTT(30) DEF p
    <3> QED BY <3>1, <1>1, <1>2, <1>4 DEF Block
  <2>3. ClassOf(v, q) = [k \in 1..((b + 1) - a) |-> v[a + k].client]
    BY <2>2, <1>2, BlockIsClass
  <2>4. \A k \in 1..(b - a) : a + k \in 1..n /\ v[a + k] = w[a + k] /\ w[a + k].client \in Client
    BY <2>1, <1>1, <1>4, <1>7
  <2>5. v[b + 1] = e /\ a + ((b + 1) - a) = b + 1 /\ (b + 1) - a = (b - a) + 1
    BY <2>1, <1>1, <1>4, <1>7
  <2>6. [k \in 1..(b - a) |-> w[a + k].client] \in Seq(Client)
    <3> DEFINE m == b - a
               c == [k \in 1..m |-> w[a + k].client]
    <3>1. m \in Nat
      BY <1>4
    <3>2. c \in [1..m -> Client]
      BY <2>4
    <3> HIDE DEF m, c
    <3>3. c \in Seq(Client)
      BY <3>1, <3>2
    <3> QED BY <3>3 DEF m, c
  <2>7. [k \in 1..((b + 1) - a) |-> v[a + k].client] = Append([k \in 1..(b - a) |-> w[a + k].client], e.client)
    <3> DEFINE x == [k \in 1..((b + 1) - a) |-> v[a + k].client]
               y == [k \in 1..(b - a) |-> w[a + k].client]
    <3>1. y \in Seq(Client) /\ Len(y) = b - a /\ DOMAIN y = 1..(b - a)
      BY <2>6, <1>4
    <3>2. /\ Append(y, e.client) \in Seq(Client) /\ Len(Append(y, e.client)) = (b + 1) - a
          /\ \A k \in 1..(b - a) : Append(y, e.client)[k] = y[k]
          /\ Append(y, e.client)[(b + 1) - a] = e.client
      BY <3>1, <1>1, <1>4, <2>5
    <3>3. \A k \in 1..((b + 1) - a) : k \in 1..(b - a) \/ k = (b + 1) - a
      BY <1>4
    <3>4. \A k \in 1..((b + 1) - a) : x[k] = Append(y, e.client)[k]
      BY <3>2, <3>3, <2>4, <2>5
    <3>5. x \in Seq(Client) /\ Len(x) = (b + 1) - a
      <4>1. \A k \in 1..((b + 1) - a) : v[a + k].client \in Client
        BY <3>3, <2>4, <2>5, <1>1
      <4>2. (b + 1) - a \in Nat
        BY <1>4
      <4> QED BY <4>1, <4>2
    <3> HIDE DEF x, y
    <3> QED BY <3>2, <3>4, <3>5, SeqEqual DEF x, y
  <2> QED BY <2>3, <2>7, <1>5, <1>8 DEF v, p
<1>9. CASE q < p
  <2>1. b < i
    BY <1>1, <1>4, <1>6, <1>9
  <2>2. Block(v, q, a, b)
    <3>1. ASSUME NEW j \in 1..(n + 1)
          PROVE  (v[j].prio < q <=> j <= a) /\ (v[j].prio > q <=> b < j)
      <4>1. CASE j < i
        BY <4>1, <1>4, <1>7
      <4>2. CASE j = i
        <5>1. v[j].prio = p
          BY <4>2, <1>7 DEF p
        <5> QED BY <5>1, <4>2, <2>1, <1>1, <1>4, <1>9
      <4>3. CASE i < j
        <5>1. v[j] = w[j - 1] /\ j - 1 \in 1..n /\ i <= j - 1
          BY <4>3, <1>7
        <5>2. b < j - 1 /\ w[j - 1].prio > q /\ w[j - 1].prio \in Nat
          <6>1. b < j - 1
            BY <5>1, <2>1, <1>1, <1>4
          <6> QED BY <6>1, <5>1, <1>1, <1>4
        <5>3. ~(j - 1 <= a) /\ w[j - 1].prio >= q
          BY <5>2, <1>1, <1>4
        <5> QED BY <5>1, <5>2, <5>3, <1>1, <1>4
      <4> QED BY <4>1, <4>2, <4>3, <1>1
    <3> QED BY <3>1, <1>1, <1>2, <1>4 DEF Block
  <2>3. ClassOf(v, q) = [k \in 1..(b - a) |-> v[a + k].client]
    BY <2>2, <1>2, BlockIsClass
  <2>4. \A k \in 1..(b - a) : v[a + k] = w[a + k]
    BY <2>1, <1>1, <1>4, <1>7
  <2>5. ClassOf(v, q) = ClassOf(w, q)
    BY <2>3, <2>4, <1>5
  <2>6. q # p
    BY <1>1, <1>9
  <2> QED BY <2>5, <2>6, Zenon DEF v, p
<1>10. CASE q > p
  <2>1. i - 1 <= a
    BY <1>1, <1>4, <1>6, <1>10, SMTT(30)
  <2>2. Block(v, q, a + 1, b + 1)
    <3>1. ASSUME NEW j \in 1..(n + 1)
          PROVE  (v[j].prio < q <=> j <= a + 1) /\ (v[j].prio > q <=> b + 1 < j)
      <4>1. CASE j < i
        <5>1. j \in 1..n /\ v[j] = w[j]
          BY <4>1, <1>7
        <5> QED BY <4>1, <5>1, <2>1, <1>1, <1>4
      <4>2. CASE j = i
        <5>1. v[j].prio = p
          BY <4>2, <1>7 DEF p
        <5> QED BY <4>2, <5>1, <2>1, <1>1, <1>4, <1>10
      <4>3. CASE i < j
        <5>1. j - 1 \in 1..n /\ v[j] = w[j - 1]
          BY <4>3, <1>7
        <5>2. w[j - 1].prio \in Nat /\ (w[j - 1].prio < q <=> j - 1 <= a) /\ (w[j - 1].prio > q <=> b < j - 1)
          BY <5>1, <1>1, <1>4
        <5>3. j \in Nat /\ a \in Nat /\ b \in Nat
          BY <1>1, <1>4
        <5> QED BY <5>1, <5>2, <5>3
      <4> QED BY <4>1, <4>2, <4>3, <1>1
    <3> QED BY <3>1, <1>1, <1>2, <1>4 DEF Block
  <2>3. ClassOf(v, q) = [k \in 1..((b + 1) - (a + 1)) |-> v[(a + 1) + k].client]
    BY <2>2, <1>2, BlockIsClass
  <2>4. (b + 1) - (a + 1) = b - a /\ \A k \in 1..(b - a) : v[(a + 1) + k] = w[a + k]
    <3> SUFFICES ASSUME NEW k \in 1..(b - a) PROVE v[(a + 1) + k] = w[a + k]
      BY <1>4
    <3>1. (a + 1) + k \in 1..(n + 1) /\ i < (a + 1) + k /\ ((a + 1) + k) - 1 = a + k
      BY <2>1, <1>1, <1>4
    <3> QED BY <3>1, <1>7
  <2>5. ClassOf(v, q) = ClassOf(w, q)
    BY <2>3, <2>4, <1>5
  <2>6. q # p
    BY <1>1, <1>10
  <2> QED BY <2>5, <2>6, Zenon DEF v, p
<1> QED BY <1>1, <1>8, <1>9, <1>10 DEF p

\* Who leaves the queue leaves its class, where it stood `a` positions earlier,
\* and the other classes are as they were.
LEMMA LeaveClass ==
  ASSUME NEW w \in Seq(Waiter), Sorted(w), NEW i \in 1..Len(w), NEW q \in Priority
  PROVE  /\ q # w[i].prio => ClassOf(RemoveAt(w, i), q) = ClassOf(w, q)
         /\ q = w[i].prio =>
              \E a, b : /\ Block(w, q, a, b) /\ i - a \in 1..(b - a)
                        /\ ClassOf(w, q) = [k \in 1..(b - a) |-> w[a + k].client]
                        /\ ClassOf(w, q) \in Seq(Client) /\ Len(ClassOf(w, q)) = b - a
                        /\ ClassOf(w, q)[i - a] = w[i].client
                        /\ ClassOf(RemoveAt(w, i), q) = RemoveAt(ClassOf(w, q), i - a)
<1> DEFINE v == RemoveAt(w, i)
           n == Len(w)
           p == w[i].prio
<1>1. /\ n \in Nat /\ DOMAIN w = 1..n /\ \A j \in 1..n : w[j].prio \in Nat /\ w[j].client \in Client
      /\ p \in Nat /\ q \in Nat /\ i \in Nat /\ i \in 1..n
  BY WaiterTypes DEF Priority, High, Low, Idle
<1>2. /\ v \in Seq(Waiter) /\ Len(v) = n - 1
      /\ \A j \in 1..(n - 1) : v[j] = IF j < i THEN w[j] ELSE w[j + 1]
  BY RemoveAtProperties
<1>3. PICK a, b : Block(w, q, a, b)
  BY BlockExists
<1>4. /\ a \in Nat /\ b \in Nat /\ a <= b /\ b <= n
      /\ \A j \in 1..n : (w[j].prio < q <=> j <= a) /\ (w[j].prio > q <=> b < j)
  BY <1>3 DEF Block
<1>5. ClassOf(w, q) = [k \in 1..(b - a) |-> w[a + k].client]
  BY <1>3, BlockIsClass
<1>6. \A j \in 1..(n - 1) : /\ j < i => j \in 1..n /\ v[j] = w[j]
                            /\ i <= j => j + 1 \in 1..n /\ v[j] = w[j + 1]
  BY <1>1, <1>2
<1> HIDE DEF v, n, p
<1>7. CASE q = p
  <2>1. a < i /\ i <= b
    BY <1>1, <1>4, <1>7 DEF p
  <2>2. Block(v, q, a, b - 1)
    <3>1. ASSUME NEW j \in 1..(n - 1)
          PROVE  (v[j].prio < q <=> j <= a) /\ (v[j].prio > q <=> b - 1 < j)
      <4>1. CASE j < i
        <5>1. j \in 1..n /\ v[j] = w[j]
          BY <4>1, <1>6
        <5> QED BY <4>1, <5>1, <2>1, <1>1, <1>4
      <4>2. CASE i <= j
        <5>1. j + 1 \in 1..n /\ v[j] = w[j + 1]
          BY <4>2, <1>6
        <5> QED BY <4>2, <5>1, <2>1, <1>1, <1>4
      <4> QED BY <4>1, <4>2, <1>1
    <3> QED BY <2>1, <3>1, <1>1, <1>2, <1>4 DEF Block
  <2>3. ClassOf(v, q) = [k \in 1..((b - 1) - a) |-> v[a + k].client]
    BY <2>2, <1>2, BlockIsClass
  <2> DEFINE y == [k \in 1..(b - a) |-> w[a + k].client]
             x == [k \in 1..((b - 1) - a) |-> v[a + k].client]
             m == i - a
  <2>4. y \in Seq(Client) /\ Len(y) = b - a /\ DOMAIN y = 1..(b - a) /\ m \in 1..(b - a) /\ y[m] = w[i].client
    <3>1. \A k \in 1..(b - a) : w[a + k].client \in Client
      BY <1>1, <1>4
    <3>2. y \in Seq(Client)
      BY <3>1, <1>4, IsASeq
    <3>3. m \in 1..(b - a) /\ a + m = i
      BY <2>1, <1>1, <1>4
    <3> QED BY <3>2, <3>3, <1>4
  <2>5. x = RemoveAt(y, m)
    <3>1. /\ RemoveAt(y, m) \in Seq(Client) /\ Len(RemoveAt(y, m)) = (b - a) - 1
          /\ \A k \in 1..((b - a) - 1) : RemoveAt(y, m)[k] = IF k < m THEN y[k] ELSE y[k + 1]
      <4> HIDE DEF y, m
      <4>1. m \in 1..Len(y)
        BY <2>4
      <4> QED BY <4>1, <2>4, RemoveAtProperties
    <3>2. (b - 1) - a = (b - a) - 1 /\ (b - 1) - a \in Nat
      BY <2>1, <1>1, <1>4
    <3>3. ASSUME NEW k \in 1..((b - 1) - a)
          PROVE  x[k] = RemoveAt(y, m)[k] /\ x[k] \in Client
      <4>1. x[k] = v[a + k].client /\ a + k \in 1..(n - 1) /\ k \in 1..((b - a) - 1) /\ k \in 1..(b - a) /\ k + 1 \in 1..(b - a)
        BY <1>1, <1>4, <3>2
      <4>2. CASE k < m
        <5>1. v[a + k] = w[a + k]
          <6>1. a + k < i
            BY <4>1, <4>2, <1>1, <1>4, <1>6 DEF m
          <6> QED BY <4>1, <6>1, <1>6
        <5>2. y[k] = w[a + k].client /\ RemoveAt(y, m)[k] = y[k]
          <6> HIDE DEF m
          <6> QED BY <4>1, <4>2, <3>1
        <5>3. y[k] \in Client
          <6> HIDE DEF y
          <6> QED BY <4>1, <2>4, ElementOfSeq
        <5> QED BY <5>1, <5>2, <5>3, <4>1
      <4>3. CASE ~(k < m)
        <5>1. i <= a + k /\ a + (k + 1) = (a + k) + 1
          <6>1. k \in Nat
            BY <3>2
          <6> QED BY <6>1, <4>3, <1>1, <1>4
        <5>2. v[a + k] = w[(a + k) + 1] /\ w[(a + k) + 1].client \in Client
          BY <4>1, <5>1, <1>1, <1>6
        <5>3. y[k + 1] = w[(a + k) + 1].client
          BY <4>1, <5>1
        <5> QED BY <5>2, <5>3, <4>1, <4>3, <3>1
      <4> QED BY <4>2, <4>3
    <3>4. x \in Seq(Client) /\ Len(x) = (b - a) - 1
      <4>1. \A k \in 1..((b - 1) - a) : v[a + k].client \in Client
        BY <3>3
      <4> QED BY <4>1, <3>2, IsASeq
    <3> HIDE DEF x, y, m
    <3> QED BY <3>1, <3>2, <3>3, <3>4, SeqEqual
  <2>6. ClassOf(v, q) = RemoveAt(ClassOf(w, q), m) /\ ClassOf(w, q) = y
    BY <2>3, <2>5, <1>5
  <2>7. /\ Block(w, q, a, b) /\ i - a \in 1..(b - a)
        /\ ClassOf(w, q) = [k \in 1..(b - a) |-> w[a + k].client]
        /\ ClassOf(w, q) \in Seq(Client) /\ Len(ClassOf(w, q)) = b - a
        /\ ClassOf(w, q)[i - a] = w[i].client
        /\ ClassOf(RemoveAt(w, i), q) = RemoveAt(ClassOf(w, q), i - a)
    <3>1. /\ ClassOf(w, q) \in Seq(Client) /\ Len(ClassOf(w, q)) = b - a
          /\ ClassOf(w, q)[i - a] = w[i].client /\ i - a \in 1..(b - a)
      <4> HIDE DEF y
      <4> QED BY <2>4, <2>6
    <3> QED BY <3>1, <2>6, <1>3, <1>5 DEF v
  <2> QED BY <2>7, <1>7 DEF p
<1>8. CASE q < p
  <2>1. b < i
    BY <1>1, <1>4, <1>8 DEF p
  <2>2. Block(v, q, a, b)
    <3>1. ASSUME NEW j \in 1..(n - 1)
          PROVE  (v[j].prio < q <=> j <= a) /\ (v[j].prio > q <=> b < j)
      BY <2>1, <1>1, <1>4, <1>6, SMTT(30)
    <3> QED BY <2>1, <3>1, <1>1, <1>2, <1>4 DEF Block
  <2>3. ClassOf(v, q) = [k \in 1..(b - a) |-> v[a + k].client]
    BY <2>2, <1>2, BlockIsClass
  <2>4. \A k \in 1..(b - a) : v[a + k] = w[a + k]
    BY <2>1, <1>1, <1>4, <1>6
  <2> QED BY <2>3, <2>4, <1>1, <1>5, <1>8 DEF v, p
<1>9. CASE q > p
  <2>1. i <= a
    BY <1>1, <1>4, <1>9 DEF p
  <2>2. Block(v, q, a - 1, b - 1)
    <3>1. ASSUME NEW j \in 1..(n - 1)
          PROVE  (v[j].prio < q <=> j <= a - 1) /\ (v[j].prio > q <=> b - 1 < j)
      BY <2>1, <1>1, <1>4, <1>6
    <3> QED BY <2>1, <3>1, <1>1, <1>2, <1>4 DEF Block
  <2>3. ClassOf(v, q) = [k \in 1..((b - 1) - (a - 1)) |-> v[(a - 1) + k].client]
    BY <2>2, <1>2, BlockIsClass
  <2>4. (b - 1) - (a - 1) = b - a /\ \A k \in 1..(b - a) : v[(a - 1) + k] = w[a + k]
    <3> SUFFICES ASSUME NEW k \in 1..(b - a) PROVE v[(a - 1) + k] = w[a + k]
      BY <1>4
    <3>1. (a - 1) + k \in 1..(n - 1) /\ i <= (a - 1) + k /\ ((a - 1) + k) + 1 = a + k
      BY <2>1, <1>1, <1>4
    <3> QED BY <3>1, <1>6
  <2> QED BY <2>3, <2>4, <1>1, <1>5, <1>9 DEF v, p
<1> QED BY <1>1, <1>7, <1>8, <1>9 DEF p

\* The first of a block is its class's head.
LEMMA HeadRemoved ==
  ASSUME NEW q \in Seq(Client), Len(q) > 0
  PROVE  RemoveAt(q, 1) = Tail(q) /\ q # <<>> /\ Head(q) = q[1]
<1>1. /\ Len(q) \in Nat /\ q # <<>> /\ Head(q) = q[1]
      /\ Tail(q) \in Seq(Client) /\ Len(Tail(q)) = Len(q) - 1
      /\ \A j \in 1..(Len(q) - 1) : Tail(q)[j] = q[j + 1]
  OBVIOUS
<1>2. /\ RemoveAt(q, 1) \in Seq(Client) /\ Len(RemoveAt(q, 1)) = Len(q) - 1
      /\ \A j \in 1..(Len(q) - 1) : RemoveAt(q, 1)[j] = q[j + 1]
  <2>1. 1 \in 1..Len(q) /\ \A j \in 1..(Len(q) - 1) : ~(j < 1)
    BY <1>1
  <2>2. /\ RemoveAt(q, 1) \in Seq(Client) /\ Len(RemoveAt(q, 1)) = Len(q) - 1
        /\ \A j \in 1..(Len(q) - 1) : RemoveAt(q, 1)[j] = IF j < 1 THEN q[j] ELSE q[j + 1]
    BY <2>1, RemoveAtProperties
  <2> QED BY <2>1, <2>2
<1> QED BY <1>1, <1>2, SeqEqual

\* The classes hold the waiters, all of them and nobody else.
LEMMA ClassMembers ==
  ASSUME NEW w \in Seq(Waiter), Sorted(w)
  PROVE  /\ \A i \in 1..Len(w) : \E k \in DOMAIN ClassOf(w, w[i].prio) : ClassOf(w, w[i].prio)[k] = w[i].client
         /\ \A q \in Priority : \A k \in DOMAIN ClassOf(w, q) :
              \E i \in 1..Len(w) : w[i].prio = q /\ w[i].client = ClassOf(w, q)[k]
         /\ \A q \in Priority : ClassOf(w, q) # <<>> => \E i \in 1..Len(w) : w[i].prio = q
         /\ \A q \in Priority : ClassOf(w, q) \in Seq(Client)
<1>1. /\ Len(w) \in Nat /\ \A i \in 1..Len(w) : w[i].prio \in Nat /\ w[i].prio \in Priority
  BY WaiterTypes
<1>2. ASSUME NEW i \in 1..Len(w)
      PROVE  \E k \in DOMAIN ClassOf(w, w[i].prio) : ClassOf(w, w[i].prio)[k] = w[i].client
  <2> DEFINE q == w[i].prio
  <2>1. PICK a, b : /\ i - a \in 1..(b - a) /\ ClassOf(w, q) \in Seq(Client) /\ Len(ClassOf(w, q)) = b - a
                    /\ ClassOf(w, q)[i - a] = w[i].client
    <3>1. q \in Priority
      BY <1>1
    <3> HIDE DEF q
    <3>2. q = w[i].prio
      BY DEF q
    <3>3. \E a, b : /\ Block(w, q, a, b) /\ i - a \in 1..(b - a)
                    /\ ClassOf(w, q) = [k \in 1..(b - a) |-> w[a + k].client]
                    /\ ClassOf(w, q) \in Seq(Client) /\ Len(ClassOf(w, q)) = b - a
                    /\ ClassOf(w, q)[i - a] = w[i].client
                    /\ ClassOf(RemoveAt(w, i), q) = RemoveAt(ClassOf(w, q), i - a)
      BY <3>1, <3>2, LeaveClass, Zenon
    <3> QED BY <3>3, Zenon
  <2>2. i - a \in DOMAIN ClassOf(w, q)
    BY <2>1
  <2> QED BY <2>1, <2>2
<1>3. ASSUME NEW q \in Priority
      PROVE  /\ \A k \in DOMAIN ClassOf(w, q) :
                  \E i \in 1..Len(w) : w[i].prio = q /\ w[i].client = ClassOf(w, q)[k]
             /\ ClassOf(w, q) \in Seq(Client)
             /\ ClassOf(w, q) # <<>> => \E i \in 1..Len(w) : w[i].prio = q
  <2>1. PICK a, b : Block(w, q, a, b)
    BY BlockExists
  <2>2. ClassOf(w, q) = [k \in 1..(b - a) |-> w[a + k].client]
    BY <2>1, BlockIsClass
  <2>3. \A k \in 1..(b - a) : a + k \in 1..Len(w) /\ w[a + k].prio = q /\ w[a + k].client \in Client
    <3>1. q \in Nat
      BY DEF Priority, High, Low, Idle
    <3>2. \A k \in 1..(b - a) : a + k \in 1..Len(w) /\ w[a + k].client \in Client
      BY <2>1, <1>1, WaiterTypes DEF Block
    <3>3. \A k \in 1..(b - a) : w[a + k].prio = q
      BY <2>1, <3>1, <3>2, <1>1 DEF Block
    <3> QED BY <3>2, <3>3
  <2>4. \A k \in DOMAIN ClassOf(w, q) :
           \E i \in 1..Len(w) : w[i].prio = q /\ w[i].client = ClassOf(w, q)[k]
    <3> SUFFICES ASSUME NEW k \in 1..(b - a)
                 PROVE  \E i \in 1..Len(w) : w[i].prio = q /\ w[i].client = ClassOf(w, q)[k]
      BY <2>2
    <3>1. ClassOf(w, q)[k] = w[a + k].client
      BY <2>2
    <3> QED BY <2>3, <3>1
  <2>5. ClassOf(w, q) \in Seq(Client) /\ Len(ClassOf(w, q)) = b - a
    <3>1. b - a \in Nat
      BY <2>1 DEF Block
    <3>2. ClassOf(w, q) \in [1..(b - a) -> Client]
      BY <2>2, <2>3
    <3> QED BY <3>1, <3>2, IsASeq
  <2>6. ClassOf(w, q) # <<>> => 1 \in DOMAIN ClassOf(w, q)
    BY <2>5
  <2> QED BY <2>4, <2>5, <2>6
<1> QED BY <1>2, <1>3

\* The abstract state, and what the invariant says of it.
Queues == [p \in Priority |-> ClassQueue(p)]

\* The abstract queues are the classes of the real one, before and after a step.
LEMMA QueuesAreClasses ==
  /\ \A p \in Priority : Queues[p] = ClassOf(waiters, p)
  /\ \A p \in Priority : Queues'[p] = ClassOf(waiters', p)
BY DEF Queues, ClassQueue, PositionsOf, ClassOf, Positions

\* What the abstract guards say of the real state.
LEMMA AbstractView ==
  ASSUME IInv
  PROVE  /\ waiters \in Seq(Waiter) /\ Sorted(waiters)
         /\ inUse = Cardinality(Holders) /\ limit \in 1..MaxPermits /\ inUse \in 0..MaxPermits
         /\ \A c \in Client : Abstract!Outside(c) <=> handle[c] \in {"none", "released"}
         /\ \A c \in Client : handle[c] = "queued" => c \notin Holders
         /\ Abstract!NobodyWaits <=> waiters = <<>>
         /\ \A H : Abstract!Room(H) <=> Cardinality(H) < limit
<1>1. waiters \in Seq(Waiter) /\ Sorted(waiters) /\ DOMAIN waiters = 1..Len(waiters)
  BY LenProperties DEF IInv, TypeOK, QueueSorted, Sorted
<1>2. handle \in [Client -> {"none", "queued", "held", "released"}]
  BY DEF IInv, TypeOK
<1>3. \A c \in Client :
        handle[c] = "queued" <=> \E p \in Priority : \E k \in DOMAIN ClassOf(waiters, p) : ClassOf(waiters, p)[k] = c
  <2> SUFFICES ASSUME NEW c \in Client
               PROVE  handle[c] = "queued" <=>
                        \E p \in Priority : \E k \in DOMAIN ClassOf(waiters, p) : ClassOf(waiters, p)[k] = c
    OBVIOUS
  <2>1. handle[c] = "queued" <=> \E i \in 1..Len(waiters) : waiters[i].client = c
    BY <1>1 DEF IInv, PermitConservation
  <2>2. ASSUME NEW i \in 1..Len(waiters), waiters[i].client = c
        PROVE  \E p \in Priority : \E k \in DOMAIN ClassOf(waiters, p) : ClassOf(waiters, p)[k] = c
    BY <2>2, <1>1, ClassMembers, WaiterTypes
  <2>3. ASSUME NEW p \in Priority, NEW k \in DOMAIN ClassOf(waiters, p), ClassOf(waiters, p)[k] = c
        PROVE  \E i \in 1..Len(waiters) : waiters[i].client = c
    BY <2>3, <1>1, ClassMembers
  <2> QED BY <2>1, <2>2, <2>3
<1>4. \A c \in Client : Abstract!Outside(c) <=> handle[c] \in {"none", "released"}
  <2> SUFFICES ASSUME NEW c \in Client
               PROVE  Abstract!Outside(c) <=> handle[c] \in {"none", "released"}
    OBVIOUS
  <2>1. Abstract!Outside(c) <=> c \notin Holders /\ \A p \in Priority : \A k \in DOMAIN Queues[p] : Queues[p][k] # c
    BY DEF Abstract!Outside, Queues, Abstract!Priority, Priority, Abstract!High, Abstract!Low, Abstract!Idle, High, Low, Idle
  <2>2. (\A p \in Priority : \A k \in DOMAIN Queues[p] : Queues[p][k] # c) <=> handle[c] # "queued"
    BY <1>3, QueuesAreClasses
  <2>3. c \in Holders <=> handle[c] = "held"
    BY DEF Holders
  <2> QED BY <2>1, <2>2, <2>3, <1>2
<1>5. Abstract!NobodyWaits <=> waiters = <<>>
  <2>1. Abstract!NobodyWaits <=> \A p \in Priority : Queues[p] = <<>>
    BY DEF Abstract!NobodyWaits, Queues, Abstract!Priority, Priority, Abstract!High, Abstract!Low, Abstract!Idle, High, Low, Idle
  <2>2. waiters = <<>> => \A p \in Priority : ClassOf(waiters, p) = <<>>
    <3> SUFFICES ASSUME waiters = <<>>, NEW p \in Priority, ClassOf(waiters, p) # <<>> PROVE FALSE
      OBVIOUS
    <3>1. \E i \in 1..Len(waiters) : waiters[i].prio = p
      BY <1>1, ClassMembers
    <3>2. Len(waiters) = 0
      OBVIOUS
    <3> QED BY <3>1, <3>2
  <2>3. waiters # <<>> => \E p \in Priority : ClassOf(waiters, p) # <<>>
    <3>1. waiters # <<>> => 1 \in 1..Len(waiters)
      BY <1>1
    <3>2. DOMAIN <<>> = {}
      OBVIOUS
    <3> QED BY <3>1, <3>2, <1>1, ClassMembers, WaiterTypes
  <2> QED BY <2>1, <2>2, <2>3, QueuesAreClasses
<1>6. \A H : Abstract!Room(H) <=> Cardinality(H) < limit
  BY DEF Abstract!Room, Abstract!Cardinality, Cardinality
<1>7. \A c \in Client : handle[c] = "queued" => c \notin Holders
  BY DEF Holders
<1> QED BY <1>1, <1>4, <1>5, <1>6, <1>7 DEF IInv, PermitConservation, TypeOK

\* One class changes.
LEMMA QueuesChange ==
  ASSUME NEW p \in Priority, NEW x, ClassOf(waiters', p) = x,
         \A q \in Priority : q # p => ClassOf(waiters', q) = ClassOf(waiters, q)
  PROVE  Queues' = [Queues EXCEPT ![p] = x]
<1>1. \A q \in Priority : Queues'[q] = IF q = p THEN x ELSE Queues[q]
  BY QueuesAreClasses
<1>2. /\ Queues = [q \in Priority |-> Queues[q]]
      /\ Queues' = [q \in Priority |-> Queues'[q]]
  BY DEF Queues
<1> HIDE DEF Queues
<1> QED BY <1>1, <1>2

\* A waiter that the accumulator or the order picks is served as the head of its
\* class, Idle only when the others are empty.
LEMMA PickServes ==
  ASSUME IInv, NEW i \in DOMAIN waiters, PickWaiterIndex(i), waiters' = RemoveAt(waiters, i),
         NEW H, Cardinality(H) < limit, Holders' = H \union {waiters[i].client}
  PROVE  \E p \in Priority : Abstract!Serve(p, H)
<1>1. /\ waiters \in Seq(Waiter) /\ Sorted(waiters) /\ Abstract!Room(H)
  BY AbstractView
<1>2. /\ Len(waiters) \in Nat /\ DOMAIN waiters = 1..Len(waiters) /\ i \in 1..Len(waiters)
      /\ \A j \in 1..Len(waiters) : waiters[j].prio \in Nat /\ waiters[j].prio \in Priority
  BY <1>1, WaiterTypes
<1> DEFINE p == waiters[i].prio
<1>3. p \in Priority /\ p \in Nat
  BY <1>2
<1>4. /\ \A q \in Priority : q # p => ClassOf(waiters', q) = ClassOf(waiters, q)
      /\ \E a, b : /\ Block(waiters, p, a, b) /\ i - a \in 1..(b - a)
                   /\ ClassOf(waiters, p) \in Seq(Client) /\ Len(ClassOf(waiters, p)) = b - a
                   /\ ClassOf(waiters, p)[i - a] = waiters[i].client
                   /\ ClassOf(waiters', p) = RemoveAt(ClassOf(waiters, p), i - a)
  <2>1. /\ \A q \in Priority : q # p => ClassOf(RemoveAt(waiters, i), q) = ClassOf(waiters, q)
        /\ \E a, b : /\ Block(waiters, p, a, b) /\ i - a \in 1..(b - a)
                     /\ ClassOf(waiters, p) \in Seq(Client) /\ Len(ClassOf(waiters, p)) = b - a
                     /\ ClassOf(waiters, p)[i - a] = waiters[i].client
                     /\ ClassOf(RemoveAt(waiters, i), p) = RemoveAt(ClassOf(waiters, p), i - a)
    <3>1. waiters \in Seq(Waiter) /\ Sorted(waiters) /\ i \in 1..Len(waiters)
      BY <1>1, <1>2
    <3>2. \A q \in Priority :
            /\ q # waiters[i].prio => ClassOf(RemoveAt(waiters, i), q) = ClassOf(waiters, q)
            /\ q = waiters[i].prio =>
                 \E a, b : /\ Block(waiters, q, a, b) /\ i - a \in 1..(b - a)
                           /\ ClassOf(waiters, q) = [k \in 1..(b - a) |-> waiters[a + k].client]
                           /\ ClassOf(waiters, q) \in Seq(Client) /\ Len(ClassOf(waiters, q)) = b - a
                           /\ ClassOf(waiters, q)[i - a] = waiters[i].client
                           /\ ClassOf(RemoveAt(waiters, i), q) = RemoveAt(ClassOf(waiters, q), i - a)
      BY <3>1, LeaveClass, Zenon
    <3> QED BY <3>2, <1>3, Zenon
  <2>2. waiters' = RemoveAt(waiters, i)
    OBVIOUS
  <2> HIDE DEF p
  <2> QED BY <2>1, <2>2, Zenon
<1>5. PICK a, b : /\ Block(waiters, p, a, b) /\ i - a \in 1..(b - a)
                  /\ ClassOf(waiters, p) \in Seq(Client) /\ Len(ClassOf(waiters, p)) = b - a
                  /\ ClassOf(waiters, p)[i - a] = waiters[i].client
                  /\ ClassOf(waiters', p) = RemoveAt(ClassOf(waiters, p), i - a)
  BY <1>4
<1>6. /\ a \in Nat /\ b \in Nat /\ a <= b /\ b <= Len(waiters)
      /\ \A j \in 1..Len(waiters) : (waiters[j].prio < p <=> j <= a) /\ (waiters[j].prio > p <=> b < j)
  BY <1>5 DEF Block
<1>7. i - a = 1
  <2>1. CASE ~Diverts
    <3>1. i = 1
      BY <2>1 DEF PickWaiterIndex
    <3> QED BY <3>1, <1>5, <1>6
  <2>2. CASE Diverts
    <3>1. p = Low /\ \A j \in 1..Len(waiters) : waiters[j].prio = Low => i <= j
      BY <2>2, <1>2 DEF PickWaiterIndex, PositionsOf
    <3>2. a + 1 \in 1..Len(waiters) /\ a + 1 <= i
      BY <1>2, <1>5, <1>6
    <3>3. waiters[a + 1].prio = p
      BY <3>2, <1>2, <1>3, <1>5, <1>6
    <3> QED BY <3>1, <3>2, <3>3, <1>2, <1>6
  <2> QED BY <2>1, <2>2
<1> HIDE DEF p
<1>8. /\ ClassOf(waiters, p) # <<>> /\ Head(ClassOf(waiters, p)) = waiters[i].client
      /\ ClassOf(waiters', p) = Tail(ClassOf(waiters, p))
  <2> DEFINE c == ClassOf(waiters, p)
  <2>1. c \in Seq(Client) /\ Len(c) > 0 /\ c[1] = waiters[i].client /\ ClassOf(waiters', p) = RemoveAt(c, 1)
    BY <1>5, <1>6, <1>7
  <2> HIDE DEF c
  <2>2. RemoveAt(c, 1) = Tail(c) /\ c # <<>> /\ Head(c) = c[1]
    BY <2>1, HeadRemoved
  <2> QED BY <2>1, <2>2 DEF c
<1>9. p = Idle => ClassOf(waiters, High) = <<>> /\ ClassOf(waiters, Low) = <<>>
  <2> SUFFICES ASSUME p = Idle, NEW q \in {High, Low}, ClassOf(waiters, q) # <<>> PROVE FALSE
    OBVIOUS
  <2>1. q \in Priority
    BY DEF Priority
  <2>2. PICK j \in 1..Len(waiters) : waiters[j].prio = q
    BY <2>1, <1>1, ClassMembers
  <2>3. j <= a
    BY <2>2, <1>6 DEF High, Low, Idle
  <2>4. i = 1
    <3>1. ~Diverts
      BY DEF PickWaiterIndex, PositionsOf, p, Low, Idle
    <3> QED BY <3>1 DEF PickWaiterIndex
  <2> QED BY <2>2, <2>3, <2>4, <1>6, <1>7
<1>10. Queues' = [Queues EXCEPT ![p] = Tail(Queues[p])]
  <2>1. Queues[p] = ClassOf(waiters, p)
    BY <1>3, QueuesAreClasses
  <2>2. ClassOf(waiters', p) = Tail(Queues[p])
    BY <1>8, <2>1
  <2>3. \A q \in Priority : q # p => ClassOf(waiters', q) = ClassOf(waiters, q)
    BY <1>4 DEF p
  <2> QED BY <1>3, <2>2, <2>3, QueuesChange
<1>11. High \in Priority /\ Low \in Priority
  BY DEF Priority
<1>12. /\ Queues[p] # <<>> /\ Head(Queues[p]) = waiters[i].client
       /\ p = Idle => Queues[High] = <<>> /\ Queues[Low] = <<>>
  BY <1>3, <1>8, <1>9, <1>11, QueuesAreClasses
<1>13. Abstract!Serve(p, H)
  BY <1>1, <1>10, <1>12 DEF Abstract!Serve, Queues, Abstract!High, Abstract!Low, Abstract!Idle, High, Low, Idle
<1> QED BY <1>3, <1>13

\* acquire with a permit free is Enter.
LEMMA EnterSimulates ==
  ASSUME IInv, NEW c \in Client, AcquireNow(c)
  PROVE  Abstract!Enter(c)
<1>1. /\ ~granting /\ handle[c] \in {"none", "released"} /\ inUse < limit /\ limit' = limit /\ waiters' = waiters
      /\ handle' = [handle EXCEPT ![c] = "held"]
  BY DEF AcquireNow
<1>2. Abstract!Outside(c)
  BY <1>1, AbstractView
<1>3. Abstract!Room(Holders) /\ waiters = <<>>
  BY <1>1, AbstractView DEF IInv, NoLostWakeup
<1>4. Abstract!NobodyWaits
  BY <1>3, AbstractView
<1>5. Holders' = Holders \union {c}
  BY <1>1 DEF Holders, IInv, TypeOK
<1>6. Queues' = Queues
  BY <1>1 DEF Queues, ClassQueue, PositionsOf
<1> QED BY <1>1, <1>2, <1>3, <1>4, <1>5, <1>6 DEF Abstract!Enter, Queues

\* acquire that queues is Wait: the entry goes to the end of its class.
LEMMA WaitSimulates ==
  ASSUME IInv, NEW c \in Client, NEW p \in Priority, AcquireQueued(c, p)
  PROVE  Abstract!Wait(c, p)
<1> DEFINE e == [client |-> c, prio |-> p]
<1>1. /\ handle[c] \in {"none", "released"} /\ inUse >= limit /\ limit' = limit
      /\ handle' = [handle EXCEPT ![c] = "queued"]
  BY DEF AcquireQueued
<1>2. PICK i \in 1..(Len(waiters) + 1) : EntersAt(p, i) /\ waiters' = InsertAt(waiters, i, e)
  BY DEF AcquireQueued
<1>3. waiters \in Seq(Waiter) /\ Sorted(waiters) /\ Abstract!Outside(c) /\ inUse = Cardinality(Holders)
      /\ limit \in Nat /\ inUse \in Nat
  BY <1>1, AbstractView
<1>4. ~Abstract!Room(Holders)
  BY <1>1, <1>3, AbstractView
<1>5. e \in Waiter /\ e.client = c /\ e.prio = p
  BY DEF Waiter
<1> HIDE DEF e
<1>6. \A q \in Priority :
        ClassOf(waiters', q) = IF q = p THEN Append(ClassOf(waiters, q), c) ELSE ClassOf(waiters, q)
  BY <1>2, <1>3, <1>5, EnterClass DEF EntersAt
<1>7. Queues' = [Queues EXCEPT ![p] = Append(Queues[p], c)]
  BY <1>6, QueuesChange, QueuesAreClasses
<1>8. Holders' = Holders
  BY <1>1 DEF Holders, IInv, TypeOK
<1> QED BY <1>1, <1>3, <1>4, <1>7, <1>8 DEF Abstract!Wait, Queues

\* onAbort is GiveUp.
LEMMA GiveUpSimulates ==
  ASSUME IInv, NEW c \in Client, Abort(c)
  PROVE  Abstract!GiveUp(c)
<1>1. /\ handle[c] = "queued" /\ limit' = limit /\ handle' = [handle EXCEPT ![c] = "none"]
  BY DEF Abort
<1>2. PICK i \in DOMAIN waiters : waiters[i].client = c /\ waiters' = RemoveAt(waiters, i)
  BY DEF Abort
<1>3. waiters \in Seq(Waiter) /\ Sorted(waiters) /\ ~Abstract!Outside(c) /\ c \notin Holders
  BY <1>1, AbstractView
<1> DEFINE p == waiters[i].prio
<1>4. i \in 1..Len(waiters) /\ p \in Priority
  BY <1>3, WaiterTypes
<1>5. \A q \in Priority : q # p => ClassOf(waiters', q) = ClassOf(waiters, q)
  BY <1>2, <1>3, <1>4, LeaveClass
<1>6. PICK k \in DOMAIN ClassOf(waiters, p) :
        ClassOf(waiters, p)[k] = c /\ ClassOf(waiters', p) = RemoveAt(ClassOf(waiters, p), k)
  <2>1. PICK a, b : /\ i - a \in 1..(b - a)
                    /\ ClassOf(waiters, p) \in Seq(Client) /\ Len(ClassOf(waiters, p)) = b - a
                    /\ ClassOf(waiters, p)[i - a] = waiters[i].client
                    /\ ClassOf(waiters', p) = RemoveAt(ClassOf(waiters, p), i - a)
    BY <1>2, <1>3, <1>4, LeaveClass
  <2>2. i - a \in DOMAIN ClassOf(waiters, p)
    BY <2>1
  <2> QED BY <2>1, <2>2, <1>2
<1> HIDE DEF p
<1>7. Queues' = [Queues EXCEPT ![p] = RemoveAt(Queues[p], k)] /\ k \in DOMAIN Queues[p] /\ Queues[p][k] = c
  BY <1>4, <1>5, <1>6, QueuesChange, QueuesAreClasses
<1>8. Holders' = Holders
  BY <1>1 DEF Holders, IInv, TypeOK
<1>9. p \in Abstract!Priority
  BY <1>4 DEF Abstract!Priority, Priority, Abstract!High, Abstract!Low, Abstract!Idle, High, Low, Idle
<1> QED BY <1>1, <1>3, <1>7, <1>8, <1>9 DEF Abstract!GiveUp, Abstract!RemoveAt, RemoveAt, Queues

\* release is Leave, with or without a successor.
LEMMA LeaveSimulates ==
  ASSUME IInv, NEW c \in Client, Release(c)
  PROVE  Abstract!Leave(c)
<1> DEFINE n == inUse - 1
           h == [handle EXCEPT ![c] = "released"]
           H == Holders \ {c}
<1>1. c \in Holders /\ limit' = limit
  BY DEF Release, Holders
<1>2. Cardinality(H) = n /\ n \in Nat
  <2>1. IsFiniteSet(Holders)
    BY HoldersFinite DEF Holders
  <2>2. Cardinality(H) = Cardinality(Holders) - 1 /\ IsFiniteSet(H)
    BY <2>1, <1>1, FS_RemoveElement
  <2>3. Cardinality(H) \in Nat
    BY <2>2, FS_CardinalityType
  <2> QED BY <2>2, <2>3, AbstractView
<1>3. H = {d \in Client : h[d] = "held"}
  BY DEF Holders, IInv, TypeOK
<1>4. (Abstract!NobodyWaits \/ ~Abstract!Room(H)) <=> ~HandsOn(n)
  BY <1>2, AbstractView DEF HandsOn
<1> HIDE DEF H
<1>5. CASE ~HandsOn(n)
  <2>1. handle' = h /\ waiters' = waiters
    BY <1>5 DEF Release
  <2>2. Holders' = H
    BY <2>1, <1>3 DEF Holders
  <2>3. Queues' = Queues
    BY <2>1 DEF Queues, ClassQueue, PositionsOf
  <2> QED BY <2>2, <2>3, <1>1, <1>4, <1>5 DEF Abstract!Leave, Queues, H
<1>6. CASE HandsOn(n)
  <2>1. GrantNext(n, h)
    BY <1>6 DEF Release
  <2>2. PICK i \in DOMAIN waiters : /\ PickWaiterIndex(i) /\ waiters' = RemoveAt(waiters, i)
                                    /\ handle' = [h EXCEPT ![waiters[i].client] = "held"]
    BY <2>1 DEF GrantNext
  <2>3. Holders' = H \union {waiters[i].client}
    <3>1. waiters[i].client \in Client
      BY AbstractView, WaiterTypes
    <3>2. \A d \in Client : handle'[d] = IF d = waiters[i].client THEN "held" ELSE h[d]
      BY <2>2 DEF IInv, TypeOK
    <3> QED BY <3>1, <3>2, <1>3 DEF Holders
  <2>4. Cardinality(H) < limit
    BY <1>2, <1>6 DEF HandsOn
  <2>5. PICK p \in Priority : Abstract!Serve(p, H)
    BY <2>2, <2>3, <2>4, PickServes
  <2>6. p \in Abstract!Priority
    BY DEF Abstract!Priority, Priority, Abstract!High, Abstract!Low, Abstract!Idle, High, Low, Idle
  <2> QED BY <2>5, <2>6, <1>1, <1>4, <1>6 DEF Abstract!Leave, H
<1> QED BY <1>5, <1>6

\* One turn of throttleTo's loop is Catchup.
LEMMA CatchupSimulates ==
  ASSUME IInv, GrantLoop
  PROVE  Abstract!Catchup
<1>1. GrantNext(inUse, handle) /\ limit' = limit /\ inUse < limit
  BY DEF GrantLoop, IInv, LoopInv
<1>2. PICK i \in DOMAIN waiters : /\ PickWaiterIndex(i) /\ waiters' = RemoveAt(waiters, i)
                                  /\ handle' = [handle EXCEPT ![waiters[i].client] = "held"]
  BY <1>1 DEF GrantNext
<1>3. Holders' = Holders \union {waiters[i].client}
  <2>1. waiters[i].client \in Client
    BY AbstractView, WaiterTypes
  <2> QED BY <2>1, <1>2 DEF Holders, IInv, TypeOK
<1>4. Cardinality(Holders) < limit
  BY <1>1, AbstractView
<1>5. PICK p \in Priority : Abstract!Serve(p, Holders)
  BY <1>2, <1>3, <1>4, PickServes
<1>6. p \in Abstract!Priority
  BY DEF Abstract!Priority, Priority, Abstract!High, Abstract!Low, Abstract!Idle, High, Low, Idle
<1> QED BY <1>1, <1>5, <1>6 DEF Abstract!Catchup

\* throttleTo sets a ceiling the contract allows.
LEMMA ThrottleSimulates ==
  ASSUME IInv, NEW n \in ThrottleTo, Throttle(n)
  PROVE  \E m \in 1..MaxPermits : Abstract!SetCeiling(m)
<1>1. n \in Nat /\ Clamp(n) \in 1..MaxPermits
  BY ThrottleAssumption, PermitsAssumption DEF Clamp
<1>2. limit' = Clamp(n) /\ handle' = handle /\ waiters' = waiters
  BY DEF Throttle
<1>3. Holders' = Holders /\ Queues' = Queues
  BY <1>2 DEF Holders, Queues, ClassQueue, PositionsOf
<1>4. Abstract!SetCeiling(Clamp(n))
  BY <1>2, <1>3 DEF Abstract!SetCeiling, Queues
<1> QED BY <1>1, <1>4

\* Every step is a step of the contract, or leaves it where it was.
LEMMA StepSimulates == IInv /\ [Next]_vars => [Abstract!Next]_(Abstract!vars)
<1> SUFFICES ASSUME IInv, [Next]_vars PROVE [Abstract!Next]_(Abstract!vars)
  OBVIOUS
<1>0. Abstract!Priority = Priority
  BY DEF Abstract!Priority, Priority, Abstract!High, Abstract!Low, Abstract!Idle, High, Low, Idle
<1>1. CASE UNCHANGED vars
  <2>1. limit' = limit /\ Holders' = Holders /\ Queues' = Queues
    BY <1>1 DEF vars, Holders, Queues, ClassQueue, PositionsOf
  <2> QED BY <2>1 DEF Abstract!vars, Queues
<1>2. ASSUME NEW c \in Client, AcquireNow(c) PROVE Abstract!Next
  BY <1>2, EnterSimulates DEF Abstract!Next
<1>3. ASSUME NEW c \in Client, Abort(c) PROVE Abstract!Next
  BY <1>3, GiveUpSimulates DEF Abstract!Next
<1>4. ASSUME NEW c \in Client, Release(c) PROVE Abstract!Next
  BY <1>4, LeaveSimulates DEF Abstract!Next
<1>5. ASSUME NEW c \in Client, NEW p \in Priority, AcquireQueued(c, p) PROVE Abstract!Next
  BY <1>0, <1>5, WaitSimulates DEF Abstract!Next
<1>6. ASSUME NEW n \in ThrottleTo, Throttle(n) PROVE Abstract!Next
  BY <1>6, ThrottleSimulates DEF Abstract!Next
<1>7. CASE GrantLoop
  BY <1>7, CatchupSimulates DEF Abstract!Next
<1> QED BY <1>1, <1>2, <1>3, <1>4, <1>5, <1>6, <1>7 DEF Next

\* The sorted queue, its counter and its accumulator (priority-semaphore.ts:78) keep
\* the promise of ClassQueues: first in, first out within a class, nobody past a
\* queue, Idle only when nobody else waits, never a holder above the ceiling.
THEOREM Refinement == Spec => ServesClassesInOrder
<1>1. Init => Abstract!Init
  <2> SUFFICES ASSUME Init PROVE Abstract!Init
    OBVIOUS
  <2>1. Holders = {}
    BY DEF Init, Holders
  <2>2. waiters \in Seq(Waiter) /\ Sorted(waiters) /\ Len(waiters) = 0
    BY EmptySeq DEF Init, Sorted
  <2>3. \A p \in Priority : Queues[p] = <<>>
    <3> SUFFICES ASSUME NEW p \in Priority, Queues[p] # <<>> PROVE FALSE
      OBVIOUS
    <3>1. ClassOf(waiters, p) # <<>>
      BY QueuesAreClasses
    <3>2. \E i \in 1..Len(waiters) : waiters[i].prio = p
      BY <3>1, <2>2, ClassMembers
    <3> QED BY <3>2, <2>2
  <2>4. Queues = [p \in Priority |-> <<>>]
    BY <2>3 DEF Queues
  <2>5. Abstract!Priority = Priority
    BY DEF Abstract!Priority, Priority, Abstract!High, Abstract!Low, Abstract!Idle, High, Low, Idle
  <2> QED BY <2>1, <2>4, <2>5 DEF Abstract!Init, Queues, Init
<1> QED BY <1>1, StepSimulates, Invariance, PTL DEF Spec, ServesClassesInOrder, Abstract!Spec

--------------------------------------------------------------------------------
(* The disk tier: indexes *)

\* An index: entries with different keys.
OneEach(q) == Distinct(q) /\ \A x, y \in Range(q) : x.key = y.key => x = y
IsIndex(q) == q \in Seq(Entry) /\ OneEach(q)

\* The keys of an index are those of the entries in its range.
LEMMA KeysInRange ==
  \A q : KeysOf(q) = {e.key : e \in Range(q)}
BY RangeMembers DEF KeysOf

\* The empty index is one.
LEMMA EmptyIndex == IsIndex(<<>>) /\ Range(<<>>) = {} /\ KeysOf(<<>>) = {}
<1>1. <<>> \in Seq(Entry) /\ DOMAIN <<>> = {}
  OBVIOUS
<1>2. Range(<<>>) = {} /\ KeysOf(<<>>) = {}
  BY <1>1, RangeMembers DEF KeysOf
<1> QED BY <1>1, <1>2 DEF IsIndex, OneEach, Distinct

\* What a pass over an index keeps is an index.
LEMMA FilteredIndex ==
  ASSUME NEW q, IsIndex(q), NEW S
  PROVE  IsIndex(Only(q, S)) /\ Range(Only(q, S)) = Range(q) \intersect S
<1>1. /\ Only(q, S) \in Seq(Entry) /\ Range(Only(q, S)) = Range(q) \intersect S
      /\ Distinct(q) => Distinct(Only(q, S))
  BY OnlyFacts DEF IsIndex
<1> QED BY <1>1 DEF IsIndex, OneEach

\* The members of an index are entries.
LEMMA IndexMembers ==
  ASSUME NEW q, IsIndex(q)
  PROVE  /\ Range(q) \subseteq Entry /\ KeysOf(q) \subseteq Key
         /\ DOMAIN q = 1..Len(q) /\ Len(q) \in Nat
         /\ \A i \in DOMAIN q : q[i] \in Entry
<1>1. DOMAIN q = 1..Len(q) /\ Len(q) \in Nat /\ \A i \in DOMAIN q : q[i] \in Entry
  BY LenProperties, ElementOfSeq DEF IsIndex
<1> QED BY <1>1, RangeMembers DEF KeysOf, Entry

\* delete: no entry of the key is left, the others stay.
LEMMA WithoutFacts ==
  ASSUME NEW q, IsIndex(q), NEW k \in Key
  PROVE  IsIndex(Without(q, k)) /\ KeysOf(Without(q, k)) = KeysOf(q) \ {k}
<1> DEFINE w == Without(q, k)
<1>1. IsIndex(w) /\ Range(w) = Range(q) \intersect Under(Key \ {k})
  BY FilteredIndex DEF Without
<1>2. Range(q) \subseteq Entry
  BY IndexMembers
<1>3. \A e \in Range(q) : e \in Under(Key \ {k}) <=> e.key # k
  BY <1>2 DEF Under, Entry
<1>4. KeysOf(w) = {e.key : e \in Range(w)} /\ KeysOf(q) = {e.key : e \in Range(q)}
  BY KeysInRange
<1> HIDE DEF w
<1>5. KeysOf(w) = KeysOf(q) \ {k}
  BY <1>1, <1>3, <1>4
<1> QED BY <1>1, <1>5 DEF w

\* A key the index does not name is added at the end.
LEMMA AddedIndex ==
  ASSUME NEW q, IsIndex(q), NEW e \in Entry, e.key \notin KeysOf(q)
  PROVE  IsIndex(Append(q, e))
<1>1. /\ Append(q, e) \in Seq(Entry) /\ Range(Append(q, e)) = Range(q) \union {e}
  BY AppendFacts DEF IsIndex
<1>2. \A x \in Range(q) : x.key # e.key
  BY KeysInRange
<1>3. e \notin Range(q)
  BY <1>2
<1>4. Distinct(Append(q, e))
  BY <1>3, AppendDistinct DEF IsIndex, OneEach
<1>5. \A x, y \in Range(q) \union {e} : x.key = y.key => x = y
  BY <1>2 DEF IsIndex, OneEach
<1> QED BY <1>1, <1>4, <1>5 DEF IsIndex, OneEach

\* Two indexes over different keys make one.
LEMMA JoinedIndex ==
  ASSUME NEW p, IsIndex(p), NEW q, IsIndex(q), KeysOf(p) \intersect KeysOf(q) = {}
  PROVE  IsIndex(p \o q)
<1>1. /\ p \o q \in Seq(Entry) /\ Range(p \o q) = Range(p) \union Range(q)
      /\ Distinct(p) /\ Distinct(q) /\ Range(p) \intersect Range(q) = {} => Distinct(p \o q)
  BY ConcatFacts DEF IsIndex
<1>2. \A x \in Range(p), y \in Range(q) : x.key # y.key
  BY KeysInRange
<1>3. Range(p) \intersect Range(q) = {}
  BY <1>2
<1>4. \A x, y \in Range(p) \union Range(q) : x.key = y.key => x = y
  BY <1>2 DEF IsIndex, OneEach
<1> QED BY <1>1, <1>3, <1>4 DEF IsIndex, OneEach

\* What is left of an index once its front is evicted is an index.
LEMMA EvictedIndex ==
  ASSUME NEW q, IsIndex(q), NEW a \in Nat \ {0}, NEW b \in 0..Len(q)
  PROVE  IsIndex(SubSeq(q, a, b))
<1> DEFINE s == SubSeq(q, a, b)
<1>1. DOMAIN q = 1..Len(q) /\ Len(q) \in Nat /\ \A i \in DOMAIN q : q[i] \in Entry
  BY IndexMembers
<1>2. /\ s \in Seq(Entry) /\ Len(s) = IF a <= b THEN b - a + 1 ELSE 0
      /\ \A i \in 1..(b - a + 1) : s[i] = q[a + i - 1]
  <2>1. \A i \in a..b : q[i] \in Entry
    BY <1>1
  <2> QED BY <2>1, <1>1, SubSeqProperties
<1>3. DOMAIN s = 1..Len(s)
  BY <1>2, LenProperties
<1> HIDE DEF s
<1>4. \A i \in DOMAIN s : a + i - 1 \in DOMAIN q /\ s[i] = q[a + i - 1] /\ i \in Nat
  BY <1>1, <1>2, <1>3
<1>5. Distinct(s)
  BY <1>4 DEF IsIndex, OneEach, Distinct
<1>6. Range(s) \subseteq Range(q)
  BY <1>4, RangeMembers
<1>7. IsIndex(s)
  BY <1>2, <1>5, <1>6 DEF IsIndex, OneEach
<1> QED BY <1>7 DEF s

\* An index has as many keys as entries.
LEMMA IndexCardinality ==
  ASSUME NEW q, IsIndex(q)
  PROVE  Cardinality(KeysOf(q)) = Len(q)
<1>1. DOMAIN q = 1..Len(q) /\ Len(q) \in Nat
  BY IndexMembers
<1> DEFINE f == [i \in 1..Len(q) |-> q[i].key]
<1>2. f \in Bijection(1..Len(q), KeysOf(q))
  <2>1. f \in [1..Len(q) -> KeysOf(q)]
    BY <1>1 DEF KeysOf
  <2>2. \A i, j \in 1..Len(q) : f[i] = f[j] => i = j
    <3>1. \A i, j \in DOMAIN q : q[i].key = q[j].key => q[i] = q[j]
      BY RangeMembers DEF IsIndex, OneEach
    <3> QED BY <3>1, <1>1 DEF IsIndex, OneEach, Distinct
  <2>3. \A k \in KeysOf(q) : \E i \in 1..Len(q) : f[i] = k
    BY <1>1 DEF KeysOf
  <2> QED BY <2>1, <2>2, <2>3 DEF Bijection, Injection, Surjection, IsInjective
<1>3. ExistsBijection(1..Len(q), KeysOf(q))
  BY <1>2 DEF ExistsBijection
<1>4. IsFiniteSet(1..Len(q)) /\ Cardinality(1..Len(q)) = Len(q)
  <2>1. /\ IsFiniteSet(1..Len(q))
        /\ Cardinality(1..Len(q)) = IF 1 > Len(q) THEN 0 ELSE Len(q) - 1 + 1
    BY <1>1, FS_Interval
  <2> QED BY <2>1, <1>1
<1> QED BY <1>3, <1>4, FS_Bijection

\* The size of an index is a natural number.
LEMMA SizesNatural ==
  ASSUME NEW q, IsIndex(q)
  PROVE  Sizes(q) \in Nat
<1>1. DOMAIN q = 1..Len(q) /\ Len(q) \in Nat /\ \A i \in DOMAIN q : q[i] \in Entry
  BY IndexMembers
<1> DEFINE g == [i \in DOMAIN q |-> q[i].size]
<1>2. Sizes(q) = SumOf(g, DOMAIN q)
  BY DEF Sizes, SumOf, MapThenSumSet, MapThenFoldSet
<1>3. IsFiniteSet(DOMAIN q)
  BY <1>1, FS_Interval
<1>4. \A i \in DOMAIN q : g[i] \in Nat
  BY <1>1 DEF Entry
<1> HIDE DEF g
<1> QED BY <1>2, <1>3, <1>4, SumType

\* The eviction stops at some entry.
LEMMA VictimsExist ==
  ASSUME NEW q, IsIndex(q), NEW n \in Int, NEW b \in Int
  PROVE  Victims(q, n, b) \in 0..Len(q)
<1> DEFINE left(i) == n - Sizes(SubSeq(q, 1, i))
           Stop(i) == left(i) <= b \/ i = Len(q)
           G == {m \in 1..(Len(q) + 1) : Stop(m - 1)}
<1>1. Len(q) \in Nat
  BY IndexMembers
<1>2. PICK m \in 1..(Len(q) + 2) :
        /\ \A i \in 1..(Len(q) + 1) : i \in G => m <= i
        /\ m <= Len(q) + 1 => m \in G
  <2>1. \E m \in 1..((Len(q) + 1) + 1) :
          /\ \A i \in 1..(Len(q) + 1) : i \in G => m <= i
          /\ m <= Len(q) + 1 => m \in G
    <3>1. Len(q) + 1 \in Nat
      BY <1>1
    <3> HIDE DEF G
    <3> QED BY <3>1, FirstWith
  <2>2. (Len(q) + 1) + 1 = Len(q) + 2
    BY <1>1
  <2> HIDE DEF G
  <2> QED BY <2>1, <2>2
<1>3. Len(q) + 1 \in G
  BY <1>1
<1>4. m \in G /\ \A i \in G : m <= i
  BY <1>1, <1>2, <1>3
<1>5. m - 1 \in 0..Len(q) /\ Stop(m - 1)
  BY <1>1, <1>4
<1>6. \A i \in 0..Len(q) : left(i) \in Int
  <2> SUFFICES ASSUME NEW i \in 0..Len(q) PROVE left(i) \in Int
    OBVIOUS
  <2>1. IsIndex(SubSeq(q, 1, i))
    BY EvictedIndex
  <2>2. Sizes(SubSeq(q, 1, i)) \in Nat
    BY <2>1, SizesNatural
  <2> QED BY <2>2
<1>7. ASSUME NEW j \in 0..((m - 1) - 1)
      PROVE  left(j) > b
  <2>1. j + 1 \in 1..(Len(q) + 1) /\ j + 1 < m /\ (j + 1) - 1 = j /\ j \in 0..Len(q)
    BY <1>1, <1>5
  <2>2. j + 1 \notin G
    <3>1. ~(m <= j + 1)
      BY <2>1
    <3> HIDE DEF G
    <3> QED BY <3>1, <1>4
  <2>3. ~Stop(j)
    BY <2>1, <2>2
  <2>4. left(j) \in Int
    BY <2>1, <1>6
  <2> HIDE DEF G
  <2> QED BY <2>3, <2>4
<1>8. \E i \in 0..Len(q) : Stop(i) /\ \A j \in 0..(i - 1) : left(j) > b
  BY <1>5, <1>7
<1> QED BY <1>8 DEF Victims

--------------------------------------------------------------------------------
(* The disk tier: the inductive invariant *)

\* The index, the one on disk and the one being written name a key once.
IndexState ==
  /\ IsIndex(index) /\ IsIndex(saved) /\ (saving # None => IsIndex(saving))
  /\ bytes \in Int /\ budget \in Budgets
  /\ dirty \in BOOLEAN /\ timer \in BOOLEAN /\ chained \in BOOLEAN

\* pendingWrites leads from a key to a write of it that is still in flight, and
\* pendingWriteBytes is what the writes in flight carry.
Payload == [w \in InFlight |-> Body[write[w].key]]
LargestBody == Max({Body[k] : k \in Key})
WriteState ==
  /\ write \in [Writer -> [st : {"free", "queued", "open", "cut"}, key : Key \union {None}, at : 0..Pieces]]
  /\ pending \in [Key -> Writer \union {None}]
  /\ \A w \in InFlight : write[w].key \in Key
  /\ \A k \in Key : pending[k] # None => pending[k] \in InFlight /\ write[pending[k]].key = k
  /\ pendingBytes = SumOf(Payload, InFlight)
  /\ pendingBytes < MaxBytes + LargestBody

\* A reader under way has a key.
ReadState ==
  /\ reader \in [Reader -> [st : {"idle", "await", "read"}, key : Key \union {None},
                           on : Writer \union {None}]]
  /\ \A r \in Reader : reader[r].st # "idle" => reader[r].key \in Key

\* The rest of the state has its type.
LifeState ==
  /\ flusher \in {"none", "drain", "index"} /\ awaited \subseteq Writer
  /\ phase \in {"reading", "cleaning", "ready"} /\ present \subseteq Key /\ orphan \in Key \union {None}
  /\ clearing \in BOOLEAN /\ closed \in BOOLEAN
DiskState == removing \in [Key -> 0..RmBound]

\* A file that no two writes had open at once is written from its start, with
\* no hole, as far as the one write that has it open has come.
Filled(k, n) == \A i \in 1..Pieces : i \in file[k] <=> i <= n
FileState ==
  /\ file \in [Key -> SUBSET (0..Pieces)] /\ blended \subseteq Key
  /\ \A w \in Writer : write[w].st = "queued" => write[w].at = 0
  /\ \A k \in Key \ blended :
       /\ \A v, w \in OpenOn(k) : v = w
       /\ \E n \in 0..Pieces : Filled(k, n) /\ \A w \in OpenOn(k) : write[w].at = n

CacheIInv == IndexState /\ WriteState /\ ReadState /\ LifeState /\ DiskState /\ FileState

\* The largest payload bounds every payload.
LEMMA LargestBodyFacts ==
  LargestBody \in Nat /\ \A k \in Key : Body[k] \in Nat /\ Body[k] <= LargestBody
<1> DEFINE T == {Body[k] : k \in Key}
           f == [k \in Key |-> Body[k]]
<1>1. f \in Surjection(Key, T)
  BY DEF Surjection
<1>2. IsFiniteSet(T)
  BY <1>1, FS_Surjection, KeyAssumption
<1>3. T \subseteq Nat /\ T # {} /\ \A k \in Key : Body[k] \in T
  BY BodyAssumption, KeyAssumption
<1> HIDE DEF T
<1>4. T \subseteq Int
  BY <1>3
<1>5. Max(T) \in T /\ \A y \in T : Max(T) >= y
  BY <1>2, <1>3, <1>4, MaxFacts
<1> QED BY <1>3, <1>5 DEF LargestBody, T

\* The writes in flight carry a natural number of bytes, and are finitely many.
LEMMA PayloadFacts ==
  ASSUME WriteState
  PROVE  /\ IsFiniteSet(InFlight) /\ InFlight \subseteq Writer
         /\ \A w \in InFlight : Payload[w] = Body[write[w].key] /\ Payload[w] \in Nat
         /\ pendingBytes \in Nat
<1>1. IsFiniteSet(InFlight) /\ InFlight \subseteq Writer
  BY WriterAssumption, FS_Subset DEF InFlight
<1>2. \A w \in InFlight : Payload[w] = Body[write[w].key] /\ Payload[w] \in Nat
  BY LargestBodyFacts DEF WriteState, Payload
<1>3. pendingBytes \in Nat
  BY <1>1, <1>2, SumType DEF WriteState
<1> QED BY <1>1, <1>2, <1>3

\* The invariant has the two properties.
LEMMA CacheInvImplies == CacheIInv => HitsWhole /\ WritesSound
<1> SUFFICES ASSUME CacheIInv PROVE HitsWhole /\ WritesSound
  OBVIOUS
<1>1. index \in Seq(Entry) /\ Cardinality(KeysOf(index)) = Len(index)
  BY IndexCardinality DEF CacheIInv, IndexState, IsIndex
<1>2. pendingBytes \in Nat
  BY PayloadFacts DEF CacheIInv
<1>3. CacheTypeOK
  BY <1>1, <1>2
     DEF CacheIInv, IndexState, WriteState, ReadState, LifeState, DiskState, FileState, CacheTypeOK
<1>4. pendingBytes = MapThenSumSet(LAMBDA w : Payload[w], InFlight)
  BY DEF CacheIInv, WriteState, SumOf
<1>5. WritesAccounted
  BY <1>4 DEF CacheIInv, WriteState, WritesAccounted, LargestBody, Payload
<1>6. HitsWhole
  <2> SUFFICES ASSUME NEW k \in Key, Deserializes(file[k]), k \notin blended PROVE 1..Pieces \subseteq file[k]
    BY DEF HitsWhole
  <2>1. PICK n \in 0..Pieces : \A i \in 1..Pieces : i \in file[k] <=> i <= n
    BY DEF CacheIInv, FileState, Filled
  <2>2. Pieces \in 1..Pieces /\ Pieces \in file[k]
    BY PieceAssumption DEF Deserializes
  <2>3. n = Pieces
    BY <2>1, <2>2, PieceAssumption
  <2> QED BY <2>1, <2>3, PieceAssumption
<1> QED BY <1>3, <1>5, <1>6 DEF WritesSound

--------------------------------------------------------------------------------
(* The disk tier: what the actions share *)

\* Removals in flight stay counted within their bound.
LEMMA RemovesKeeps ==
  ASSUME NEW ks, removing \in [Key -> 0..RmBound], Removes(ks)
  PROVE  removing' \in [Key -> 0..RmBound]
BY BoundAssumption DEF Removes

\* evictDisk leaves an index.
LEMMA EvictsKeeps ==
  ASSUME NEW q, IsIndex(q), NEW n \in Int, NEW b \in Budgets, DiskState, Evicts(q, n, b)
  PROVE  IsIndex(index') /\ bytes' \in Int /\ removing' \in [Key -> 0..RmBound]
<1> DEFINE i == Victims(q, n, b)
<1>1. i \in 0..Len(q) /\ Len(q) \in Nat
  BY VictimsExist, IndexMembers, BudgetAssumption
<1>2. /\ index' = SubSeq(q, i + 1, Len(q))
      /\ bytes' = n - Sizes(SubSeq(q, 1, i))
      /\ Removes({q[j].key : j \in 1..i})
  BY DEF Evicts
<1> HIDE DEF i
<1>3. i + 1 \in Nat \ {0} /\ 1 \in Nat \ {0} /\ Len(q) \in 0..Len(q)
  BY <1>1
<1>4. IsIndex(SubSeq(q, i + 1, Len(q))) /\ IsIndex(SubSeq(q, 1, i))
  BY <1>1, <1>3, EvictedIndex
<1>5. Sizes(SubSeq(q, 1, i)) \in Nat
  BY <1>4, SizesNatural
<1>6. removing' \in [Key -> 0..RmBound]
  BY <1>2, RemovesKeeps DEF DiskState
<1> QED BY <1>2, <1>4, <1>5, <1>6

\* dropDisk of one key.
LEMMA DropKeeps ==
  ASSUME NEW k \in Key, IndexState, DiskState, closed \in BOOLEAN, Drop(k)
  PROVE  /\ IsIndex(index') /\ bytes' \in Int /\ dirty' \in BOOLEAN /\ timer' \in BOOLEAN
         /\ removing' \in [Key -> 0..RmBound]
<1>1. IsIndex(index')
  BY WithoutFacts DEF Drop, IndexState
<1>2. SizeIn(index, k) \in Nat
  BY FilteredIndex, SizesNatural DEF SizeIn, IndexState
<1>3. bytes' \in Int
  BY <1>2 DEF Drop, IndexState
<1>4. dirty' \in BOOLEAN /\ timer' \in BOOLEAN
  BY DEF Drop, Arms, IndexState
<1>5. removing' \in [Key -> 0..RmBound]
  <2>1. CASE Indexed(k)
    BY <2>1, RemovesKeeps DEF Drop, DiskState
  <2>2. CASE ~Indexed(k)
    BY <2>2 DEF Drop, DiskState
  <2> QED BY <2>1, <2>2
<1> QED BY <1>1, <1>3, <1>4, <1>5

\* Trimming the index to a budget.
LEMMA TrimsKeeps ==
  ASSUME NEW b \in Budgets, IndexState, DiskState, closed \in BOOLEAN, Trims(b)
  PROVE  /\ IsIndex(index') /\ bytes' \in Int /\ dirty' \in BOOLEAN /\ timer' \in BOOLEAN
         /\ removing' \in [Key -> 0..RmBound]
<1>1. IsIndex(index') /\ bytes' \in Int /\ removing' \in [Key -> 0..RmBound]
  BY EvictsKeeps DEF Trims, IndexState
<1>2. dirty' \in BOOLEAN /\ timer' \in BOOLEAN
  BY DEF Trims, Arms, IndexState
<1> QED BY <1>1, <1>2

\* A write that settles takes its payload out of the account and leaves no
\* pending entry behind.
LEMMA SettledKeeps ==
  ASSUME WriteState, NEW w \in InFlight, Settled(w),
         pendingBytes' = pendingBytes - Body[write[w].key]
  PROVE  WriteState'
<1>1. /\ IsFiniteSet(InFlight) /\ w \in Writer
      /\ \A v \in InFlight : Payload[v] = Body[write[v].key] /\ Payload[v] \in Nat
      /\ pendingBytes \in Nat
  BY PayloadFacts
<1>2. /\ write' \in [Writer -> [st : {"free", "queued", "open", "cut"}, key : Key \union {None}, at : 0..Pieces]]
      /\ write'[w] = Free /\ \A v \in Writer \ {w} : write'[v] = write[v]
  BY <1>1, PieceAssumption DEF Settled, WriteState, Free
<1>3. /\ pending' \in [Key -> Writer \union {None}]
      /\ \A k \in Key : pending'[k] # None => pending'[k] = pending[k] /\ pending[k] # w
  BY DEF Settled, WriteState
<1>4. InFlight' = InFlight \ {w}
  BY <1>1, <1>2 DEF InFlight, Free
<1>5. \A v \in InFlight' : Payload'[v] = Payload[v]
  <2>1. \A v \in InFlight' : Payload'[v] = Body[write'[v].key]
    BY DEF Payload
  <2>2. \A v \in InFlight' : v \in InFlight /\ write'[v] = write[v]
    BY <1>2, <1>4, PayloadFacts
  <2> QED BY <2>1, <2>2, <1>1
<1>6. \A v \in InFlight' : write'[v].key \in Key
  BY <1>1, <1>2, <1>4, PayloadFacts DEF WriteState
<1>7. \A k \in Key : pending'[k] # None => pending'[k] \in InFlight' /\ write'[pending'[k]].key = k
  BY <1>2, <1>3, <1>4, PayloadFacts DEF WriteState
<1>8. /\ SumOf(Payload', InFlight \ {w}) = SumOf(Payload, InFlight) - SumOf(Payload, {w})
      /\ SumOf(Payload, {w}) \in Nat
  <2>1. {w} \in SUBSET InFlight /\ \A v \in InFlight \ {w} : Payload'[v] = Payload[v]
    BY <1>4, <1>5
  <2> QED BY <2>1, <1>1, SumRetire
<1>9. SumOf(Payload, {w}) = Body[write[w].key]
  BY <1>1, SumSingle
<1>10. pendingBytes' = SumOf(Payload', InFlight') /\ pendingBytes' <= pendingBytes
  BY <1>1, <1>4, <1>8, <1>9 DEF WriteState
<1>11. pendingBytes' < MaxBytes + LargestBody
  <2>1. pendingBytes < MaxBytes + LargestBody
    BY DEF WriteState
  <2>2. pendingBytes' \in Int
    BY <1>1, <1>8, <1>9
  <2> QED BY <2>1, <2>2, <1>1, <1>10, LargestBodyFacts, QueueAssumption
<1>12. LargestBody' = LargestBody
  BY DEF LargestBody
<1> QED BY <1>2, <1>3, <1>6, <1>7, <1>10, <1>11, <1>12 DEF WriteState

\* A step that changes the state of writes but starts and settles none.
LEMMA WritesMove ==
  ASSUME WriteState, UNCHANGED <<pending, pendingBytes>>,
         write' \in [Writer -> [st : {"free", "queued", "open", "cut"}, key : Key \union {None}, at : 0..Pieces]],
         \A w \in Writer : /\ write'[w].key = write[w].key
                           /\ write'[w].st = "free" <=> write[w].st = "free"
  PROVE  WriteState'
<1>1. InFlight' = InFlight
  BY DEF InFlight
<1>2. \A w \in InFlight : write'[w].key = write[w].key
  BY DEF InFlight
<1>3. Payload' = Payload
  BY <1>1, <1>2 DEF Payload
<1>4. LargestBody' = LargestBody
  BY DEF LargestBody
<1>5. \A k \in Key : pending[k] # None => pending[k] \in Writer
  BY DEF WriteState
<1> QED BY <1>1, <1>2, <1>3, <1>4, <1>5 DEF WriteState, InFlight

\* The files are as they were, and writes go on or end.
LEMMA FilesStay ==
  ASSUME FileState, UNCHANGED diskVars,
         \A w \in Writer : write'[w].st = "queued" => write'[w].at = 0,
         \A w \in Writer : write'[w].st = "open" => write'[w] = write[w]
  PROVE  FileState'
<1>1. file' = file /\ blended' = blended
  BY DEF diskVars
<1>2. \A k : OpenOn(k)' \subseteq OpenOn(k) /\ \A w \in OpenOn(k)' : write'[w].at = write[w].at
  BY DEF OpenOn
<1>3. ASSUME NEW k \in Key \ blended
      PROVE  /\ \A v, w \in OpenOn(k)' : v = w
             /\ \E n \in 0..Pieces : Filled(k, n)' /\ \A w \in OpenOn(k)' : write'[w].at = n
  <2>1. PICK n \in 0..Pieces : Filled(k, n) /\ \A w \in OpenOn(k) : write[w].at = n
    BY DEF FileState
  <2>2. Filled(k, n)'
    BY <1>1, <2>1 DEF Filled
  <2>3. \A w \in OpenOn(k)' : write'[w].at = n
    BY <1>2, <2>1
  <2> QED BY <1>2, <2>2, <2>3 DEF FileState
<1> QED BY <1>1, <1>3 DEF FileState

\* Removing files cuts the writes that have them open, and leaves a name
\* without a piece to no key of ks.
LEMMA UnlinkedKeeps ==
  ASSUME NEW ks, WriteState, FileState, Unlinked(ks), UNCHANGED <<pending, pendingBytes>>
  PROVE  WriteState' /\ FileState'
<1>1. /\ file' \in [Key -> SUBSET (0..Pieces)] /\ blended' = blended \ ks
      /\ \A k \in Key : file'[k] = IF k \in ks THEN {} ELSE file[k]
  BY DEF Unlinked, FileState
<1>2. ASSUME NEW w \in Writer
      PROVE  /\ write'[w] \in [st : {"free", "queued", "open", "cut"}, key : Key \union {None}, at : 0..Pieces]
             /\ write'[w].key = write[w].key /\ write'[w].at = write[w].at
             /\ write'[w].st = "free" <=> write[w].st = "free"
             /\ write'[w].st = "queued" <=> write[w].st = "queued"
             /\ write'[w].st = "open" <=> write[w].st = "open" /\ write[w].key \notin ks
  BY DEF Unlinked, WriteState
<1>3. write' \in [Writer -> [st : {"free", "queued", "open", "cut"}, key : Key \union {None}, at : 0..Pieces]]
  BY <1>2 DEF Unlinked
<1>4. WriteState'
  BY <1>2, <1>3, WritesMove
<1>5. ASSUME NEW k \in Key, k \notin blended'
      PROVE  /\ \A v, w \in OpenOn(k)' : v = w
             /\ \E n \in 0..Pieces : Filled(k, n)' /\ \A w \in OpenOn(k)' : write'[w].at = n
  <2>1. CASE k \in ks
    <3>1. OpenOn(k)' = {}
      BY <1>2, <2>1 DEF OpenOn
    <3>2. 0 \in 0..Pieces /\ Filled(k, 0)'
      BY <1>1, <2>1, PieceAssumption DEF Filled
    <3> QED BY <3>1, <3>2
  <2>2. CASE k \notin ks
    <3>1. OpenOn(k)' = OpenOn(k) /\ OpenOn(k) \subseteq Writer /\ k \notin blended
      BY <1>1, <1>2, <1>5, <2>2 DEF OpenOn
    <3>2. PICK n \in 0..Pieces : Filled(k, n) /\ \A w \in OpenOn(k) : write[w].at = n
      BY <3>1 DEF FileState
    <3>3. Filled(k, n)' /\ \A w \in OpenOn(k)' : write'[w].at = n
      BY <1>1, <1>2, <2>2, <3>1, <3>2 DEF Filled
    <3> QED BY <3>1, <3>3 DEF FileState
  <2> QED BY <2>1, <2>2
<1>6. \A w \in Writer : write'[w].st = "queued" => write'[w].at = 0
  BY <1>2 DEF FileState
<1>7. blended' \subseteq Key
  BY <1>1 DEF FileState
<1> QED BY <1>1, <1>4, <1>5, <1>6, <1>7 DEF FileState

\* flushIndex saves the index as it is now, or leaves that to the save under way.
LEMMA FlushIndexKeeps ==
  ASSUME IndexState, FlushIndex
  PROVE  /\ IsIndex(saved') /\ (saving' # None => IsIndex(saving'))
         /\ dirty' \in BOOLEAN /\ chained' \in BOOLEAN
BY EmptyIndex DEF IndexState, FlushIndex, Saves

--------------------------------------------------------------------------------
(* The disk tier: one lemma per action *)

\* Initially nothing is indexed, in flight or read.
LEMMA CacheInitInv == CacheInit => CacheIInv
<1> SUFFICES ASSUME CacheInit PROVE CacheIInv
  OBVIOUS
<1> USE DEF CacheInit
<1>1. IndexState
  <2>1. IsIndex(index) /\ IsIndex(saved)
    BY EmptyIndex, Zenon
  <2>2. /\ saving = None /\ bytes = 0 /\ budget \in Budgets
        /\ dirty = FALSE /\ timer = FALSE /\ chained = FALSE
    BY Zenon
  <2>3. 0 \in Int
    OBVIOUS
  <2> HIDE DEF CacheInit
  <2> QED BY <2>1, <2>2, <2>3 DEF IndexState
<1>2. WriteState
  <2>1. InFlight = {}
    BY DEF InFlight, Free
  <2>2. SumOf(Payload, InFlight) = 0
    BY <2>1, SumEmpty
  <2>3. 0 < MaxBytes + LargestBody
    BY QueueAssumption, LargestBodyFacts
  <2>4. \A w \in InFlight : write[w].key \in Key
    BY <2>1
  <2> QED BY <2>2, <2>3, <2>4, PieceAssumption DEF WriteState, Free
<1>3. ReadState
  BY DEF ReadState, NoRead
<1>4. LifeState
  BY DEF LifeState
<1>5. DiskState
  BY BoundAssumption DEF DiskState
<1>6. FileState
  <2>1. file = [k \in Key |-> {}] /\ blended = {} /\ write = [w \in Writer |-> Free]
    BY Zenon
  <2> HIDE DEF CacheInit
  <2>2. \A k : OpenOn(k) = {}
    BY <2>1 DEF OpenOn, Free
  <2>3. 0 \in 0..Pieces /\ \A k \in Key : Filled(k, 0)
    BY <2>1, PieceAssumption DEF Filled
  <2>4. \A w \in Writer : write[w].at = 0
    BY <2>1 DEF Free
  <2> QED BY <2>1, <2>2, <2>3, <2>4 DEF FileState
<1> QED BY <1>1, <1>2, <1>3, <1>4, <1>5, <1>6 DEF CacheIInv

\* set: a new write of k is the pending one, within the back-pressure.
LEMMA SetInv ==
  ASSUME CacheIInv, NEW k \in Key, Set(k)
  PROVE  CacheIInv'
<1> USE DEF CacheIInv
<1>1. IndexState' /\ DiskState'
  <2> DEFINE q == Append(Without(index, k), [key |-> k, size |-> Body[k]])
             n == bytes - SizeIn(index, k) + Body[k]
  <2>1. Body[k] \in Nat
    BY LargestBodyFacts
  <2>2. IsIndex(q)
    <3>1. IsIndex(Without(index, k)) /\ k \notin KeysOf(Without(index, k))
      BY WithoutFacts DEF IndexState
    <3>2. [key |-> k, size |-> Body[k]] \in Entry
      BY <2>1 DEF Entry
    <3> QED BY <3>1, <3>2, AddedIndex
  <2>3. n \in Int
    <3>1. SizeIn(index, k) \in Nat
      BY FilteredIndex, SizesNatural DEF SizeIn, IndexState
    <3> QED BY <3>1, <2>1 DEF IndexState
  <2>4. Evicts(q, n, budget)
    BY DEF Set
  <2> HIDE DEF q, n
  <2>5. IsIndex(index') /\ bytes' \in Int /\ removing' \in [Key -> 0..RmBound]
    BY <2>2, <2>3, <2>4, EvictsKeeps DEF IndexState
  <2>6. dirty' \in BOOLEAN /\ timer' \in BOOLEAN
    BY DEF Set, Arms, IndexState, LifeState
  <2> QED BY <2>5, <2>6 DEF Set, IndexState, DiskState, flushVars, saveVars
<1>2. WriteState'
  <2>1. PICK w \in Writer \ InFlight :
          /\ write' = [write EXCEPT ![w] = [st |-> "queued", key |-> k, at |-> 0]]
          /\ pending' = [pending EXCEPT ![k] = w]
    BY DEF Set
  <2>2. /\ IsFiniteSet(InFlight) /\ InFlight \subseteq Writer
        /\ \A v \in InFlight : Payload[v] = Body[write[v].key] /\ Payload[v] \in Nat
        /\ pendingBytes \in Nat
    BY PayloadFacts
  <2>3. /\ write' \in [Writer -> [st : {"free", "queued", "open", "cut"}, key : Key \union {None}, at : 0..Pieces]]
        /\ write'[w] = [st |-> "queued", key |-> k, at |-> 0]
        /\ \A v \in Writer \ {w} : write'[v] = write[v]
    BY <2>1, PieceAssumption DEF WriteState
  <2>4. /\ pending' \in [Key -> Writer \union {None}]
        /\ pending'[k] = w /\ \A j \in Key \ {k} : pending'[j] = pending[j]
    BY <2>1 DEF WriteState
  <2>5. InFlight' = InFlight \union {w} /\ w \notin InFlight
    BY <2>1, <2>3 DEF InFlight
  <2>6. \A v \in InFlight' : Payload'[v] = Body[write'[v].key]
    BY DEF Payload
  <2>7. \A v \in InFlight : write'[v] = write[v] /\ Payload'[v] = Payload[v]
    BY <2>2, <2>3, <2>5, <2>6
  <2>8. Body[k] \in Nat /\ Body[k] <= LargestBody /\ LargestBody \in Nat
    BY LargestBodyFacts
  <2>9. Payload'[w] = Body[k]
    BY <2>3, <2>5, <2>6
  <2>10. SumOf(Payload', InFlight') = pendingBytes + Body[k]
    <3>1. IsFiniteSet(InFlight \union {w}) /\ (InFlight \union {w}) \ {w} = InFlight
      BY <2>2, <2>5, FS_AddElement
    <3>2. \A v \in InFlight \union {w} : Payload'[v] \in Nat
      BY <2>2, <2>7, <2>8, <2>9
    <3>3. SumOf(Payload', InFlight \union {w}) = Payload'[w] + SumOf(Payload', (InFlight \union {w}) \ {w})
      BY <3>1, <3>2, SumAdd
    <3>4. SumOf(Payload', InFlight) = SumOf(Payload, InFlight)
      BY <2>2, <2>7, SumSame
    <3>5. SumOf(Payload', InFlight') = Body[k] + SumOf(Payload, InFlight)
      BY <3>1, <3>3, <3>4, <2>5, <2>9, Zenon
    <3>6. pendingBytes = SumOf(Payload, InFlight)
      BY DEF WriteState
    <3> QED BY <3>5, <3>6, <2>2, <2>8
  <2>11. pendingBytes' = pendingBytes + Body[k] /\ pendingBytes < MaxBytes
    BY <2>2, QueueAssumption DEF Set, Saturated
  <2>12. pendingBytes' < MaxBytes + LargestBody
    BY <2>2, <2>8, <2>11, QueueAssumption
  <2>13. \A v \in InFlight' : write'[v].key \in Key
    BY <2>3, <2>5, <2>7 DEF WriteState
  <2>14. \A j \in Key : pending'[j] # None => pending'[j] \in InFlight' /\ write'[pending'[j]].key = j
    <3> SUFFICES ASSUME NEW j \in Key, pending'[j] # None
                 PROVE  pending'[j] \in InFlight' /\ write'[pending'[j]].key = j
      OBVIOUS
    <3>1. CASE j = k
      BY <3>1, <2>3, <2>4, <2>5
    <3>2. CASE j # k
      <4>1. pending'[j] = pending[j] /\ pending[j] \in InFlight /\ write[pending[j]].key = j
        BY <3>2, <2>4 DEF WriteState
      <4> QED BY <4>1, <2>5, <2>7
    <3> QED BY <3>1, <3>2
  <2>15. LargestBody' = LargestBody
    BY DEF LargestBody
  <2> QED BY <2>3, <2>4, <2>10, <2>11, <2>12, <2>13, <2>14, <2>15 DEF WriteState
<1>3. ReadState' /\ LifeState'
  BY DEF Set, ReadState, LifeState, flushVars, lifeVars, loadVars
<1>4. FileState'
  <2>1. PICK w \in Writer \ InFlight : write' = [write EXCEPT ![w] = [st |-> "queued", key |-> k, at |-> 0]]
    BY DEF Set
  <2>2. \A v \in Writer : v = w \/ write'[v] = write[v]
    BY <2>1 DEF WriteState
  <2>3. write'[w].st = "queued" /\ write'[w].at = 0
    BY <2>1 DEF WriteState
  <2>4. UNCHANGED diskVars
    BY DEF Set
  <2> QED BY <2>2, <2>3, <2>4, FilesStay DEF FileState
<1> QED BY <1>1, <1>2, <1>3, <1>4

\* A write opens, and truncates its file: it starts again, unless another write
\* has it open.
LEMMA WriteOpensInv ==
  ASSUME CacheIInv, NEW w \in Writer, WriteOpens(w)
  PROVE  CacheIInv'
<1> USE DEF CacheIInv
<1>0. PICK k : k = write[w].key
  OBVIOUS
<1>1. /\ k \in Key /\ write[w].st = "queued" /\ write[w].at = 0
      /\ write' = [write EXCEPT ![w].st = "open"] /\ file' = [file EXCEPT ![k] = {0}]
      /\ blended' = IF OpenOn(k) = {} THEN blended \ {k} ELSE blended \union {k}
  BY <1>0 DEF WriteOpens, WriteState, FileState, InFlight
<1>2. PICK t : t = [write[w] EXCEPT !.st = "open"]
  OBVIOUS
<1>3. write' = [write EXCEPT ![w] = t] /\ t.st = "open" /\ t.key = k /\ t.at = 0
      /\ t \in [st : {"free", "queued", "open", "cut"}, key : Key \union {None}, at : 0..Pieces]
  BY <1>0, <1>1, <1>2 DEF WriteState
<1>4. /\ write' \in [Writer -> [st : {"free", "queued", "open", "cut"}, key : Key \union {None}, at : 0..Pieces]]
      /\ write'[w] = t /\ \A v \in Writer \ {w} : write'[v] = write[v]
  BY <1>3 DEF WriteState
<1>5. WriteState'
  <2>1. \A v \in Writer : /\ write'[v].key = write[v].key
                          /\ write'[v].st = "free" <=> write[v].st = "free"
    BY <1>0, <1>1, <1>3, <1>4
  <2>2. UNCHANGED <<pending, pendingBytes>>
    BY DEF WriteOpens
  <2> QED BY <1>4, <2>1, <2>2, WritesMove
<1>6. FileState'
  <2>1. file' \in [Key -> SUBSET (0..Pieces)] /\ file'[k] = {0} /\ \A j \in Key \ {k} : file'[j] = file[j]
    BY <1>1, PieceAssumption DEF FileState
  <2>2. /\ OpenOn(k)' = OpenOn(k) \union {w}
        /\ \A j \in Key \ {k} : OpenOn(j)' = OpenOn(j)
    <3>1. ASSUME NEW j \in Key, NEW v \in Writer
          PROVE  v \in OpenOn(j)' <=> v \in OpenOn(j) \/ (v = w /\ j = k)
      <4>1. CASE v = w
        BY <1>0, <1>1, <1>3, <1>4, <4>1 DEF OpenOn
      <4>2. CASE v # w
        BY <1>4, <4>2 DEF OpenOn
      <4> QED BY <4>1, <4>2
    <3>2. \A j : OpenOn(j)' \subseteq Writer /\ OpenOn(j) \subseteq Writer
      BY DEF OpenOn
    <3> QED BY <1>1, <3>1, <3>2
  <2>3. ASSUME NEW j \in Key, j \notin blended'
        PROVE  /\ \A u, v \in OpenOn(j)' : u = v
               /\ \E n \in 0..Pieces : Filled(j, n)' /\ \A v \in OpenOn(j)' : write'[v].at = n
    <3>1. CASE j = k
      <4>1. OpenOn(k)' = {w}
        BY <1>1, <2>2, <2>3, <3>1
      <4>2. 0 \in 0..Pieces /\ Filled(k, 0)'
        BY <2>1, PieceAssumption DEF Filled
      <4> QED BY <1>3, <1>4, <3>1, <4>1, <4>2
    <3>2. CASE j # k
      <4>1. j \notin blended /\ OpenOn(j)' = OpenOn(j) /\ \A v \in OpenOn(j) : v \in Writer \ {w}
        BY <1>1, <2>2, <2>3, <3>2 DEF OpenOn
      <4>2. PICK n \in 0..Pieces : Filled(j, n) /\ \A v \in OpenOn(j) : write[v].at = n
        BY <4>1 DEF FileState
      <4>3. Filled(j, n)' /\ \A v \in OpenOn(j)' : write'[v].at = n
        BY <1>4, <2>1, <3>2, <4>1, <4>2 DEF Filled
      <4> QED BY <4>1, <4>3 DEF FileState
    <3> QED BY <3>1, <3>2
  <2>4. \A v \in Writer : write'[v].st = "queued" => write'[v].at = 0
    BY <1>3, <1>4 DEF FileState
  <2>5. blended' \subseteq Key
    BY <1>1 DEF FileState
  <2> QED BY <2>1, <2>3, <2>4, <2>5 DEF FileState
<1>7. IndexState' /\ ReadState' /\ LifeState' /\ DiskState'
  BY DEF WriteOpens, IndexState, ReadState, LifeState, DiskState, indexVars, flushVars, saveVars, lifeVars,
         loadVars
<1> QED BY <1>5, <1>6, <1>7

\* A write puts its next piece, where it ends if no other write has it open.
LEMMA WritePutsInv ==
  ASSUME CacheIInv, NEW w \in Writer, WritePuts(w)
  PROVE  CacheIInv'
<1> USE DEF CacheIInv
<1>1. PICK k, n : k = write[w].key /\ n = write[w].at + 1
  OBVIOUS
<1>2. /\ k \in Key /\ write[w].st \in {"open", "cut"} /\ n \in 1..Pieces /\ n - 1 = write[w].at
      /\ write' = [write EXCEPT ![w].at = n]
      /\ file' = IF write[w].st = "open" THEN [file EXCEPT ![k] = file[k] \union {n}] ELSE file
      /\ blended' = blended
  <2>1. write[w].at \in 0..Pieces /\ k \in Key
    BY <1>1 DEF WritePuts, WriteState, InFlight
  <2> QED BY <1>1, <2>1, PieceAssumption DEF WritePuts
<1>3. PICK t : t = [write[w] EXCEPT !.at = n]
  OBVIOUS
<1>4. write' = [write EXCEPT ![w] = t] /\ t.st = write[w].st /\ t.key = k /\ t.at = n
      /\ t \in [st : {"free", "queued", "open", "cut"}, key : Key \union {None}, at : 0..Pieces]
  BY <1>1, <1>2, <1>3 DEF WriteState
<1>5. /\ write' \in [Writer -> [st : {"free", "queued", "open", "cut"}, key : Key \union {None}, at : 0..Pieces]]
      /\ write'[w] = t /\ \A v \in Writer \ {w} : write'[v] = write[v]
  BY <1>4 DEF WriteState
<1>6. WriteState'
  <2>1. \A v \in Writer : /\ write'[v].key = write[v].key
                          /\ write'[v].st = "free" <=> write[v].st = "free"
    BY <1>1, <1>4, <1>5
  <2>2. UNCHANGED <<pending, pendingBytes>>
    BY DEF WritePuts
  <2> QED BY <1>5, <2>1, <2>2, WritesMove
<1>7. FileState'
  <2>1. file' \in [Key -> SUBSET (0..Pieces)] /\ \A j \in Key \ {k} : file'[j] = file[j]
    <3>1. file[k] \union {n} \in SUBSET (0..Pieces)
      BY <1>2 DEF FileState
    <3> QED BY <1>2, <3>1 DEF FileState
  <2>2. \A j \in Key : OpenOn(j)' = OpenOn(j)
    BY <1>1, <1>4, <1>5 DEF OpenOn
  <2>3. ASSUME NEW j \in Key \ blended
        PROVE  /\ \A u, v \in OpenOn(j)' : u = v
               /\ \E m \in 0..Pieces : Filled(j, m)' /\ \A v \in OpenOn(j)' : write'[v].at = m
    <3>1. PICK m \in 0..Pieces : Filled(j, m) /\ \A v \in OpenOn(j) : write[v].at = m
      BY DEF FileState
    <3>2. CASE w \in OpenOn(j)
      <4>1. j = k /\ OpenOn(j) = {w} /\ write[w].st = "open"
        BY <1>1, <2>3, <3>2 DEF OpenOn, FileState
      <4>2. m = n - 1 /\ n \in 0..Pieces
        BY <1>2, <3>1, <3>2
      <4>3. file'[k] = file[k] \union {n}
        BY <1>2, <4>1 DEF FileState
      <4>4. \A i \in 1..Pieces : i \in file'[k] <=> i <= n
        <5>1. \A i \in 1..Pieces : i <= n <=> i <= m \/ i = n
          BY <1>2, <4>2
        <5> QED BY <3>1, <4>1, <4>3, <5>1 DEF Filled
      <4>5. Filled(j, n)'
        BY <4>1, <4>4 DEF Filled
      <4> QED BY <1>4, <1>5, <2>2, <4>1, <4>2, <4>5
    <3>3. CASE w \notin OpenOn(j)
      <4>1. file'[j] = file[j]
        BY <1>1, <1>2, <2>1, <3>3 DEF OpenOn
      <4>2. Filled(j, m)'
        BY <3>1, <4>1 DEF Filled
      <4>3. \A v \in OpenOn(j)' : write'[v].at = m
        BY <1>5, <2>2, <3>1, <3>3 DEF OpenOn
      <4> QED BY <2>2, <2>3, <4>2, <4>3 DEF FileState
    <3> QED BY <3>2, <3>3
  <2>4. \A v \in Writer : write'[v].st = "queued" => write'[v].at = 0
    BY <1>2, <1>4, <1>5 DEF FileState
  <2> QED BY <1>2, <2>1, <2>3, <2>4 DEF FileState
<1>8. IndexState' /\ ReadState' /\ LifeState' /\ DiskState'
  BY DEF WritePuts, IndexState, ReadState, LifeState, DiskState, indexVars, flushVars, saveVars, lifeVars,
         loadVars
<1> QED BY <1>6, <1>7, <1>8

\* A write that settles wakes the readers that wait for it, and closes its file.
LEMMA SettledRest ==
  ASSUME WriteState, ReadState, FileState, NEW w \in Writer, Settled(w), UNCHANGED diskVars
  PROVE  ReadState' /\ FileState'
<1>1. \A v \in Writer : write'[v] = Free \/ write'[v] = write[v]
  BY DEF Settled, WriteState
<1>2. FileState'
  BY <1>1, FilesStay DEF FileState, Free
<1>3. ReadState'
  <2>1. ASSUME NEW r \in Reader
        PROVE  /\ reader'[r] \in [st : {"idle", "await", "read"}, key : Key \union {None},
                                 on : Writer \union {None}]
               /\ reader'[r].st # "idle" => reader'[r].key \in Key
    <3>1. CASE reader[r].st = "await" /\ reader[r].on = w
      <4>1. reader'[r] = [st |-> "read", key |-> reader[r].key, on |-> None]
        BY <3>1 DEF Settled
      <4>2. reader[r].key \in Key
        BY <3>1 DEF ReadState
      <4> QED BY <4>1, <4>2
    <3>2. CASE ~(reader[r].st = "await" /\ reader[r].on = w)
      <4>1. reader'[r] = reader[r]
        BY <3>2 DEF Settled
      <4> QED BY <4>1 DEF ReadState
    <3> QED BY <3>1, <3>2
  <2>2. reader' = [r \in Reader |-> reader'[r]]
    BY DEF Settled
  <2> QED BY <2>1, <2>2 DEF ReadState
<1> QED BY <1>2, <1>3

\* A write is done, and whatever is in the file stays there.
LEMMA WriteDoneInv ==
  ASSUME CacheIInv, NEW w \in Writer, WriteDone(w)
  PROVE  CacheIInv'
<1> USE DEF CacheIInv
<1>1. WriteState'
  <2>1. w \in InFlight /\ Settled(w) /\ pendingBytes' = pendingBytes - Body[write[w].key]
    BY DEF WriteDone, InFlight, ReturnsBytes
  <2> QED BY <2>1, SettledKeeps
<1>2. ReadState' /\ FileState'
  BY SettledRest DEF WriteDone, fsVars
<1>3. IndexState' /\ LifeState' /\ DiskState'
  BY DEF WriteDone, IndexState, LifeState, DiskState, indexVars, flushVars, saveVars, fsVars, lifeVars, loadVars
<1> QED BY <1>1, <1>2, <1>3

\* A write fails: its bytes are returned and the entry rolled back.
LEMMA WriteFailsInv ==
  ASSUME CacheIInv, NEW w \in Writer, WriteFails(w)
  PROVE  CacheIInv'
<1> USE DEF CacheIInv
<1>1. w \in InFlight /\ write[w].key \in Key
  BY DEF WriteFails, InFlight, WriteState
<1>2. WriteState'
  <2>1. Settled(w) /\ pendingBytes' = pendingBytes - Body[write[w].key]
    BY DEF WriteFails, ReturnsBytes
  <2> QED BY <2>1, <1>1, SettledKeeps
<1>3. /\ IsIndex(index') /\ bytes' \in Int /\ dirty' \in BOOLEAN /\ timer' \in BOOLEAN
      /\ removing' \in [Key -> 0..RmBound]
  BY <1>1, DropKeeps DEF WriteFails, LifeState
<1>4. IndexState' /\ DiskState'
  BY <1>3 DEF WriteFails, IndexState, DiskState, flushVars, saveVars
<1>5. ReadState' /\ FileState'
  BY SettledRest DEF WriteFails
<1>6. LifeState'
  BY DEF WriteFails, LifeState, flushVars, lifeVars, loadVars
<1> QED BY <1>2, <1>4, <1>5, <1>6

\* A removal in flight unlinks its file.
LEMMA RemovalLandsInv ==
  ASSUME CacheIInv, NEW k \in Key, RemovalLands(k)
  PROVE  CacheIInv'
<1> USE DEF CacheIInv
<1>1. WriteState' /\ FileState'
  BY UnlinkedKeeps DEF RemovalLands
<1>2. DiskState'
  <2>1. removing[k] \in 0..RmBound /\ removing[k] > 0 /\ removing' = [removing EXCEPT ![k] = removing[k] - 1]
    BY DEF RemovalLands, DiskState
  <2>2. removing[k] - 1 \in 0..RmBound
    BY <2>1, BoundAssumption
  <2>3. removing' \in [Key -> 0..RmBound]
    BY <2>1, <2>2 DEF DiskState
  <2> QED BY <2>3 DEF DiskState
<1>3. IndexState' /\ ReadState' /\ LifeState'
  BY DEF RemovalLands, IndexState, ReadState, LifeState, indexVars, flushVars, saveVars,
         lifeVars, loadVars
<1> QED BY <1>1, <1>2, <1>3

\* getAsync begins, and waits for the write of its key in flight now.
LEMMA GetStartInv ==
  ASSUME CacheIInv, NEW r \in Reader, NEW k \in Key, GetStart(r, k)
  PROVE  CacheIInv'
<1> USE DEF CacheIInv
<1>1. ReadState'
  <2>1. PICK s \in {"await", "read"} :
          reader' = [reader EXCEPT ![r] = [st |-> s, key |-> k, on |-> pending[k]]]
    BY DEF GetStart
  <2>2. pending[k] \in Writer \union {None}
    BY DEF WriteState
  <2> QED BY <2>1, <2>2 DEF ReadState
<1>2. WriteState'
  <2>1. /\ UNCHANGED <<write, pending, pendingBytes>>
        /\ \A w \in Writer : write[w].st = "free" <=> write[w].st = "free"
    BY DEF GetStart, writeVars
  <2> QED BY <2>1, WritesMove DEF WriteState
<1>3. IndexState' /\ DiskState' /\ LifeState'
  BY DEF GetStart, IndexState, DiskState, LifeState, indexVars, flushVars, saveVars, fsVars, lifeVars, loadVars
<1>4. FileState'
  BY FilesStay DEF GetStart, writeVars, fsVars, FileState
<1> QED BY <1>1, <1>2, <1>3, <1>4

\* A hit moves its entry to the end.
LEMMA GetHitInv ==
  ASSUME CacheIInv, NEW r \in Reader, GetHit(r)
  PROVE  CacheIInv'
<1> USE DEF CacheIInv
<1> DEFINE k == reader[r].key
<1>1. k \in Key
  BY DEF GetHit, ReadState
<1>2. ReadState'
  BY DEF GetHit, ReadState, NoRead
<1>3. IsIndex(index')
  <2>1. IsIndex(Without(index, k)) /\ k \notin KeysOf(Without(index, k))
    BY <1>1, WithoutFacts DEF IndexState
  <2>2. [key |-> k, size |-> Body[k] + Overhead] \in Entry
    BY <1>1, LargestBodyFacts, BudgetAssumption DEF Entry
  <2>3. index' = Append(Without(index, k), [key |-> k, size |-> Body[k] + Overhead])
    BY DEF GetHit
  <2> QED BY <2>1, <2>2, <2>3, AddedIndex
<1>4. WriteState'
  BY WritesMove DEF GetHit, writeVars, WriteState
<1>5. IndexState' /\ DiskState' /\ LifeState'
  BY <1>3 DEF GetHit, IndexState, DiskState, LifeState, flushVars, saveVars, fsVars, lifeVars, loadVars
<1>6. FileState'
  BY FilesStay DEF GetHit, writeVars, fsVars, FileState
<1> QED BY <1>2, <1>4, <1>5, <1>6

\* A read that fails drops the entry.
LEMMA GetFailsInv ==
  ASSUME CacheIInv, NEW r \in Reader, GetFails(r)
  PROVE  CacheIInv'
<1> USE DEF CacheIInv
<1>1. reader[r].key \in Key
  BY DEF GetFails, ReadState
<1>2. /\ IsIndex(index') /\ bytes' \in Int /\ dirty' \in BOOLEAN /\ timer' \in BOOLEAN
      /\ removing' \in [Key -> 0..RmBound]
  BY <1>1, DropKeeps DEF GetFails, LifeState
<1>3. IndexState' /\ DiskState'
  BY <1>2 DEF GetFails, IndexState, DiskState, flushVars, saveVars
<1>4. ReadState'
  BY DEF GetFails, ReadState, NoRead
<1>5. WriteState'
  BY WritesMove DEF GetFails, writeVars, WriteState
<1>6. LifeState'
  BY DEF GetFails, LifeState, flushVars, lifeVars, loadVars
<1>7. FileState'
  BY FilesStay DEF GetFails, writeVars, fsVars, FileState
<1> QED BY <1>3, <1>4, <1>5, <1>6, <1>7

\* delete: the entry is dropped.
LEMMA DeleteInv ==
  ASSUME CacheIInv, NEW k \in Key, Delete(k)
  PROVE  CacheIInv'
<1> USE DEF CacheIInv
<1>1. /\ IsIndex(index') /\ bytes' \in Int /\ dirty' \in BOOLEAN /\ timer' \in BOOLEAN
      /\ removing' \in [Key -> 0..RmBound]
  BY DropKeeps DEF Delete, LifeState
<1>2. IndexState' /\ DiskState'
  BY <1>1 DEF Delete, IndexState, DiskState, flushVars, saveVars
<1>3. WriteState'
  BY WritesMove DEF Delete, writeVars, WriteState
<1>4. ReadState' /\ LifeState'
  BY DEF Delete, ReadState, LifeState, flushVars, lifeVars, loadVars
<1>5. FileState'
  BY FilesStay DEF Delete, writeVars, fsVars, FileState
<1> QED BY <1>2, <1>3, <1>4, <1>5

\* clear: the index is emptied at once.
LEMMA ClearInv ==
  ASSUME CacheIInv, Clear
  PROVE  CacheIInv'
<1> USE DEF CacheIInv
<1>1. index' = <<>> /\ bytes' = 0 /\ dirty' = TRUE
      /\ UNCHANGED <<timer, budget, saving, chained, saved>>
  BY DEF Clear, flushVars, saveVars, fsVars
<1>2. IsIndex(index')
  BY <1>1, EmptyIndex, Zenon
<1>3. IndexState'
  BY <1>1, <1>2 DEF IndexState
<1>4. WriteState'
  BY WritesMove DEF Clear, writeVars, WriteState
<1>5. ReadState' /\ LifeState' /\ DiskState'
  BY DEF Clear, ReadState, LifeState, DiskState, flushVars, fsVars, loadVars
<1>6. FileState'
  BY FilesStay DEF Clear, writeVars, fsVars, FileState
<1> QED BY <1>3, <1>4, <1>5, <1>6

\* ... and then the directory, the persisted index with it.
LEMMA ClearLandsInv ==
  ASSUME CacheIInv, ClearLands
  PROVE  CacheIInv'
<1> USE DEF CacheIInv
<1>1. WriteState' /\ FileState'
  BY UnlinkedKeeps DEF ClearLands
<1>2. IsIndex(saved')
  <2>1. saved' = <<>>
    BY DEF ClearLands
  <2> QED BY <2>1, EmptyIndex, Zenon
<1>3. IndexState'
  BY <1>2 DEF ClearLands, IndexState, indexVars, flushVars, saveVars
<1>4. DiskState'
  BY DEF ClearLands, DiskState
<1>5. ReadState' /\ LifeState'
  BY DEF ClearLands, ReadState, LifeState, flushVars, loadVars
<1> QED BY <1>1, <1>3, <1>4, <1>5

\* A new budget trims the index to it.
LEMMA ResizeInv ==
  ASSUME CacheIInv, NEW b \in Budgets, Resize(b)
  PROVE  CacheIInv'
<1> USE DEF CacheIInv
<1>1. /\ IsIndex(index') /\ bytes' \in Int /\ dirty' \in BOOLEAN /\ timer' \in BOOLEAN
      /\ removing' \in [Key -> 0..RmBound]
  BY TrimsKeeps DEF Resize, LifeState
<1>2. IndexState' /\ DiskState'
  BY <1>1 DEF Resize, IndexState, DiskState, flushVars, saveVars
<1>3. WriteState'
  BY WritesMove DEF Resize, writeVars, WriteState
<1>4. ReadState' /\ LifeState'
  BY DEF Resize, ReadState, LifeState, flushVars, lifeVars, loadVars
<1>5. FileState'
  BY FilesStay DEF Resize, writeVars, fsVars, FileState
<1> QED BY <1>2, <1>3, <1>4, <1>5

\* The timer of the index fires and flushes it.
LEMMA TimerFiresInv ==
  ASSUME CacheIInv, TimerFires
  PROVE  CacheIInv'
<1> USE DEF CacheIInv
<1>1. /\ IsIndex(saved') /\ (saving' # None => IsIndex(saving'))
      /\ dirty' \in BOOLEAN /\ chained' \in BOOLEAN
  BY FlushIndexKeeps DEF TimerFires
<1>2. IndexState'
  BY <1>1 DEF TimerFires, IndexState
<1>3. WriteState'
  BY WritesMove DEF TimerFires, writeVars, WriteState
<1>4. ReadState' /\ LifeState' /\ DiskState'
  BY DEF TimerFires, ReadState, LifeState, DiskState, lifeVars, loadVars
<1>5. FileState'
  BY FilesStay DEF TimerFires, writeVars, fsVars, FileState
<1> QED BY <1>2, <1>3, <1>4, <1>5

\* A save ends, and the one chained behind it begins if there is anything to save.
LEMMA SaveEndsInv ==
  ASSUME CacheIInv, SaveEnds
  PROVE  CacheIInv'
<1> USE DEF CacheIInv
<1>1. PICK ok \in BOOLEAN :
        IF chained /\ (dirty \/ ~ok)
          THEN Saves
          ELSE /\ saving' = None /\ chained' = FALSE /\ dirty' = (dirty \/ ~ok)
               /\ saved' = IF ok THEN saving ELSE saved
  BY DEF SaveEnds
<1>2. saving # None /\ UNCHANGED <<index, bytes, timer, budget>>
  BY DEF SaveEnds
<1>3. /\ IsIndex(saved') /\ (saving' # None => IsIndex(saving'))
      /\ dirty' \in BOOLEAN /\ chained' \in BOOLEAN
  <2>1. ASSUME chained /\ (dirty \/ ~ok)
        PROVE  /\ IsIndex(saved') /\ (saving' # None => IsIndex(saving'))
               /\ dirty' \in BOOLEAN /\ chained' \in BOOLEAN
    <3>1. saving' = index /\ dirty' = FALSE /\ chained' = FALSE /\ saved' = <<>>
      BY <1>1, <2>1 DEF Saves
    <3>2. IsIndex(saved') /\ IsIndex(saving')
      BY <3>1, EmptyIndex, Zenon DEF IndexState
    <3> QED BY <3>1, <3>2
  <2>2. ASSUME ~(chained /\ (dirty \/ ~ok))
        PROVE  /\ IsIndex(saved') /\ (saving' # None => IsIndex(saving'))
               /\ dirty' \in BOOLEAN /\ chained' \in BOOLEAN
    BY <1>1, <1>2, <2>2 DEF IndexState
  <2> QED BY <2>1, <2>2
<1>4. IndexState'
  BY <1>2, <1>3 DEF IndexState
<1>5. WriteState'
  BY WritesMove DEF SaveEnds, writeVars, WriteState
<1>6. ReadState' /\ LifeState' /\ DiskState'
  BY DEF SaveEnds, ReadState, LifeState, DiskState, lifeVars, loadVars
<1>7. FileState'
  BY FilesStay DEF SaveEnds, writeVars, fsVars, FileState
<1> QED BY <1>4, <1>5, <1>6, <1>7

\* flush and close begin to wait for the writes in flight now.
LEMMA FlushStartInv ==
  ASSUME CacheIInv, NEW c \in BOOLEAN, FlushStart(c)
  PROVE  CacheIInv'
<1> USE DEF CacheIInv
<1>1. LifeState'
  <2>1. awaited' \subseteq Writer
    BY DEF FlushStart, WriteState
  <2> QED BY <2>1 DEF FlushStart, LifeState, loadVars
<1>2. IndexState'
  BY DEF FlushStart, IndexState, saveVars, fsVars
<1>3. WriteState'
  BY WritesMove DEF FlushStart, writeVars, WriteState
<1>4. ReadState' /\ DiskState'
  BY DEF FlushStart, ReadState, DiskState, fsVars
<1>5. FileState'
  BY FilesStay DEF FlushStart, writeVars, fsVars, FileState
<1> QED BY <1>1, <1>2, <1>3, <1>4, <1>5

\* They have settled, and the index is flushed.
LEMMA FlushDrainedInv ==
  ASSUME CacheIInv, FlushDrained
  PROVE  CacheIInv'
<1> USE DEF CacheIInv
<1>1. /\ IsIndex(saved') /\ (saving' # None => IsIndex(saving'))
      /\ dirty' \in BOOLEAN /\ chained' \in BOOLEAN
  BY FlushIndexKeeps DEF FlushDrained
<1>2. IndexState'
  BY <1>1 DEF FlushDrained, IndexState
<1>3. WriteState'
  BY WritesMove DEF FlushDrained, writeVars, WriteState
<1>4. ReadState' /\ LifeState' /\ DiskState'
  BY DEF FlushDrained, ReadState, LifeState, DiskState, lifeVars, loadVars
<1>5. FileState'
  BY FilesStay DEF FlushDrained, writeVars, fsVars, FileState
<1> QED BY <1>2, <1>3, <1>4, <1>5

\* flush is done once no save is under way.
LEMMA FlushDoneInv ==
  ASSUME CacheIInv, FlushDone
  PROVE  CacheIInv'
<1> USE DEF CacheIInv
<1>1. WriteState'
  BY WritesMove DEF FlushDone, writeVars, WriteState
<1>2. IndexState' /\ ReadState' /\ LifeState' /\ DiskState'
  BY DEF FlushDone, IndexState, ReadState, LifeState, DiskState, indexVars, saveVars,
         fsVars, lifeVars, loadVars
<1>3. FileState'
  BY FilesStay DEF FlushDone, writeVars, fsVars, FileState
<1> QED BY <1>1, <1>2, <1>3

\* The process ends: memory starts over, the files stay.
LEMMA ExitInv ==
  ASSUME CacheIInv, Exit
  PROVE  CacheIInv'
<1>1. IndexState'
  <2>1. index' = <<>> /\ saved' = saved
    BY Zenon DEF Exit
  <2>2. /\ saving' = None /\ bytes' = 0 /\ budget' \in Budgets
        /\ dirty' = FALSE /\ timer' = FALSE /\ chained' = FALSE
    BY Zenon DEF Exit
  <2>3. IsIndex(index') /\ IsIndex(saved')
    BY <2>1, EmptyIndex, Zenon DEF CacheIInv, IndexState
  <2>4. 0 \in Int
    OBVIOUS
  <2> QED BY <2>2, <2>3, <2>4, Zenon DEF IndexState
<1>2. WriteState'
  <2>1. /\ write' = [w \in Writer |-> Free] /\ pending' = [k \in Key |-> None] /\ pendingBytes' = 0
    BY DEF Exit
  <2>2. InFlight' = {}
    BY <2>1 DEF InFlight, Free
  <2>3. SumOf(Payload', InFlight') = 0
    BY <2>2, SumEmpty, Zenon
  <2>4. 0 < MaxBytes + LargestBody
    BY QueueAssumption, LargestBodyFacts
  <2>5. LargestBody' = LargestBody
    BY DEF LargestBody
  <2> QED BY <2>1, <2>2, <2>3, <2>4, <2>5, PieceAssumption DEF WriteState, Free
<1>3. ReadState'
  BY DEF Exit, ReadState, NoRead
<1>4. LifeState'
  BY DEF Exit, LifeState
<1>5. DiskState'
  BY BoundAssumption DEF Exit, DiskState, CacheIInv
<1>6. FileState'
  <2>1. UNCHANGED diskVars /\ write' = [w \in Writer |-> Free]
    BY DEF Exit
  <2>2. \A w \in Writer : write'[w].st = "free"
    BY <2>1 DEF Free
  <2> QED BY <2>1, <2>2, FilesStay DEF CacheIInv
<1> QED BY <1>1, <1>2, <1>3, <1>4, <1>5, <1>6 DEF CacheIInv

\* Resizing the entries of an index in place leaves one over the same keys.
LEMMA ResizedIndex ==
  ASSUME NEW q, IsIndex(q), NEW p, p = [i \in DOMAIN q |-> p[i]],
         \A i \in DOMAIN q : p[i] \in Entry /\ p[i].key = q[i].key
  PROVE  IsIndex(p) /\ KeysOf(p) = KeysOf(q)
<1>1. DOMAIN q = 1..Len(q) /\ Len(q) \in Nat
  BY IndexMembers
<1>2. DOMAIN p = DOMAIN q
  OBVIOUS
<1>3. p \in Seq(Entry)
  BY <1>1
<1>4. \A i, j \in DOMAIN q : q[i].key = q[j].key => i = j
  <2>1. \A i, j \in DOMAIN q : q[i].key = q[j].key => q[i] = q[j]
    BY RangeMembers DEF IsIndex, OneEach
  <2> QED BY <2>1 DEF IsIndex, OneEach, Distinct
<1>5. \A i, j \in DOMAIN p : p[i].key = p[j].key => i = j
  BY <1>2, <1>4
<1>6. OneEach(p)
  <2>1. Distinct(p)
    BY <1>5 DEF Distinct
  <2>2. \A x, y \in Range(p) : x.key = y.key => x = y
    BY <1>5, RangeMembers
  <2> QED BY <2>1, <2>2 DEF OneEach
<1>7. KeysOf(p) = KeysOf(q)
  BY <1>2 DEF KeysOf
<1> QED BY <1>3, <1>6, <1>7 DEF IsIndex

\* load: what is persisted and present joins what set has indexed meanwhile.
LEMMA LoadInv ==
  ASSUME CacheIInv, Load
  PROVE  CacheIInv'
<1> USE DEF CacheIInv
<1> DEFINE A == [i \in DOMAIN index |->
                   IF index[i].key \in KeysOf(Persisted)
                     THEN [index[i] EXCEPT !.size = SizeIn(Persisted, index[i].key)]
                     ELSE index[i]]
           B == Only(Persisted, Under(Key \ KeysOf(index)))
<1>1. IsIndex(Persisted)
  BY FilteredIndex DEF Persisted, IndexState
<1>2. IsIndex(A) /\ KeysOf(A) = KeysOf(index)
  <2>1. IsIndex(index)
    BY DEF IndexState
  <2>2. \A k : SizeIn(Persisted, k) \in Nat
    BY <1>1, FilteredIndex, SizesNatural DEF SizeIn
  <2>3. \A i \in DOMAIN index : index[i] \in Entry
    BY <2>1, IndexMembers
  <2>4. \A i \in DOMAIN index : A[i] \in Entry /\ A[i].key = index[i].key
    BY <2>2, <2>3 DEF Entry
  <2>5. A = [i \in DOMAIN index |-> A[i]]
    OBVIOUS
  <2> HIDE DEF A
  <2> QED BY <2>1, <2>4, <2>5, ResizedIndex
<1>3. IsIndex(B) /\ KeysOf(B) \intersect KeysOf(index) = {}
  <2>1. IsIndex(B) /\ Range(B) = Range(Persisted) \intersect Under(Key \ KeysOf(index))
    BY <1>1, FilteredIndex
  <2>2. \A e \in Range(B) : e.key \notin KeysOf(index)
    BY <2>1 DEF Under
  <2>3. KeysOf(B) = {e.key : e \in Range(B)}
    BY KeysInRange
  <2> HIDE DEF B
  <2> QED BY <2>1, <2>2, <2>3
<1>4. index' = A \o B /\ bytes' = bytes + Sizes(Persisted)
  BY DEF Load
<1> HIDE DEF A, B
<1>5. IsIndex(index')
  BY <1>2, <1>3, <1>4, JoinedIndex
<1>6. bytes' \in Int
  BY <1>1, <1>4, SizesNatural DEF IndexState
<1>7. IndexState'
  BY <1>5, <1>6 DEF Load, IndexState, flushVars, saveVars, fsVars
<1>8. WriteState'
  <2>1. UNCHANGED <<write, pending, pendingBytes>>
    BY DEF Load, writeVars
  <2> QED BY <2>1, WritesMove DEF WriteState
<1>9. ReadState' /\ LifeState' /\ DiskState'
  BY DEF Load, Files, ReadState, LifeState, DiskState, flushVars, fsVars
<1>10. FileState'
  BY FilesStay DEF Load, writeVars, fsVars, FileState
<1> QED BY <1>7, <1>8, <1>9, <1>10

\* A file is looked at, and is an orphan unless the index names it.
LEMMA LoadChecksInv ==
  ASSUME CacheIInv, NEW k \in Key, LoadChecks(k)
  PROVE  CacheIInv'
<1> USE DEF CacheIInv
<1>1. LifeState'
  BY DEF LoadChecks, LifeState, flushVars
<1>2. WriteState'
  BY WritesMove DEF LoadChecks, writeVars, WriteState
<1>3. IndexState' /\ ReadState' /\ DiskState'
  BY DEF LoadChecks, IndexState, ReadState, DiskState, indexVars, flushVars, saveVars, fsVars
<1>4. FileState'
  BY FilesStay DEF LoadChecks, writeVars, fsVars, FileState
<1> QED BY <1>1, <1>2, <1>3, <1>4

\* The orphan is unlinked.
LEMMA OrphanLandsInv ==
  ASSUME CacheIInv, OrphanLands
  PROVE  CacheIInv'
<1> USE DEF CacheIInv
<1>1. WriteState' /\ FileState'
  BY UnlinkedKeeps DEF OrphanLands
<1>2. DiskState'
  BY DEF OrphanLands, DiskState
<1>3. IndexState' /\ ReadState' /\ LifeState'
  BY DEF OrphanLands, IndexState, ReadState, LifeState, indexVars, flushVars, saveVars
<1> QED BY <1>1, <1>2, <1>3

\* load ends by trimming the index to the budget.
LEMMA LoadTrimsInv ==
  ASSUME CacheIInv, LoadTrims
  PROVE  CacheIInv'
<1> USE DEF CacheIInv
<1>1. /\ IsIndex(index') /\ bytes' \in Int /\ dirty' \in BOOLEAN /\ timer' \in BOOLEAN
      /\ removing' \in [Key -> 0..RmBound]
  BY TrimsKeeps DEF LoadTrims, LifeState, IndexState
<1>2. IndexState' /\ DiskState'
  BY <1>1 DEF LoadTrims, IndexState, DiskState, flushVars, saveVars
<1>3. WriteState'
  BY WritesMove DEF LoadTrims, writeVars, WriteState
<1>4. ReadState' /\ LifeState'
  BY DEF LoadTrims, ReadState, LifeState, flushVars
<1>5. FileState'
  BY FilesStay DEF LoadTrims, writeVars, fsVars, FileState
<1> QED BY <1>2, <1>3, <1>4, <1>5

--------------------------------------------------------------------------------
(* The disk tier: the theorems *)

\* Every step keeps the invariant.
LEMMA CacheStepInv == CacheIInv /\ [CacheNext]_cacheVars => CacheIInv'
<1> SUFFICES ASSUME CacheIInv, [CacheNext]_cacheVars PROVE CacheIInv'
  OBVIOUS
<1>1. CASE UNCHANGED cacheVars
  <2> USE <1>1 DEF CacheIInv, cacheVars
  <2>1. WriteState'
    BY WritesMove DEF writeVars, WriteState
  <2>2. IndexState' /\ ReadState' /\ LifeState' /\ DiskState'
    BY DEF IndexState, ReadState, LifeState, DiskState, indexVars, flushVars, saveVars,
           fsVars, lifeVars, loadVars
  <2>3. FileState'
    BY FilesStay DEF writeVars, fsVars, FileState
  <2> QED BY <2>1, <2>2, <2>3
<1>2. ASSUME NEW k \in Key, Set(k) \/ Delete(k) \/ RemovalLands(k) \/ LoadChecks(k) PROVE CacheIInv'
  BY <1>2, SetInv, DeleteInv, RemovalLandsInv, LoadChecksInv
<1>3. ASSUME NEW w \in Writer, WriteStep(w) PROVE CacheIInv'
  BY <1>3, WriteOpensInv, WritePutsInv, WriteDoneInv, WriteFailsInv DEF WriteStep
<1>4. ASSUME NEW r \in Reader, ReadStep(r) PROVE CacheIInv'
  BY <1>4, GetHitInv, GetFailsInv DEF ReadStep
<1>5. ASSUME NEW r \in Reader, NEW k \in Key, GetStart(r, k) PROVE CacheIInv'
  BY <1>5, GetStartInv
<1>6. ASSUME NEW b \in Budgets, Resize(b) PROVE CacheIInv'
  BY <1>6, ResizeInv
<1>7. ASSUME NEW c \in BOOLEAN, FlushStart(c) PROVE CacheIInv'
  BY <1>7, FlushStartInv
<1>8. CASE Clear \/ ClearLands \/ TimerFires \/ SaveEnds \/ FlushDrained \/ FlushDone
  BY <1>8, ClearInv, ClearLandsInv, TimerFiresInv, SaveEndsInv, FlushDrainedInv, FlushDoneInv
<1>9. CASE Exit \/ Load \/ OrphanLands \/ LoadTrims
  BY <1>9, ExitInv, LoadInv, OrphanLandsInv, LoadTrimsInv
<1> QED BY <1>1, <1>2, <1>3, <1>4, <1>5, <1>6, <1>7, <1>8, <1>9 DEF CacheNext

\* The inductive invariant holds of every run of the disk tier.
THEOREM CacheInvariance == CacheSpec => []CacheIInv
<1>1. CacheInit => CacheIInv
  BY CacheInitInv
<1>2. CacheIInv /\ [CacheNext]_cacheVars => CacheIInv'
  BY CacheStepInv
<1> QED BY <1>1, <1>2, PTL DEF CacheSpec

\* Whatever the codec takes from a file is the whole body - after a kill, beside
\* a second write of the key, when the file was removed under its write - except
\* for a file that two writes had open at once.
THEOREM HitsAreWhole == CacheSpec => []HitsWhole
BY CacheInvariance, CacheInvImplies, PTL

\* The back-pressure on background writes (pendingWrites, pendingWriteBytes)
\* counts exactly the payloads in flight and bounds them, and the index names a
\* key once.
THEOREM WritesStaySound == CacheSpec => []WritesSound
BY CacheInvariance, CacheInvImplies, PTL

================================================================================
