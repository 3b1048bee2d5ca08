-------------------------------- MODULE SlotPool --------------------------------
(***************************************************************************)
(* The slot buffers of one stream (class SlotPool of                       *)
(* usenet/pool/ordered-parallel-stream.ts) and the engine-wide bank they   *)
(* come from and go back to (usenet/pool/slot-bank.ts). A pool is a record *)
(* and every method an operator from pools to pools, so that the stream    *)
(* composes several calls in one step. Lengths are in abstract units.      *)
(***************************************************************************)
EXTENDS Integers, Sequences, FiniteSets, SequencesExt

CONSTANTS
  Task,     \* task numbers 0..N-1
  Slot,     \* slot identities
  SizeOf,   \* [Slot -> Nat], the length each slot is allocated with
  Need,     \* [Task -> Nat], the slot length a task asks for
  SlotCap,  \* slotCap
  BankCap,  \* capBytes of the bank
  Layers,   \* chunks the layers below the Readable can hold (5 in the code)
  Nothing

ASSUME SizeAssumption == SizeOf \in [Slot -> Nat \ {0}] /\ Need \in [Task -> Nat \ {0}]
ASSUME CapAssumption  == SlotCap \in Nat /\ BankCap \in Nat /\ Layers \in Nat

Pool == [free : Seq(Slot), allocated : Nat, live : [Task -> Slot \union {Nothing}],
         fifo : Seq([idx : Task, end : Nat]), pushed : Nat, maxSlot : Nat,
         bank : SUBSET Slot, destroyed : BOOLEAN]

NewPool(bank, initialMaxSlot) ==
  [free |-> <<>>, allocated |-> 0, live |-> [i \in Task |-> Nothing], fifo |-> <<>>,
   pushed |-> 0, maxSlot |-> initialMaxSlot, bank |-> bank, destroyed |-> FALSE]

LiveSlots(p) == {p.live[i] : i \in Task} \ {Nothing}

--------------------------------------------------------------------------------
(* The bank *)

Give(p, s) ==
  IF MapThenSumSet(LAMBDA t : SizeOf[t], p.bank) + SizeOf[s] > BankCap THEN p
  ELSE [p EXCEPT !.bank = @ \union {s}]

GiveAll(p, slots) ==
  LET after[n \in 0..Len(slots)] == IF n = 0 THEN p ELSE Give(after[n - 1], slots[n])
  IN  after[Len(slots)]

\* The smallest banked slots that fit.
Takable(p, need) ==
  {s \in p.bank : SizeOf[s] >= need
                  /\ \A t \in p.bank : SizeOf[t] >= need => SizeOf[s] <= SizeOf[t]}

--------------------------------------------------------------------------------
(* release, reclaim *)

Release(p, i) ==
  LET s == p.live[i] IN
  IF s = Nothing THEN p
  ELSE LET q == [p EXCEPT !.live[i] = Nothing] IN
       IF p.destroyed THEN Give(q, s) ELSE [q EXCEPT !.free = Append(@, s)]

ReleaseAll(p, idxs) ==
  LET after[n \in 0..Len(idxs)] == IF n = 0 THEN p ELSE Release(after[n - 1], idxs[n])
  IN  after[Len(idxs)]

\* What the stream's own queue and the layers below it may still hold.
Allowance_OwnQueueOnly(p) == 0
Allowance(p) == Layers * p.maxSlot

\* How many pushed chunks lie wholly within the first n bytes.
ConsumedWithin(p, n) ==
  CHOOSE k \in 0..Len(p.fifo) : /\ \A j \in 1..k : p.fifo[j].end <= n
                                /\ k < Len(p.fifo) => p.fifo[k + 1].end > n

\* Releases the pushed chunks that have provably been consumed.
Reclaim(p, queued) ==
  LET n == ConsumedWithin(p, p.pushed - queued - Allowance(p))
  IN  ReleaseAll([p EXCEPT !.fifo = SubSeq(@, n + 1, Len(@))],
                 [k \in 1..n |-> p.fifo[k].idx])

RecordPush(p, i, len) ==
  LET end == p.pushed + len IN
  [p EXCEPT !.pushed = end,
            !.fifo = IF p.live[i] = Nothing THEN @ ELSE Append(@, [idx |-> i, end |-> end])]

--------------------------------------------------------------------------------
(* acquire *)

\* The smallest free slot that fits, the first of equals.
BestFree(p, need) ==
  {k \in DOMAIN p.free :
     /\ SizeOf[p.free[k]] >= need
     /\ \A j \in DOMAIN p.free : SizeOf[p.free[j]] >= need =>
          \/ SizeOf[p.free[k]] < SizeOf[p.free[j]]
          \/ SizeOf[p.free[k]] = SizeOf[p.free[j]] /\ k <= j}

\* On a miss one undersized slot goes to the bank.
DropOne(p) ==
  IF p.free = <<>> THEN p
  ELSE Give([p EXCEPT !.free = Front(@), !.allocated = @ - 1], Last(p.free))

Lend(p, i, s) ==
  [pool |-> [p EXCEPT !.live[i] = s, !.maxSlot = IF SizeOf[s] > @ THEN SizeOf[s] ELSE @],
   slot |-> s]

AtCap_Never(p) == FALSE
AtCap(p) == p.allocated >= SlotCap

\* The outcomes of acquire(i): the pool and the slot, Nothing for a throwaway
\* buffer. `unused` are the identities a fresh allocation may take.
Acquire(p0, i, queued, unused) ==
  LET p == Reclaim(p0, queued)
      m == DropOne(p)
      grown == [m EXCEPT !.allocated = @ + 1]
  IN  IF BestFree(p, Need[i]) # {}
        THEN {Lend([p EXCEPT !.free = RemoveAt(@, k)], i, p.free[k]) : k \in BestFree(p, Need[i])}
      ELSE IF AtCap(m) THEN {[pool |-> m, slot |-> Nothing]}
      ELSE IF Takable(m, Need[i]) # {}
        THEN {Lend([grown EXCEPT !.bank = @ \ {s}], i, s) : s \in Takable(m, Need[i])}
      ELSE {Lend(grown, i, s) : s \in {t \in unused : SizeOf[t] = Need[i]}}

--------------------------------------------------------------------------------
(* Teardown *)

\* destroy: the free list and the completed chunks never pushed are banked.
DestroyPool(p, unemitted) ==
  ReleaseAll(GiveAll([p EXCEPT !.destroyed = TRUE, !.free = <<>>], p.free), unemitted)

\* retire: the consumer holds no pushed chunk any more.
Retire(p) == ReleaseAll([p EXCEPT !.fifo = <<>>], [k \in DOMAIN p.fifo |-> p.fifo[k].idx])
================================================================================
