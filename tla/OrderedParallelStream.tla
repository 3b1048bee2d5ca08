------------------------- MODULE OrderedParallelStream -------------------------
(***************************************************************************)
(* The serve path's Readable (usenet/pool/ordered-parallel-stream.ts) as   *)
(* SegmentsStream instantiates it (usenet/pool/segments-stream.ts): tasks  *)
(* fetched in parallel under a read-ahead budget, decoded into pooled      *)
(* slots, emitted strictly in order.                                       *)
(*                                                                         *)
(* `pc` says where the synchronous code stands: flush and dispatch run to  *)
(* their end before anything else, except that push() may call back into   *)
(* the consumer ("record"). Node's Readable queue and the layers below it  *)
(* are external.                                                           *)
(***************************************************************************)
EXTENDS SlotPool

CONSTANTS
  Length,          \* [Task -> Nat], decoded length of each task's body
  MaxLength,       \* no body is longer; taskBytes is only the average one
  InitialSlot,     \* initialMaxSlot
  TaskBytes, MaxConcurrency, MaxBufferedBytes, FloorTasks, HighWater,
  SkipBytes,       \* skipBytes
  Limits,          \* the values of limitBytes
  KnownHoles       \* tasks zero-filled without a fetch

ASSUME TaskAssumption   == IsFiniteSet(Task) /\ Task = 0..(Cardinality(Task) - 1)
ASSUME SlotAssumption   == Nothing \notin Slot \union Task
ASSUME LengthAssumption == /\ {MaxLength, InitialSlot} \subseteq Nat \ {0} /\ MaxLength <= InitialSlot
                           /\ \A i \in Task : Length[i] \in 1..MaxLength
ASSUME RangeAssumption  == SkipBytes \in Nat /\ Limits \subseteq Nat \ {0}
ASSUME BudgetAssumption == /\ {TaskBytes, MaxConcurrency, FloorTasks, HighWater} \subseteq Nat \ {0}
                           /\ MaxBufferedBytes \in Nat

VARIABLES
  task,        \* per task: st, slot checked out for it, body in that slot or owned
  nextDispatch, nextEmit, inflight, paused, ended,
  pool,        \* the SlotPool and the bank
  content,     \* per slot: the task last written into it, Nothing for other bytes
  skip, limit, \* skipRemaining, limitRemaining
  pc, cur,     \* see above; the chunk being pushed
  queue,       \* the Readable's queue (external)
  reading,     \* Node called _read and nothing was pushed since
  down,        \* chunks held by the layers below
  closed       \* the consumer's signal has aborted

streamVars == <<task, nextDispatch, nextEmit, inflight, paused, ended, pool, content, skip, limit,
                pc, cur, queue, reading, down, closed>>

Total == Cardinality(Task)
Chunk == [idx : Task, slot : Slot \union {Nothing}, len : Nat]
State == {"todo", "wire", "decoded", "buffered", "pushed", "abandoned", "done"}

StreamTypeOK ==
  /\ task \in [Task -> [st : State, slot : Slot \union {Nothing}, body : Slot \union {Nothing}]]
  /\ nextDispatch \in 0..Total /\ nextEmit \in 0..Total
  /\ inflight \in 0..MaxConcurrency
  /\ {paused, ended, reading, closed} \subseteq BOOLEAN
  /\ pool \in Pool
  /\ content \in [Slot -> Task \union {Nothing}]
  /\ skip \in 0..SkipBytes /\ limit \in Nat
  /\ pc \in {"idle", "flush", "record", "dispatch"}
  /\ cur \in Chunk \union {Nothing}
  /\ queue \in Seq(Chunk) /\ down \in Seq(Chunk)

StreamInit ==
  /\ task = [i \in Task |-> [st |-> "todo", slot |-> Nothing, body |-> Nothing]]
  /\ nextDispatch = 0 /\ nextEmit = 0 /\ inflight = 0
  /\ paused = FALSE /\ ended = FALSE
  /\ pool = NewPool({}, InitialSlot)
  /\ content = [s \in Slot |-> Nothing]
  /\ skip = SkipBytes /\ limit \in Limits
  /\ pc = "idle" /\ cur = Nothing
  /\ queue = <<>> /\ reading = FALSE /\ down = <<>> /\ closed = FALSE

Destroyed == pool.destroyed
Aborted == Destroyed \/ ended   \* the stream's own abortController
In(st) == {i \in Task : task[i].st = st}
BytesOf(chunks) ==
  LET sum[n \in 0..Len(chunks)] == IF n = 0 THEN 0 ELSE sum[n - 1] + chunks[n].len
  IN  sum[Len(chunks)]
QueuedBytes == BytesOf(queue)

\* buffered.keys(): the order decides only what a full bank refuses.
Unemitted == SetToSeq(In("buffered"))
BufferedBytes == MapThenSumSet(LAMBDA i : Length[i], In("buffered"))
Become(i, st) == task' = [task EXCEPT ![i].st = st]

\* Identities no buffer in use carries.
Unused ==
  Slot \ (UNION {Range(pool.free), LiveSlots(pool), pool.bank,
                 {task[i].slot : i \in Task}, {c.slot : c \in Range(queue) \union Range(down)}})

--------------------------------------------------------------------------------
(* Tasks: what fetchSegmentInto does with the slot provider *)

\* Decode into the task's slot, checked out on the first attempt.
DecodeInto(i, bytes, st) ==
  \/ /\ task[i].slot # Nothing
     /\ content' = [content EXCEPT ![task[i].slot] = bytes]
     /\ task' = [task EXCEPT ![i].st = st, ![i].body = task[i].slot]
     /\ UNCHANGED pool
  \/ /\ task[i].slot = Nothing
     /\ \E r \in Acquire(pool, i, QueuedBytes, Unused) :
          /\ pool' = r.pool
          /\ content' = IF r.slot = Nothing THEN content ELSE [content EXCEPT ![r.slot] = bytes]
          /\ task' = [task EXCEPT ![i] = [st |-> st, slot |-> r.slot, body |-> r.slot]]

restVars == <<nextDispatch, nextEmit, inflight, paused, ended, skip, limit, pc, cur,
                queue, reading, down, closed>>

Decode(i) ==
  /\ pc = "idle" /\ task[i].st = "wire" /\ ~Aborted /\ Length[i] <= Need[i]
  /\ DecodeInto(i, i, "decoded")
  /\ UNCHANGED restVars

\* A corrupt copy was decoded; the next provider is asked.
DecodeCorrupt(i) ==
  /\ pc = "idle" /\ task[i].st = "wire" /\ ~Aborted
  /\ DecodeInto(i, Nothing, "wire")
  /\ UNCHANGED restVars

\* A disk hit, or a body larger than the slot: an owned buffer.
OwnedBody(i) ==
  /\ pc = "idle" /\ task[i].st = "wire" /\ ~Aborted
  /\ task' = [task EXCEPT ![i].st = "decoded", ![i].body = Nothing]
  /\ UNCHANGED <<pool, content, restVars>>

\* The fetch resolved: an unused slot is released, the body buffered and flushed.
Complete(i) ==
  /\ pc = "idle" /\ task[i].st = "decoded"
  /\ LET owned == task[i].slot # Nothing /\ task[i].body = Nothing IN
     IF Aborted
       THEN /\ pool' = Release(pool, i)
            /\ task' = [task EXCEPT ![i] = [st |-> "done", slot |-> Nothing, body |-> Nothing]]
            /\ UNCHANGED <<inflight, pc>>
       ELSE /\ pool' = IF owned THEN Release(pool, i) ELSE pool
            /\ inflight' = inflight - 1
            /\ task' = [task EXCEPT ![i].st = "buffered", ![i].slot = Nothing]
            /\ pc' = "flush"
  /\ UNCHANGED <<nextDispatch, nextEmit, paused, ended, content, skip, limit, cur,
                 queue, reading, down, closed>>

\* A definitive loss the hole policy approves: zeros in the task's place.
Pad(i) ==
  /\ pc = "idle" /\ task[i].st = "wire" /\ ~Aborted
  /\ pool' = Release(pool, i)
  /\ inflight' = inflight - 1
  /\ task' = [task EXCEPT ![i] = [st |-> "buffered", slot |-> Nothing, body |-> Nothing]]
  /\ pc' = "flush"
  /\ UNCHANGED <<nextDispatch, nextEmit, paused, ended, content, skip, limit, cur,
                 queue, reading, down, closed>>

\* _destroy, from a pool `p`.
Destroys(p) ==
  /\ pool' = DestroyPool(p, Unemitted)
  /\ queue' = <<>>

Fail(i) ==
  /\ pc = "idle" /\ task[i].st = "wire" /\ ~Aborted
  /\ inflight' = inflight - 1
  /\ Destroys(Release(pool, i))
  /\ task' = [j \in Task |-> IF j = i \/ task[j].st = "buffered"
                               THEN [st |-> "done", slot |-> Nothing, body |-> Nothing] ELSE task[j]]
  /\ UNCHANGED <<nextDispatch, nextEmit, paused, ended, content, skip, limit, pc, cur,
                 reading, down, closed>>

\* The abort rejects the fetch at once and its slot is given back, while the
\* download itself is still on the wire ("abandoned").
AbandonTask(i) ==
  /\ pc = "idle" /\ task[i].st = "wire" /\ Aborted
  /\ pool' = Release(pool, i)
  /\ Become(i, "abandoned")
  /\ UNCHANGED <<content, restVars>>

\* The abandoned download lands: fetchBody asks the signal before it decodes.
DecodesLate_Always(i) == TRUE
DecodesLate(i) == ~Aborted

Lands(i) ==
  /\ task[i].st = "abandoned"
  /\ content' = IF DecodesLate(i) /\ task[i].slot # Nothing
                  THEN [content EXCEPT ![task[i].slot] = i] ELSE content
  /\ task' = [task EXCEPT ![i] = [st |-> "done", slot |-> Nothing, body |-> Nothing]]
  /\ UNCHANGED <<pool, restVars>>

--------------------------------------------------------------------------------
(* flush *)

\* transformChunk: the bytes of task i that are emitted.
Emits(i) ==
  IF Length[i] <= skip THEN 0
  ELSE IF Length[i] - skip > limit THEN limit ELSE Length[i] - skip

FinishEnd == ended' = (ended \/ ~Destroyed)

\* The next chunk in order is pushed (or consumed whole by the skip).
FlushChunk ==
  /\ pc = "flush" /\ ~paused /\ ~Aborted
  /\ nextEmit \in In("buffered")
  /\ LET i == nextEmit IN
     /\ nextEmit' = i + 1
     /\ skip' = IF Length[i] <= skip THEN skip - Length[i] ELSE 0
     /\ limit' = limit - Emits(i)
     /\ Become(i, "pushed")
     /\ IF Emits(i) = 0
          THEN /\ pool' = Release(pool, i)
               /\ UNCHANGED <<pc, cur, queue, reading>>
          ELSE /\ cur' = [idx |-> i, slot |-> task[i].body, len |-> Emits(i)]
               /\ queue' = Append(queue, cur')
               /\ reading' = FALSE
               /\ pc' = "record"
               /\ UNCHANGED pool
  /\ UNCHANGED <<nextDispatch, inflight, paused, ended, content, down, closed>>

\* After push() returned: account the chunk, then stop at the limit, pause on
\* back-pressure, or go on.
RecordChunk ==
  /\ pc = "record"
  /\ pool' = RecordPush(pool, cur.idx, cur.len)
  /\ IF limit = 0
       THEN FinishEnd /\ pc' = "dispatch" /\ UNCHANGED paused
       ELSE /\ paused' = (QueuedBytes >= HighWater)
            /\ pc' = IF paused' THEN "dispatch" ELSE "flush"
            /\ UNCHANGED ended
  /\ cur' = Nothing
  /\ UNCHANGED <<task, nextDispatch, nextEmit, inflight, content, skip, limit,
                 queue, reading, down, closed>>

\* Nothing (more) to emit: EOF once every task has been emitted.
AllEmitted_Dispatched == nextDispatch >= Total
AllEmitted == nextEmit >= Total /\ inflight = 0

FlushDone ==
  /\ pc = "flush"
  /\ paused \/ Aborted \/ nextEmit \notin In("buffered")
  /\ IF ~paused /\ ~Aborted /\ AllEmitted THEN FinishEnd ELSE UNCHANGED ended
  /\ pc' = "dispatch"
  /\ UNCHANGED <<task, nextDispatch, nextEmit, inflight, paused, pool, content, skip, limit,
                 cur, queue, reading, down, closed>>

--------------------------------------------------------------------------------
(* dispatch *)

Smaller(a, b) == IF a < b THEN a ELSE b
Larger(a, b) == IF a < b THEN b ELSE a
Budget == Smaller(MaxConcurrency * TaskBytes + MaxBufferedBytes,
                  Larger(FloorTasks * TaskBytes, pool.pushed))
ReadAhead == BufferedBytes + inflight * TaskBytes

UnderBudget_Unbuffered == inflight * TaskBytes < Budget
UnderBudget == ReadAhead < Budget

Dispatches ==
  /\ ~Aborted
  /\ inflight < MaxConcurrency /\ nextDispatch < Total
  /\ UnderBudget

\* A known hole is zero-filled on the spot, unless the policy refuses.
StartTask ==
  /\ pc = "dispatch" /\ Dispatches
  /\ nextDispatch' = nextDispatch + 1
  /\ \/ /\ nextDispatch \in KnownHoles
        /\ Become(nextDispatch, "buffered")
        /\ pc' = "flush"
        /\ UNCHANGED inflight
     \/ /\ Become(nextDispatch, "wire")
        /\ inflight' = inflight + 1
        /\ UNCHANGED pc
  /\ UNCHANGED <<nextEmit, paused, ended, pool, content, skip, limit, cur,
                 queue, reading, down, closed>>

DispatchDone ==
  /\ pc = "dispatch" /\ ~Dispatches
  /\ pc' = "idle"
  /\ UNCHANGED <<task, nextDispatch, nextEmit, inflight, paused, ended, pool, content, skip,
                 limit, cur, queue, reading, down, closed>>

--------------------------------------------------------------------------------
(* The consumer (external), _read and _destroy *)

\* _read lifts the back-pressure.
Resumed_Never == paused
Resumed == FALSE

Read ==
  /\ pc = "idle" /\ ~Aborted /\ ~reading /\ QueuedBytes < HighWater
  /\ paused' = Resumed
  /\ pool' = Reclaim(pool, QueuedBytes)
  /\ reading' = TRUE
  /\ pc' = "flush"
  /\ UNCHANGED <<task, nextDispatch, nextEmit, inflight, ended, content, skip, limit, cur,
                 queue, down, closed>>

\* A chunk moves to the layers below, from push() itself when flowing.
Deliver ==
  /\ pc \in {"idle", "record"} /\ queue # <<>> /\ ~Destroyed /\ Len(down) < Layers
  /\ down' = Append(down, Head(queue))
  /\ queue' = Tail(queue)
  /\ UNCHANGED <<task, nextDispatch, nextEmit, inflight, paused, ended, pool, content, skip,
                 limit, pc, cur, reading, closed>>

Consume ==
  /\ down # <<>>
  /\ down' = Tail(down)
  /\ UNCHANGED <<task, nextDispatch, nextEmit, inflight, paused, ended, pool, content, skip,
                 limit, pc, cur, queue, reading, closed>>

DropBuffered == task' = [i \in Task |-> IF task[i].st = "buffered"
                           THEN [st |-> "done", slot |-> Nothing, body |-> Nothing] ELSE task[i]]

\* The consumer destroys the stream, possibly from inside push().
Destroy ==
  /\ pc \in {"idle", "record"} /\ ~Destroyed
  /\ Destroys(pool)
  /\ DropBuffered
  /\ UNCHANGED <<nextDispatch, nextEmit, inflight, paused, ended, content, skip, limit, pc,
                 cur, reading, down, closed>>

\* The consumer's signal aborts once its response has closed: the stream is
\* destroyed if it was not, then the pushed slots are retired.
Close ==
  /\ pc = "idle" /\ ~closed
  /\ closed' = TRUE
  /\ down' = <<>>
  /\ queue' = <<>>
  /\ pool' = Retire(IF Destroyed THEN pool ELSE DestroyPool(pool, Unemitted))
  /\ DropBuffered
  /\ UNCHANGED <<nextDispatch, nextEmit, inflight, paused, ended, content, skip, limit, pc,
                 cur, reading>>

\* Another stream takes a banked slot, writes its own bytes and banks it again.
OtherStream ==
  /\ \E s \in pool.bank : content' = [content EXCEPT ![s] = Nothing]
  /\ UNCHANGED <<task, pool, restVars>>

Settles(i) == Decode(i) \/ OwnedBody(i) \/ Complete(i) \/ Pad(i) \/ Fail(i) \/ AbandonTask(i)
Runs == FlushChunk \/ RecordChunk \/ FlushDone \/ StartTask \/ DispatchDone

StreamNext ==
  \/ \E i \in Task : Settles(i) \/ DecodeCorrupt(i) \/ Lands(i)
  \/ Runs \/ Read \/ Deliver \/ Consume \/ Destroy \/ Close \/ OtherStream

\* Fetches settle, synchronous code runs on, the consumer keeps reading.
Fairness == /\ \A i \in Task : WF_streamVars(Settles(i))
            /\ WF_streamVars(Runs) /\ WF_streamVars(Read) /\ WF_streamVars(Deliver) /\ WF_streamVars(Consume)

StreamSpec == StreamInit /\ [][StreamNext]_streamVars /\ Fairness

--------------------------------------------------------------------------------
(* Properties *)

\* "premature reuse is silent corruption": every chunk between its decode and
\* the end of its response still holds the bytes of its task, whatever slots
\* were recycled, banked and rewritten meanwhile.
ChunksIntact ==
  /\ \A c \in Range(queue) \union Range(down) : c.slot # Nothing => content[c.slot] = c.idx
  /\ \A i \in Task : task[i].st \in {"decoded", "buffered"} /\ task[i].body # Nothing
       => content[task[i].body] = i

\* A slot given back to the bank is another stream's: nothing of this stream
\* writes into it again, the downloads it abandoned included.
NoLateWrite == [][\A s \in pool.bank \intersect pool.bank' : content'[s] \in {content[s], Nothing}]_streamVars

\* The pool's count of slots is exact while the stream lives, within its cap,
\* and no slot is free, lent or banked twice.
PoolAccounted ==
  /\ ~Destroyed => pool.allocated = Len(pool.free) + Cardinality(LiveSlots(pool))
  /\ pool.allocated <= SlotCap
  /\ \A i, j \in Task : pool.live[i] = pool.live[j] /\ pool.live[i] # Nothing => i = j
  /\ Cardinality(Range(pool.free)) = Len(pool.free)
  /\ Range(pool.free) \intersect LiveSlots(pool) = {}
  /\ pool.bank \intersect (Range(pool.free) \union LiveSlots(pool)) = {}

\* EOF is never early: a stream that ended emitted the whole range.
RangeBytes == Smaller(pool.pushed + limit, Larger(0, MapThenSumSet(LAMBDA i : Length[i], Task) - SkipBytes))
EofComplete == ended => pool.pushed = RangeBytes

\* The read-ahead is bounded although dispatch counts a fetch in flight for an
\* average body: were every one of them to land as the longest, what is buffered
\* would still be within the budget and the task that crossed it.
Longest == Larger(TaskBytes, MaxLength)
CouldHold == BufferedBytes + inflight * Longest
ReadAheadBounded ==
  ~Aborted => /\ CouldHold < MaxConcurrency * Longest + MaxBufferedBytes + TaskBytes
              /\ inflight = Cardinality(In("wire") \union In("decoded"))

RangeSound == StreamTypeOK /\ EofComplete /\ ReadAheadBounded

\* A stream somebody reads ends or fails: parallel tasks, back-pressure and the
\* budget never wait on each other.
StreamFinishes == <>(ended \/ Destroyed)
================================================================================
