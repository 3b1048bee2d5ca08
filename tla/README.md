# AIOStreams verification project

TLA+ models of the stateful core of AIOStreams, checked with TLC on small instances and, where
marked, proved for every value of the constants with TLAPS. Paths below are relative to
`src/packages/core/src` unless they start with `src/`.

## 1. The system

AIOStreams aggregates stream sources for media players and, in this fork, contains a Usenet
streaming engine. It is a TypeScript monorepo: `core` (everything below), `server` (Express routes),
`frontend`, `docs`, `seanime-extensions`, `crypto`. Every process is a single-threaded Node event
loop, so what interleaves is *callbacks and awaited promises*: code between two `await`s is atomic and
everything else can be reordered. Several processes can share one database (and Redis), which is where
locks, claims and leases come in.

| Component | State it keeps | Operations | Interacts with | What makes it correct |
|---|---|---|---|---|
| Download budget `usenet/pool/priority-semaphore.ts` | `inUse`, `limit`, a queue sorted by class, share accumulator | acquire, abort, release, throttleTo, restore | every fetch holds a permit | permits conserved, no lost wakeup, the High/Low share kept |
| Segment arena `usenet/pool/segment-arena.ts` | slots, free list, LRU entries, pins, bytes | checkout, abandon, commit, acquire, release, clear | fetch coordinator leases, streams pin | a pinned body is never recycled; the accounting is exact |
| Single-flight fetch `usenet/pool/multi-provider-pool.ts` | in-flight map, waiter counts, negative cache | fetch, abort, disk read, fetch, commit | arena, disk tier, budget, segment fetcher | one live flight per segment, every caller answered, misses are honest |
| Ordered stream `usenet/pool/ordered-parallel-stream.ts`, `segments-stream.ts`, `slot-bank.ts` | task results, in-order cursor, slot pool watermark | dispatch, complete, fail, pad, flush, _read, _destroy | fetchSegmentInto, Node Readable | no byte is overwritten while referenced; EOF neither early nor missing |
| Provider worker pool `usenet/nntp/provider-worker-pool.ts` | three queues, connections, ceiling, auth state | submit, abort, dispatch, dial and transfer outcomes, timers, close | NNTP connections | no request lost or stranded; sockets under the ceiling |
| Segment fetcher failover `usenet/nntp/segment-fetcher.ts` | affinity statistics | ordered candidates, failover loop, STAT | worker pools, negative cache | "missing" only when providers really answered so |
| Disk tier `utils/disk-backed-cache.ts` | memory LRU, disk index, byte counters, writes in flight | get, set, evict, clear, resize, flush, load | file system | byte bounds, no lost or stale entry |
| Distributed lock `utils/distributed-lock.ts` | a lock row, file, Redis key or map entry; result mailbox | withLock, poll, timeout, release | database, Redis, files | one holder; waiters get the holder's result |
| Task manager `tasks/`, `db/repositories/tasks.ts` | task rows with claim and due time | claim, renew, run, release, run-now | several instances on one database | a task runs on one instance at a time; a request is not lost |
| Stream sessions `stream-sessions/` | live sessions, admission window, pending bytes | admit, track, finalise, flush | proxy routes, database | connection limits; bytes counted once |
| Playback handoff `watch-state/`, `db/repositories/playback-handoff.ts` | outbox rows with leases and back-off | enqueue, lease, deliver, mark | remote sinks | order per sink, at-least-once |
| NNTP connection `usenet/nntp/connection.ts` | FIFO of outstanding commands | submit, parse, timeout, destroy | socket | responses match commands |

Every other part of the repository (stream pipeline, parsers, formatters, presets, builtin addons, debrid clients,
metadata, Jellyfin emulation, configuration, community federation, front end, docs) is listed in `PROJECT.json` under
`components` with the reason it is not modelled: mostly HTTP adapters and pure string processing.

**Hard behaviours.** (a) A caller aborts while its request is queued, granted, on the wire, or just answered; the slot,
permit, map entry or waiter count it held must go back exactly once. (b) State read before an `await` and used after it:
the disk read before the download, the index before the file. (c) Work cancelled on the wire still delivers bytes later.
(d) Capacity that shrinks while in use: budget throttling, connection ceiling, cache resize. (e) Provider failure modes
(limit replies, failed logins after success, circuit breakers) and what they may *not* be mistaken for: a missing
article. `PROJECT.json` lists them under `hazards`, each at its line.

## 2. Modules

| Module | Models | Composition |
|---|---|---|
| `ClassQueues` | abstract contract of the budget: one FIFO queue per class | implemented by `PrioritySemaphore` |
| `PrioritySemaphore` | the budget | |
| `BudgetProofs` | TLAPS proofs about the budget, the refinement included, and about the disk tier | EXTENDS `PrioritySemaphore`, `DiskBackedCache` |
| `SegmentArena` | the arena, one action per method | |
| `SegmentFetch` | callers, flights, disk tier (as an index that may evict), negative cache, providers | EXTENDS `SegmentArena`, INSTANCE of `PrioritySemaphore` as the download budget |
| `SegmentFetchProofs` | TLAPS proofs about both | EXTENDS `SegmentFetch` |
| `SlotPool` | the stream's slot pool and the shared bank, pure operators on a record | |
| `OrderedParallelStream` | the ordered parallel stream as `SegmentsStream` instantiates it, Node's Readable, another stream using the bank | uses `SlotPool` |
| `ProviderWorkerPool` | one provider's pool | server and sockets external |
| `ProviderWorkerPoolProofs` | TLAPS proofs about it | EXTENDS it |
| `DiskBackedCache` | the disk tier: index, files, background writes and removals, persistence, kills | file system external |
| `SegmentFailover` | provider order, the failover loop and its verdicts, per-release affinity | worker pools external |
| `ServePathProofs` | TLAPS proofs about the failover and the ordered stream | EXTENDS `SegmentFailover`, `OrderedParallelStream` |
| `PlaybackOutbox` | the outbox of playback events and its delivery task on several replicas | addon and account external |
| `DistributedLock` | `withLock` behind each of its four backends | database, Redis, file system external |
| `DistributedLockProofs` | TLAPS proofs about it | EXTENDS it |
| `StreamSessions` | one replica's sessions, admission and flush | viewers external |
| `StreamSessionsProofs` | TLAPS proofs about it | EXTENDS it |
| `TaskClaims` | the claim, run and retry of a `single` task on several replicas | the clock external |
| `ReplicaTasksProofs` | TLAPS proofs about the outbox and the task claim | EXTENDS both |
| `SubSequences` | filtering a sequence, as a recursive function that proofs can unfold | used by `PlaybackOutbox`, `DiskBackedCache` |
| `DataLemmas` | lemmas about sequences, filters, recursive functions and sums over finite sets | used by the proofs |

`MC*` modules hold model values and symmetry for TLC.

**How state and actions correspond to the code.** Names follow the source. A synchronous function is one action. Where a
function contains an `await`, it becomes one action per segment between awaits, and a `phase` (or `pc`) variable says where
the caller is. Two loops are walked one step per action to keep the actions readable - `dispatch()` of the worker pool
(variable `cursor`) and `dispatch`/`flush` of the stream - and nothing else may run meanwhile, so they are still atomic to
the rest. Timers are actions enabled once armed; logging, statistics, EWMAs and message texts are left out.

`PrioritySemaphore`: `inUse`, `limit`, `queue`, `acc` are the class's fields; `Acquire`, `Abort`, `Release`, `ThrottleTo`,
`Restore` its methods. The queue entry of an aborted waiter is removed in the same action, as `onAbort` does.

`SegmentArena`: `entries` is the Map in LRU order, `free` the free list used as a stack, `refs` an entry's pin count, `dropped` the
slots whose entry left the map while pinned, `bytes` is `allocatedBytes`; `content` and `pins` record what is in a slot and who
reads it. `Lease` follows the three ways `checkout` finds a slot (free fit, growth, eviction), `CheckoutFails` its exhaustion.

`SegmentFetch` (its names do not overlap those of `SegmentArena`, which it extends; a caller is named by its pin handle): a flight's
phase goes `disk -> reading`, or `fetch` (waiting for a permit or on the wire), then `landed` or `failed`, and its place is free
again. Callers join a live flight, the last abort cancels it, and the cancelled flight's own cleanup must not unregister its
successor (`Unregister` compares identities as `multi-provider-pool.ts` does). `walk` holds, per flight on the wire, which
providers were asked and whether what they said was a definitive loss, a transient failure, or neither (`Definitive` is
`definitiveLossKind`). Any provider that is asked may fail transiently, also for a segment it holds; `Copies` says who holds what,
`Steady` names the providers whose breaker is never tripped, so that they are always among the candidates.

`OrderedParallelStream`: `task` says where each task stands (its fetch, or its place in the Map `buffered`) and which slot it
has; a task's decoded length is anything up to `MaxLength`, which is not tied to the average `TaskBytes` that the budget counts
with; `nextEmit`, `nextDispatch`, `inflight`, `skip`, `limit` are the class's fields, `queue` the Readable's buffer (chunks with
the slot they view), `down` the layers below it, `pool` the slot pool's record. A chunk remembers the task whose bytes it should
show, a slot the task last decoded into it; `ChunksIntact` compares the two. Its names do not overlap those of
`SegmentFailover`, so that one proof module extends both.

`ProviderWorkerPool`: `queue`, `conn`, `failures`, `allowed`, `state`, `auth` are the class's fields; requests carry where
they are. A connection that died but whose commands are not rejected yet is `dead` with `orphan` requests: that gap is real
(socket error callback first, promise rejections later) and is where counts go wrong. A transfer that fails settles its request
and lets go of its connection (`TransferSettles`, `LetGo`); one that is answered with "too many connections" lowers the ceiling to
what is open and counts no failure of the connection (`TransferLimited`). The keepalive `DATE` of an idle connection, which
occupies it for one exchange and dispatches again when it ends, is left out.

`DiskBackedCache`: `index` is the Map `disk` in insertion order, `bytes` is `diskBytes`, `pending`/`pendingBytes` are
`pendingWrites`/`pendingWriteBytes`. A file is the set of pieces in it, the header and `Pieces` chunks that Node writes one after
the other; a key's value (an article body) never changes, so a chunk is right if it is there. Opening a file for writing
truncates it, also under another write of the key, and two writes then fill the same file (`blended`). The codec sees a file's
length, not its holes (`Deserializes`). A read waits for the write it found and for no other. Every file-system call
is issued in one action and takes effect in a later one, in any order; a removal cuts the writes that have the file open.
`Exit` may happen between any two steps and keeps only the files.

`SegmentFailover`: one record per call with the providers still to ask, what each said, and the verdict; `affinity` is one
release's record. Which breakers are tripped is chosen when a call starts, as `orderProviders` reads it then. A STAT may be
restricted to some of the providers (`only`) and ends `unanswered` when none of them can be asked. An answer
and the choice of the next provider are one action: nothing is awaited between them.

`PlaybackOutbox`: `rows` is `watch_deliveries` of one sink, `order` its pending rows by due time, `sink` the row of
`watch_sinks` with the lease. A pass of a replica is one action per `await`: lease, read, POST, its outcome, the mark, the
release, the write of the sink's health. An event may still be queued for a sink that began to fail less than `Remembered` ago,
by the row that `dispatch.ts` keeps in memory. Time is a countdown: `Tick` takes one unit off every wait, lease and request, and
whatever is not a POST takes no time.

`DistributedLock`: `lock` is the map entry, the Redis key, the row or the file, whichever `backend` (chosen in `Init`) keeps;
a call's `pc` says at which `await` it stands, `left` what remains of its timeout, `timer` of its delayed release. `late`
remembers holders that outlived their claim: what they may still do is part of the model, and the properties say what holds
in spite of it. A process may die (`Dies`) and a command may fail, which has then had no effect (`RedisFails`, `SqlFails`,
`FileFails`, each with what the code makes of the error); `broken` are the calls this happened to. The look at a lock file is two
calls (`FileAccess`, `FileStat`), between which the file may go.

`StreamSessions`: `live`, `finalised`, `reads`, `pending` are the registry's maps, `row` and `rollup` the two tables, `usage`
the snapshot that admission reads. `open`, `touch`, `close` and the sweep are synchronous, so each is one action; a flush
(`flush[p]`, the task's and the exit's own) takes one per statement, and the bytes are several statements (`WriteBytes` writes
some of the lines at a time). An open may come through the operator's share, which no connection limit holds, and from a
user without a name, which nothing limits. `exempt`, `twice` and `tail` are history: the sessions whose reads the limit was not
held against, the chunks a failed pass will write again, and those that arrived after the end of their session. Time is one
bit per session, quiet for longer than the rejoin grace.

`TaskClaims` (its names do not overlap those of `PlaybackOutbox`, so that one proof module extends both): one call of
`executeClaimed` per replica and door (poll, run-now, retry), with the claim row, the renewal timer and the retry timer. A
claim names the replica, as `claimed_by` does, and not the run. One tick is the renewal period. A claim and a renewal are back
within the tick; the record of a run and the release of its claim may take any number of ticks, which counts as a fault.
Statements may fail, and a replica may crash between any two of them. Each replica is asked for a run by hand at most once a
tick.

## 3. Runs

All bounds are constants of the cfg. `PROJECT.json` says for every run what it shows; the essentials:

| Run | Instance | Shows |
|---|---|---|
| `semaphore` | 5 callers, 2 permits, ceiling moved to 1, 2, 3 (clamped), share 60/40 | safety and refinement of `ClassQueues` |
| `arena` | 4 slots of 2 sizes, budget 3 units, 2 readers | slot safety and accounting |
| `segment_fetch` | 2 callers, 2 segments, 2 providers (one never trips and holds the first segment, the other holds the second), 2 flights, 1 slot, 1 permit | single flight, leases, permits, answers, honest misses |
| `stream` | 4 tasks of up to twice the average size, a hole, skip and limit, 2 parallel, 2 pooled slots, a second stream on the bank | byte safety, EOF, read-ahead, the stream finishes |
| `worker_pool` | 3 requests at a time of any class, 2 connections of depth 2 | conservation, ceiling, no stranded work, one probe |
| `worker_pool_lone` | 1 connection, depth 1, idle work | *violation*: it is never served |
| `disk_cache` | 2 keys, budget for one or none, 2 writes, 1 reader, files of 3 pieces, at most 2 operations under way, the index's count at most 2 off | whole hits, exact back-pressure, through kills |
| `failover` | 2 primaries, 1 backup, any restriction of a STAT, demotion at 1 miss of 2, recovery at 1 of 3 | honest verdicts, no healthy provider skipped, demotion sticky |
| `playback_outbox` | 2 replicas, 1 item, start, stop and played in either lane, 2 events, probe after 2 ticks, sink rows remembered for 1, 1 fault, 1 lost account | one pass at a time, order, a mark is final, every event settles |
| `distributed_lock` | 3 calls, each backend, claim of 3 ticks, timeout 2, answers kept 1, 1 death or failed command | one runner, nobody stranded, fresh answers, every call returns |
| `stream_sessions` | 1 user, 2 targets, 2 sessions of 1 read, 2 chunks, limit 1, cap 2 chunks, 1 fault, 1 exit or crash | rows owned, bytes exact but for those of a half-failed pass, limit passed only by the exempt, stops and caps bite |
| `task_claims` | 2 replicas, claim of 3 ticks, interval 2, retry after 1, 3 faults | one runner until the claim lapses, the task recurs |

A property named `...Sound` is a component's type invariant with the representation facts that go with it; each named part
(`OnePart`, `SingleFlight`, `RequestsConserved`, `WritesAccounted`, `OnePass`, `RowsOwned`, `RunsExclusive` and so on) is a
definition of its own with its own comment.

Two MC modules have a state constraint. `MCDiskBackedCache` bounds the operations under way at once and how far the byte counter
may be from the index (a hit rewrites an entry's size, section 5). `MCStreamSessions` uses that sessions are alike: the first
watches `a` and is the one that another replica wants to stop, that falls silent and that gets bytes after its end; the
second competes for the connection and is served beside it, so that a pass has two lines to write. Users without a name are
in the proofs and not in that run, whose one user has one.

The deadlock check is off where a behaviour ends by right: a closed pool, a destroyed stream, a killed or closed cache, calls
that all returned, chunks that are all served.

**Why the bounds are enough.** Each instance contains the smallest situation in which the resource is contended twice: one
permit or slot short of the callers, one connection short of the requests, one slot short of the read-ahead, plus one actor
that aborts. The mutants are the evidence: for every property a plausible bug in a mapped definition is caught under the
same cfg. Request identities of the worker pool are reused once settled, so its histories are unbounded although three
requests at a time are enough for two connections to be wanted while one login fails.

**Fairness.** Only where a run needs it: weak fairness of the steps the event loop will certainly take (a pending callback,
a settled promise), never of callers' submissions or aborts. `StreamFinishes` assumes that fetches settle and that the
consumer reads on. `RelentingSpec` of the worker pool uses strong fairness for timers and socket outcomes, because its
step-wise `dispatch` disables them only in the model, and assumes that a server dialed for ever lets somebody in; the
violation `worker_pool_lone` stands in spite of both. Without `ServerRelents` a server that always answers "too many
connections" keeps the queue waiting, by design of the throttle.

Liveness of the four newer modules rests on what their processes do by themselves. `PlaybackOutbox`: the delivery task recurs
on every replica, a POST is answered or times out, time passes, and a user whose account was lost reconnects it some day
(without that its rows are held for ever, as intended). `DistributedLock`: time passes and every call takes its next step,
`fn` ends included; nobody has to call. `StreamSessions`: the flush is started, its statements return or fail, an exit
ends and a process is started again; viewers owe nothing. `TaskClaims`: time, polls, the retry timer, a call's next step and
its renewals; run-now is never owed. Faults are bounded, never fair: the properties say what follows once they stop.

## 4. Proofs

A theorem holds for every value of the constants its module declares, under the assumptions declared with them. Each
proof module has an inductive invariant (`IInv`), one lemma per action that the action preserves it, and the theorems as
its consequences. `PROJECT.json` lists the theorems; this is what each invariant adds to the property and why.

**`DataLemmas`.** Sums over a finite set (`SumOf`, the `MapThenSumSet` of the models) and positions in a sequence. The
induction these facts need is carried out over the subsets of one set, as a set of good subsets that the well-foundedness
of strict inclusion shows to be all of them, so no lemma takes an operator for a parameter. `SumAdd`, `SumSplit`,
`SumRetire`, `SumPlus` and `SumBounds` carry the accounting of the arena and of the sessions; the sequence lemmas carry the
free list, the LRU order and the walk over providers; `OnlyFacts` says of a filter what an `ORDER BY` query promises: exactly
the rows asked for, in the order they had.

**`BudgetProofs`, the download budget** (any callers, ceiling, share, throttle schedule). The permit properties are not inductive
alone: the queue must be known to be sorted by class and duplicate free, each waiting caller to be in it exactly once, the
Low accumulator to stay below one whole grant, and a grant in progress to have a permit and a waiter (`LoopInv`). `ShareKept`
and `CeilingHolds` (a grant only under the ceiling in force, which no run repeats) are action properties from the same
invariant. `Refinement` shows that the sorted queue implements `ClassQueues`, one FIFO queue per class: in a sorted queue
each class is one block (`Block`), so the abstract queue is a segment of the concrete one; an insertion lengthens the
block of its class at the end and shifts or leaves the others, a removal takes one entry out of one block, and everything
else stutters.

**`SegmentFetchProofs`, the arena** (any slots, sizes, budget, bodies, readers). `SlotsSound`, `PinnedBytesIntact` and `BytesAccounted`
hold together or not at all: that a pinned body is whole needs the slot to be neither free nor leased (`OnePart`), which
needs the reference counts to be the pins in readers' hands (`RefsCountPins`) and the pinned slot to be resident or dropped
(`PinnedHeld`); that an entry given out is the right one needs every entry to show its own body (`EntriesDecoded`); and
that the bytes are the sum of the sizes needs every held slot to have one (`HeldSized`). The steps are grouped by what they do
to the sums: a slot gained, slots retired, a slot resized.

**`SegmentFetchProofs`, the coordinator** (any callers, segments, flights, slots, permits, with the arena's and the budget's own
steps inside). The invariant is the arena's with what ties the four to each other. `SingleFlight` needs that a place in use has a
segment (`Shaped`) and that the index never names a cancelled flight, which is why the last caller deregisters before it aborts.
`WaitersAnswered` needs that flights share no waiter (`Waits`). `LeasesOwned` needs that the slot a checkout hands out is nobody's
lease yet (`LeaseFresh`): a fresh slot has size 0 and a leased one has not, an evicted or free one is no lease because a slot plays
one part. `PermitsOwned` needs that the budget's queue holds only flights that wait, each once (`QueueSound`), since a release
hands the permit to somebody the releasing flight does not choose; `AcquireAsks`, `AbortLeaves` and `ReleaseHandsOn` state what
each call does to who asks, and are all the proof uses of the budget. `CallerReadsItsSegment` is the arena's `PinnedBytesIntact`
once a pin is known to be in the hands of the caller that was served that segment (`PinsServed`). `MissesHonest` needs that
a walk which asked a provider that holds the segment has heard of trouble (`Verdicts`): one that heard losses only and asked every
steady provider has then asked none that holds it. TLC confirmed the invariant
on the run's instance and a larger one before it was proved.

**`BudgetProofs`, the disk tier** (any finite set of keys, payloads, disk budgets, back-pressure limits, writers and readers).
`CacheIInv` treats the live index, the one on disk and the one being written alike: each is a sequence that names a key once
(`IsIndex`), which deletion, refresh, eviction from the front, `load`'s merge and a save cut short all preserve, so a restart
may bring back any of them. `WritesAccounted` needs that `pendingWrites` leads only to a write in flight of its key: a write
that settles then takes exactly its own payload out of the sum over the writes in flight and cannot unregister a newer write
of the key, and the saturation check before a write bounds the sum by the limit plus one payload. `HitsWhole` needs that a
file which no two writes had open at once is a prefix of its pieces, and one that a write has open reaches just as far as that
write has come (`FileState`): a removal cuts the write first, a failed one leaves the prefix behind, and a second write that
opens the file makes it `blended` until it is unlinked or opened anew. What is long enough for the codec has then no hole. `VictimsExist`
(the eviction stops) and `IndexCardinality` are the lemmas about the model's own operators.

**`ProviderWorkerPoolProofs`** (any requests, connections, depth, odds, breaker threshold). `RequestsSound` follows from queues
that hold queued requests of their class, each once (`QueueSound`); an abort is the first occurrence taken out of each queue,
which is the only one. `ConnsWithinCeiling` needs, for the dial loop, that a set of slots has at most `k` members with fewer
than `k` below them (`LowestFew`), and, for a limit reply during a dial or a transfer, that the new ceiling is not below what is
left open. `NoStrandedWork` is about the end of a walk, so the invariant says what a walk leaves behind
(`WalkSound`): no dead connection, and, if no transfer runs, nothing that a visited connection could have taken; then either
something is in flight or every slot is shut and the demand that remains dials one. The remaining demand may be none for
background work alone, when its share of the pool rounds to zero. That is the case `Lone`, one connection of depth one: it is what the
violation of `worker_pool_lone` shows, `WorkNeverStranded` excludes it by the hypothesis `MaxConns * Depth > 1`, and
`ForegroundNeverStranded` says without hypothesis that stream and library work is never affected. `LoneProbe` needs that a walk
past its first slot is not blocked and that a failed login always leaves a block or its end (`AuthSound`).

**`ServePathProofs`, the failover** (any providers, tiers, ratios, calls). `VerdictsHonest`: the loop knows that nobody has delivered
and, for a body, that no unclassified error came, since either would have ended it; `Exhausted` then leaves only
definitive answers. This part needs nothing of the order. `LoopSound` does: the walk (`WInv`) has every provider
that was healthy at the start either ahead in a list without repetitions or among those that answered, which rests on
`Candidates` being a permutation of the providers; for a restricted STAT it is the same of the providers it is restricted to. `OnlyBodiesRehabilitate`, an action property, needs the record to be
sensible (`RInv`: no more misses than samples, and a demotion above the ratio that recovers) and `DemotePct <= 100`. The
theorem on verdicts speaks of the providers *asked*: one whose breaker is tripped is not asked, and the code's "all
providers" does not mean it (section 5).

**`ServePathProofs`, the ordered stream** (any tasks, lengths, slots and sizes, slot and bank caps, budgets, skip and limit). Each
method of the pool is a lemma from pools to pools that keeps `PoolOK` and says whose slot it gives back (`Released`,
`Reclaims`, `Acquires`); the loops of `reclaim`, `destroy` and `retire` are recursive functions, which `FoldExists` shows to be
defined. `PoolAccounted` is `PoolOK`. `ChunksIntact` needs that what the pool has lent to a task is what the task works with
(`TaskOK`), that a pushed chunk's slot is still lent to its task (`ChunkOK`), and so that `reclaim` takes back no chunk that
somebody holds. That is the ledger (`LedgerOK`): counted back from all that was pushed, the chunks in the queue and below it end
where the pool has them down. The layers below hold at most `Layers` chunks of at most `maxSlot` bytes each, so whatever
ends before `pushed - queued - Layers * maxSlot` has left them (`Unread`); `recordPush` after the `push` that may call the consumer
is why the ledger distinguishes the chunk being recorded (`Pushed`). `RangeSound` needs that skip and limit are what is left
of the range after the tasks emitted so far (`RangeOK`); its bound on the read-ahead adds to the budget what the tasks in flight may
exceed the average by. `NoLateWrite` holds because a step writes only into a slot lent to
one of its tasks, and a lent slot is not in the bank. TLC checked the invariant, with a witness
for the ledger, on the run's instance before it was proved.

**`DistributedLockProofs`** (any calls, times, deaths and failed commands, each of the four backends). `OneRunner` needs that who runs owns the
entry, up to what the property excuses for that backend (`HoldersOwn`), that an entry left to expire belongs to a call that
is late or has ended (`Expired`), and that each backend uses its own steps only (`BackendsApart`). `NoStrandedWaiter` needs
that whoever owns the entry will answer or has a delayed release pending (`OwnerAnswers`, `HolderLives`); `AnswersFresh`, that
a call ends once and its release is due one `Keep` after that (`EndedOnce`, `OldEnded`), unless its process died or its DELETE
failed. The late, the dead and the broken are part of the invariant, so the theorems say what is left of each guarantee when
they occur.

**`StreamSessionsProofs`** (any finite set of users with or without a name, any targets and transports, sessions, limit, faults,
restarts). `RowsOwned` needs that what a pass is about to write as active lives or is still to be written (`RowsFollow`), which is
where a session that ends while the flush is between two statements would be lost; it holds while the process is up
because the exit's own pass runs at the exit only (`PassesSound`). `BytesCounted` is a balance per user, kept by every statement
of a pass: what a failed pass puts back is what it had still to write and what it had written, and the second part is what
`twice` counts. That nothing but tails is lost needs that the sessions a pass claims from are still owned until it writes
(`KeysSound`). `LimitHeld` needs that reads are reads of live sessions, held by somebody (`ReadsSound`), and that a session
stops being exempt with its last read. TLC confirmed the invariant on the run's instance before it was proved.

**`ReplicaTasksProofs`, the outbox** (any replicas, items, lease, waits, limits, events and faults). `OnePass` needs that a pass
under way holds the lease and that the lease outlasts what it may still do (`Leased`): its budget and one more request while
it may start one, the request it waits for afterwards. `OrderKept` and `FinalWord` are about a row in a snapshot, read
before rows were added, merged or taken away, so the invariant relates the three: pending rows stand in due order and a
later one stands before an earlier one only if that was tried (`Sorted`); a snapshot leaves out no pending row that goes first,
unless the pass has tried it (`Batch`); and what a mark made pointless is in no older row, in no snapshot of one, and not in the
same snapshot ahead of the mark (`Final`). One row per key (`Keyed`) is what lets a replacement touch only what it supersedes.
The action properties are stated at `Posts`, the moment the request leaves. `Shrinks` treats the enqueue, the mark's
cut and the pruning alike: rows only lose items or leave, and new ones come at the end.

**`ReplicaTasksProofs`, the claim** (any replicas, claim time, interval, retry delay, faults). `ClaimsSound`: until a claim has run out under
a call that has not released it, whoever runs the task holds the claim. "Whoever runs holds the claim" is not inductive: a run-now of the same
replica shares the holder's name, and the release of one call could free the claim under another. The invariant adds that
`running` names exactly the calls at work (`RunningMatches`) and that at most one call at a time believes it holds the
claim, and the row names its replica (`OneOwner`), which `lapsed` suspends once a claim ran out. `StepOwns` and `ShrinkOwns`
treat the steps by what they do to the row: those that take the claim need it free, all others only let go.

**Assumptions on constants.** Finite sets of callers, users, requests, keys, writers; positive natural times and bounds; the stream's tasks numbered
from 0; `None` (`Nothing` in the stream) is not one of the values it stands beside; `DemotePct <= 100`. Each is a named `ASSUME` of its module that TLC evaluates on the run.

**Only model-checked.** Liveness everywhere (`StreamFinishes`, `EveryEventSettles`, `EveryCallReturns`, `StopsHonoured`, `CapTrips`,
`TaskRecurs`): it is about fairness and `ENABLED`, which the prover does not treat. Every safety invariant and every
action property of a passing run is a theorem.

## 5. Disagreements between code and documentation

One disagreement is a run that is expected to fail and an entry under `findings` quoting the line it contradicts:

- `worker_pool_lone` (EveryRequestSettles): `src/packages/core/src/usenet/nntp/provider-worker-pool.ts:326`. An idle-class request is pulled only while idleInFlight < idleBudget(), and the budget is floor(allowed * depth * 0.75): with one connection and the default pipeline depth of 1 it is 0, so the request is never dialed for (line 379), never fired and never rejected - its promise stays pending until its signal aborts.

The others were met while modelling; the models do what the code does, and the properties are stated so that they hold of it.

- A body is reported missing on "all providers" although a tripped one was never asked (`usenet/nntp/segment-fetcher.ts:794`
  against `usenet/nntp/errors.ts:63`). `MissesHonest` and `VerdictsHonest` therefore speak of the providers that were candidates.
- A STAT "throws when no candidate could be queried at all" (`usenet/nntp/segment-fetcher.ts:416`), but with an empty list of
  candidates, as a restriction to other providers gives, it returns `{ present: false, answered: false }` (`:474`); its caller takes
  either as unknown. `AsksEveryHealthyProvider` holds among the providers a STAT is restricted to.
- The read-ahead is said to be held to its budget (`usenet/pool/ordered-parallel-stream.ts:352`). The budget counts a task in flight
  as `taskBytes`, which is an average of decoded sizes (`usenet/pool/file-stream.ts:158`), so the bytes may exceed it by one task and by
  `maxConcurrency` times what the longest task exceeds the average by; this is the bound of `ReadAheadBounded`. `ChunksIntact` assumes that
  no body is longer than the first slot size (`InitialSlot`, the 1 MiB of `usenet/pool/segments-stream.ts:76`).
- "Once granted, the fetch completes and warms the cache" (`usenet/pool/multi-provider-pool.ts:386`): the segment fetcher
  drops the body of an abandoned fetch before it decodes it (`usenet/nntp/segment-fetcher.ts:349`), so nothing is warmed.
- A hit in the disk tier replaces an entry's recorded size by the length of its file and leaves the byte counter alone
  (`utils/disk-backed-cache.ts:269`), so the index of a "byte-bounded" cache (`:99`) may list more than its budget.
- Two writes of one key that are open at once share the file. The first puts its first chunks; the second truncates the file and
  puts its first; the first goes on where it was. A kill now leaves a file of valid length with a hole, which the comparison of
  lengths takes for a whole body (`usenet/pool/segment-cache.ts:92`, against the comment at `:87`). It needs an entry that is dropped
  and set again while its first write is open; `HitsWhole` leaves out just these files (`blended`).
- `flush` resolves while an earlier write of the index is still under way (`utils/disk-backed-cache.ts:512` against `:532`).
- "The pointer never lands earlier than `notBefore`, which is how a failing addon is held back"
  (`db/repositories/playback-handoff.ts:572`): each run of the task first sets every pointer to its oldest row's time
  (`:629`, called at `watch-state/handoff/deliver.ts:253`), which undoes the hold.
- A row that failed waits for its own time, so a stop queued later is sent before a start that is retried
  (`watch-state/handoff/deliver.ts:80`); `OrderKept` allows just this.
- The rejoin grace "cannot be used to dodge a limit" (`stream-sessions/registry.ts:31`), but the limit is held against a viewer only
  when a session starts or resumes after the grace, so one who comes back sooner is let in over it. The operator's share has none (`stream-sessions/limits.ts:22`), and a
  caller without a name is not limited at all (`:77`). `LimitHeld` says that nothing else gets past it.
- `addBandwidth` writes its deltas in several statements (`db/repositories/stream-sessions.ts:436`). When one fails after others were
  committed, the flush puts all claims back (`stream-sessions/registry.ts:502`) and the next pass counts the first ones again;
  `BytesCounted` has them in `twice`.
- Bytes that arrive on a handle after the last row of its session was collected are accepted and never written
  (`stream-sessions/registry.ts:262`), and a scheduled pass that fails while the process exits puts its claims back after the exit's own
  pass has collected; `OnlyTailsLost` speaks of the first and is stated while the process is up.
- `endById` ends the row of a session whose owner is merely slow; the owner's next write makes it active again
  (`stream-sessions/service.ts:133`).
- A lock row is to be removed two seconds after its answer, but the failure of that DELETE is swallowed
  (`utils/distributed-lock.ts:615`): for the rest of the row's ttl every caller is answered with the old outcome. `AnswersFresh` has this as
  its exception beside a writer that died.
- "Two missed renewals still leave the claim held" holds until just before the third (`tasks/index.ts:127`), and a claim
  names the instance, so after a lapse the release of an old run frees the claim under a second run of the same instance
  (`tasks/index.ts:346`). `RunsExclusive` therefore speaks of the time until the first lapse, under a run or under the record and
  the release that follow it.

## 6. Not modelled

Bytes and formats (yEnc, NZB, PAR2, archive headers), provider ranking (EWMAs), statistics and logs, memory poisoning aids,
`ParallelRangeStream`. Wall-clock time is a countdown where a deadline decides something (outbox, lock, tasks) and absent
elsewhere. TLC does not explore sub-microtask interleavings: a promise resolution and the first reaction to it are one
action unless a model says otherwise (`orphan` in the worker pool is such an exception).

Left out of the four newer modules: the outbox's cap on pending rows, the fallback when `retry_after` exceeds the back-off
table, and `pull`; the lock's encoding of results (only whether there is an answer and how old); the sessions' bans, limits
across all users, a user's several addresses, the rollover of the period and pruning; `all` tasks with their own timers and
request fan-out, seeding and the pruning of run records.
Commands of the lock and statements of the tasks that fail have had no effect; the time between reading the clock and the
effect of a statement is left out, but for the release of a task's claim.

Most of the repository has no state that a model checker could say more about than a unit test: the front end, HTTP adapters
to scrapers and debrid services, parsers and formatters, declarative presets, schemas and constants make up the larger part
of its lines. That is why the share of mapped lines is small although most components that hold shared state are
modelled.

## 7. Plan

1. Done: budget, arena, single-flight fetch, ordered stream and slot pool, worker pool, disk tier, failover, playback outbox,
   distributed lock, stream sessions, task claims.
2. Next: the NNTP connection's FIFO as the environment `ProviderWorkerPool` assumes; bans and global caps of the sessions;
   `all` tasks; the inspect scheduler and the library queue.
3. Later: release blocklist publication, the stream pipeline's comparator and deduplicator as operators.
4. Proofs worth having next: those of the modules above, as they come.
