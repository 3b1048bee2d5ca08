----------------------------- MODULE SegmentArena -----------------------------
(***************************************************************************)
(* The pinned in-RAM tier of the segment cache                             *)
(* (usenet/pool/segment-arena.ts): recyclable slots holding decoded        *)
(* segment bodies, shared through pin/release handles, evicted in LRU      *)
(* order while unpinned, leased to one decode at a time, all under a byte  *)
(* budget. Every method is synchronous, so each is one action.             *)
(*                                                                         *)
(* A slot is an identity with a size (in units of SLOT_GRANULARITY); a     *)
(* retired slot has size 0. `content` is what was last decoded into it.    *)
(***************************************************************************)
EXTENDS Integers, Sequences, FiniteSets, SequencesExt

CONSTANTS
  Id,      \* message-ids
  Slot,    \* slot identities
  Handle,  \* pin handles the readers can hold at once
  Need,    \* the (rounded) slot sizes a checkout asks for
  Budget,  \* budgetBytes
  None

ASSUME SlotAssumption   == IsFiniteSet(Slot)
ASSUME HandleAssumption == IsFiniteSet(Handle)
ASSUME NoneAssumption   == None \notin [id : Id, slot : Slot]
ASSUME NeedAssumption   == Need \subseteq Nat \ {0}
ASSUME BudgetAssumption == Budget \in Nat

VARIABLES
  size,     \* per slot: its length, 0 when the arena does not own it
  entries,  \* the resident entries [id, slot], least recently used first
  refs,     \* per slot: pins on the entry it backs
  dropped,  \* slots of entries that left the map while pinned
  free,     \* the free list, used as a stack
  leases,   \* slots leased to an in-flight decode
  bytes,    \* allocatedBytes
  content,  \* per slot: the segment last decoded into it
  pins      \* per handle: the [id, slot] it views until released

vars == <<size, entries, refs, dropped, free, leases, bytes, content, pins>>

Entry == [id : Id, slot : Slot]

Resident == {entries[i].slot : i \in DOMAIN entries}
Pinned   == {i \in DOMAIN entries : refs[entries[i].slot] > 0}
Cached(id) == {i \in DOMAIN entries : entries[i].id = id}
Sizes(S) == MapThenSumSet(LAMBDA s : size[s], S)

TypeOK ==
  /\ size \in [Slot -> Need \union {0}]
  /\ entries \in Seq(Entry)
  /\ refs \in [Slot -> Nat]
  /\ dropped \subseteq Slot
  /\ free \in Seq(Slot)
  /\ leases \subseteq Slot
  /\ bytes \in 0..Budget
  /\ content \in [Slot -> Id \union {None}]
  /\ pins \in [Handle -> Entry \union {None}]

Init ==
  /\ size = [s \in Slot |-> 0]
  /\ entries = <<>>
  /\ refs = [s \in Slot |-> 0]
  /\ dropped = {}
  /\ free = <<>>
  /\ leases = {}
  /\ bytes = 0
  /\ content = [s \in Slot |-> None]
  /\ pins = [h \in Handle |-> None]

--------------------------------------------------------------------------------
(* Reading *)

\* acquire: LRU touch and pin. A miss changes nothing.
Acquire(id, h) ==
  /\ pins[h] = None
  /\ \E i \in Cached(id) :
       /\ entries' = Append(RemoveAt(entries, i), entries[i])
       /\ refs' = [refs EXCEPT ![entries[i].slot] = @ + 1]
       /\ pins' = [pins EXCEPT ![h] = entries[i]]
  /\ UNCHANGED <<size, dropped, free, leases, bytes, content>>

\* The last release of a dropped entry retires its slot.
Retires(s) == refs[s] = 1 /\ s \in dropped

\* release() of one handle; a second call on it does nothing.
ReleasePin(h) ==
  /\ pins[h] # None
  /\ LET s == pins[h].slot IN
       /\ refs' = [refs EXCEPT ![s] = @ - 1]
       /\ IF Retires(s)
            THEN /\ bytes' = bytes - size[s]
                 /\ size' = [size EXCEPT ![s] = 0]
                 /\ dropped' = dropped \ {s}
            ELSE UNCHANGED <<bytes, size, dropped>>
  /\ pins' = [pins EXCEPT ![h] = None]
  /\ UNCHANGED <<entries, free, leases, content>>

--------------------------------------------------------------------------------
(* Checking a slot out *)

FreeFit(need) == {i \in DOMAIN free : size[free[i]] >= need}

\* 1. Pop the free list; the undersized slots popped on the way are dropped.
CheckoutFree(need, s) ==
  /\ \E i \in FreeFit(need) :
       /\ \A j \in FreeFit(need) : j <= i
       /\ s = free[i]
       /\ LET popped == {free[j] : j \in (i + 1)..Len(free)} IN
            /\ bytes' = bytes - Sizes(popped)
            /\ size' = [t \in Slot |-> IF t \in popped THEN 0 ELSE size[t]]
       /\ free' = SubSeq(free, 1, i - 1)
  /\ UNCHANGED entries

\* What remains allocated once the whole (unfit) free list was dropped.
BytesNoFree == bytes - Sizes(Range(free))
RoomFor(need) == BytesNoFree + need <= Budget

\* A new slot of exactly `need`, the retired slots given up.
Fresh(need, s, retired) ==
  /\ size[s] = 0
  /\ bytes' = bytes - Sizes(retired) + need
  /\ size' = [t \in Slot |-> IF t = s THEN need ELSE IF t \in retired THEN 0 ELSE size[t]]

\* 2. Allocate while under budget.
CheckoutFresh(need, s) ==
  /\ FreeFit(need) = {}
  /\ RoomFor(need)
  /\ Fresh(need, s, Range(free))
  /\ free' = <<>>
  /\ UNCHANGED entries

\* 3. Evict in LRU order, skipping the pinned, until one slot fits or the
\* budget admits a fresh allocation.
Evictable_Pinned == {i \in DOMAIN entries : refs[entries[i].slot] <= 1}
Evictable == DOMAIN entries \ Pinned
EvictedUpTo(i) == {entries[j].slot : j \in {k \in Evictable : k <= i}}
Suffices(i, need) ==
  \/ size[entries[i].slot] >= need
  \/ BytesNoFree - Sizes(EvictedUpTo(i)) + need <= Budget

EvictionStops(i, need) ==
  /\ i \in Evictable /\ Suffices(i, need)
  /\ \A j \in Evictable : j < i => ~Suffices(j, need)

Without(E) ==
  LET Kept[n \in 0..Len(entries)] ==
        IF n = 0 THEN <<>>
        ELSE IF entries[n].slot \in E THEN Kept[n - 1] ELSE Append(Kept[n - 1], entries[n])
  IN Kept[Len(entries)]

CheckoutEvict(need, s) ==
  /\ FreeFit(need) = {}
  /\ ~RoomFor(need)
  /\ \E i \in Evictable :
       /\ EvictionStops(i, need)
       /\ entries' = Without(EvictedUpTo(i))
       /\ IF size[entries[i].slot] >= need
            THEN LET retired == (Range(free) \union EvictedUpTo(i)) \ {s} IN
                 /\ s = entries[i].slot
                 /\ bytes' = bytes - Sizes(retired)
                 /\ size' = [t \in Slot |-> IF t \in retired THEN 0 ELSE size[t]]
            ELSE Fresh(need, s, Range(free) \union EvictedUpTo(i))
  /\ free' = <<>>

\* A slot of at least `need` becomes the lease `s` (its bytes still the old ones).
Lease(need, s) ==
  /\ CheckoutFree(need, s) \/ CheckoutFresh(need, s) \/ CheckoutEvict(need, s)
  /\ leases' = leases \union {s}
  /\ UNCHANGED <<refs, dropped, pins>>

Checkout(need, s) == Lease(need, s) /\ UNCHANGED content

\* Exhaustion: null is returned, yet the unfit free slots and the undersized
\* unpinned entries tried on the way are gone.
CheckoutFails(need) ==
  /\ FreeFit(need) = {}
  /\ ~RoomFor(need)
  /\ \A i \in Evictable : ~Suffices(i, need)
  /\ LET retired == Range(free) \union {entries[i].slot : i \in Evictable} IN
       /\ bytes' = bytes - Sizes(retired)
       /\ size' = [t \in Slot |-> IF t \in retired THEN 0 ELSE size[t]]
       /\ entries' = Without(retired)
  /\ free' = <<>>
  /\ UNCHANGED <<refs, dropped, leases, content, pins>>

--------------------------------------------------------------------------------
(* Settling a lease *)

\* The decode writes its bytes into the leased slot.
Decode(s, id) ==
  /\ s \in leases
  /\ content' = [content EXCEPT ![s] = id]
  /\ UNCHANGED <<size, entries, refs, dropped, free, leases, bytes, pins>>

Abandon(s) ==
  /\ s \in leases
  /\ leases' = leases \ {s}
  /\ free' = Append(free, s)
  /\ UNCHANGED <<size, entries, refs, dropped, bytes, content, pins>>

\* Where a replaced entry's slot goes: to the free list when unpinned, else it
\* is flagged and retired by its last release.
ReplacedFree_All(old) == SetToSeq(old)
ReplacedFree(old) == SetToSeq({s \in old : refs[s] = 0})
ReplacedDropped_None(old) == {}
ReplacedDropped(old) == {s \in old : refs[s] > 0}

\* One pin per handle, each with its own release.
PinCount_Shared(H) == IF H = {} THEN 0 ELSE 1
PinCount(H) == Cardinality(H)

\* commit, together with the pins (handles H) the coordinator grants in the
\* same synchronous block.
Commit(s, id, H) ==
  /\ s \in leases
  /\ content[s] = id
  /\ \A h \in H : pins[h] = None
  /\ LET old == {entries[i].slot : i \in Cached(id)} IN
       /\ entries' = Append(Without(old), [id |-> id, slot |-> s])
       /\ free' = free \o ReplacedFree(old)
       /\ dropped' = dropped \union ReplacedDropped(old)
  /\ leases' = leases \ {s}
  /\ refs' = [refs EXCEPT ![s] = PinCount(H)]
  /\ pins' = [h \in Handle |-> IF h \in H THEN [id |-> id, slot |-> s] ELSE pins[h]]
  /\ UNCHANGED <<size, bytes, content>>

\* clear(): the unpinned entries and the free list are retired, the pinned
\* entries are flagged; leases stay with their decodes.
ClearedSlots == {entries[i].slot : i \in Evictable} \union Range(free)

Clear ==
  /\ bytes' = bytes - Sizes(ClearedSlots)
  /\ size' = [t \in Slot |-> IF t \in ClearedSlots THEN 0 ELSE size[t]]
  /\ dropped' = dropped \union {entries[i].slot : i \in Pinned}
  /\ entries' = <<>>
  /\ free' = <<>>
  /\ UNCHANGED <<refs, leases, content, pins>>

Next ==
  \/ \E id \in Id, h \in Handle : Acquire(id, h)
  \/ \E h \in Handle : ReleasePin(h)
  \/ \E need \in Need, s \in Slot : Checkout(need, s)
  \/ \E need \in Need : CheckoutFails(need)
  \/ \E s \in Slot, id \in Id : Decode(s, id)
  \/ \E s \in Slot : Abandon(s)
  \/ \E s \in Slot, id \in Id, H \in SUBSET Handle : Commit(s, id, H)
  \/ Clear

Spec == Init /\ [][Next]_vars

--------------------------------------------------------------------------------
(* Properties *)

\* Each slot plays one part at a time: free, leased, resident, or pinned
\* after being dropped. Two parts at once is silent corruption of a body.
OnePart ==
  /\ \A i, j \in DOMAIN entries : entries[i].slot = entries[j].slot => i = j
  /\ \A i, j \in DOMAIN free : free[i] = free[j] => i = j
  /\ Range(free) \intersect (leases \union Resident \union dropped) = {}
  /\ leases \intersect (Resident \union dropped) = {}
  /\ Resident \intersect dropped = {}

\* "a body may be read only between pin and release()": between the two, the
\* bytes behind a handle are those of the segment it was acquired for.
PinnedBytesIntact == \A h \in Handle : pins[h] # None => content[pins[h].slot] = pins[h].id

\* refs counts the outstanding handles, so eviction sees every reader, and a
\* dropped slot is kept only for as long as somebody reads it.
RefsCountPins ==
  /\ \A s \in Resident \union dropped :
       refs[s] = Cardinality({h \in Handle : pins[h] # None /\ pins[h].slot = s})
  /\ \A s \in dropped : refs[s] > 0

SlotsSound == TypeOK /\ OnePart /\ RefsCountPins

\* The budget arithmetic matches the slots really held: nothing is leaked or
\* subtracted twice across evictions, drops, replacements and clears.
BytesAccounted == bytes = Sizes(Range(free) \union leases \union Resident \union dropped)
================================================================================
