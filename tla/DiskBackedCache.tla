----------------------------- MODULE DiskBackedCache -----------------------------
(***************************************************************************)
(* The disk tier of the caches (utils/disk-backed-cache.ts) with the       *)
(* segment codec of usenet/pool/segment-cache.ts: an LRU index in memory,  *)
(* one file per key, a persisted index, background writes and removals,    *)
(* crashes and restarts.                                                   *)
(*                                                                         *)
(* The file system is external: operations in flight complete in any       *)
(* order; a write truncates its file, then fills it piece by piece; a      *)
(* removal unlinks it and detaches the writes that have it open. A key's   *)
(* value never changes (an article body), so a file is the set of pieces   *)
(* written since it was truncated: one that lacks a piece before its last  *)
(* has a hole there. A read sees the file at one moment. The memory tier   *)
(* is off, as the segment cache configures it (memBytes 0).                *)
(***************************************************************************)
EXTENDS Integers, Sequences, FiniteSets, SequencesExt, FiniteSetsExt, SubSequences

CONSTANTS
  Key,
  Body,        \* [Key -> Nat], sizeOf a key's value
  Overhead,    \* what serialization adds to it
  Budgets,     \* the values of maxDiskBytes
  MaxWrites,   \* MAX_PENDING_WRITES
  MaxBytes,    \* MAX_PENDING_WRITE_BYTES
  Writer,      \* bound: writes in flight at once
  Reader,      \* bound: getAsync calls at once
  RmBound,     \* bound: removals of one key in flight (one more is not told apart)
  Pieces,      \* how many writes to the file a value takes; the header is in the first
  None

ASSUME KeyAssumption    == IsFiniteSet(Key) /\ Key # {}
ASSUME WriterAssumption == IsFiniteSet(Writer) /\ None \notin Key \union Writer
ASSUME BodyAssumption   == \A k \in Key : Body[k] \in Nat \ {0}
ASSUME BudgetAssumption == Overhead \in Nat /\ Budgets \subseteq Nat \ {0}
ASSUME QueueAssumption  == MaxWrites \in Nat \ {0} /\ MaxBytes \in Nat \ {0}
ASSUME BoundAssumption  == RmBound \in Nat \ {0}
ASSUME PieceAssumption  == Pieces \in Nat \ {0}

VARIABLES
  index,        \* `disk`: sequence of [key, size], least recently used first
  bytes,        \* diskBytes
  budget,       \* maxDiskBytes
  write,        \* per writer: [st, key, at], st "free", "queued", "open" or "cut" (unlinked),
                \* and the pieces written so far
  pending,      \* pendingWrites: per key, the latest write still in flight
  pendingBytes, \* pendingWriteBytes
  reader,       \* per reader: [st, key, on], st "idle", "await" (the write `on`) or "read"
  dirty, timer, \* indexDirty; flushTimer is armed
  saving,       \* the snapshot indexFlush is writing, None otherwise
  chained,      \* another flushIndex is chained behind it (bound: one)
  flusher,      \* flush(): "none", "drain" or "index"
  awaited,      \* the writes flush() waits for
  clearing,     \* the directory is being removed by clear()
  phase,        \* load(): "reading", "cleaning" (orphans), then "ready"
  present,      \* the files load() found and has not looked at yet
  orphan,       \* the file it is removing
  closed,
  file,         \* per key: its name, 0, and the pieces in it; {} without one (external)
  blended,      \* history: the keys whose file two writes had open at once
  removing,     \* per key: removals in flight (external)
  saved         \* the index file (external): a snapshot, <<>> when absent or cut short

indexVars == <<index, bytes, dirty, timer>>
writeVars == <<write, pending, pendingBytes>>
saveVars  == <<saving, chained>>
flushVars == <<saveVars, flusher, awaited>>
diskVars  == <<file, blended>>
fsVars    == <<diskVars, removing, saved>>
loadVars  == <<phase, present, orphan>>
lifeVars  == <<loadVars, closed, clearing>>
cacheVars == <<indexVars, budget, writeVars, reader, flushVars, fsVars, lifeVars>>

Entry == [key : Key, size : Nat]
KeysOf(idx) == {idx[i].key : i \in DOMAIN idx}
Sizes(idx) == LET size == [i \in DOMAIN idx |-> idx[i].size] IN MapThenSumSet(LAMBDA i : size[i], DOMAIN idx)
Indexed(k) == k \in KeysOf(index)
InFlight == {w \in Writer : write[w].st # "free"}

CacheTypeOK ==
  /\ index \in Seq(Entry) /\ Cardinality(KeysOf(index)) = Len(index)
  /\ bytes \in Int /\ budget \in Budgets
  /\ write \in [Writer -> [st : {"free", "queued", "open", "cut"}, key : Key \union {None}, at : 0..Pieces]]
  /\ pending \in [Key -> Writer \union {None}]
  /\ pendingBytes \in Nat
  /\ reader \in [Reader -> [st : {"idle", "await", "read"}, key : Key \union {None},
                           on : Writer \union {None}]]
  /\ flusher \in {"none", "drain", "index"} /\ awaited \subseteq Writer
  /\ phase \in {"reading", "cleaning", "ready"} /\ present \subseteq Key /\ orphan \in Key \union {None}
  /\ {dirty, timer, chained, clearing, closed} \subseteq BOOLEAN
  /\ file \in [Key -> SUBSET (0..Pieces)] /\ blended \subseteq Key
  /\ removing \in [Key -> 0..RmBound]

Free == [st |-> "free", key |-> None, at |-> 0]
NoRead == [st |-> "idle", key |-> None, on |-> None]
Files == {k \in Key : file[k] # {}}

CacheInit ==
  /\ index = <<>> /\ bytes = 0 /\ dirty = FALSE /\ timer = FALSE
  /\ write = [w \in Writer |-> Free]
  /\ pending = [k \in Key |-> None] /\ pendingBytes = 0
  /\ reader = [r \in Reader |-> NoRead]
  /\ saving = None /\ chained = FALSE /\ flusher = "none" /\ awaited = {}
  /\ closed = FALSE /\ clearing = FALSE
  /\ phase = "reading" /\ present = {} /\ orphan = None
  /\ budget \in Budgets
  /\ file = [k \in Key |-> {}] /\ blended = {} /\ saved = <<>>
  /\ removing = [k \in Key |-> 0]

--------------------------------------------------------------------------------
(* The index *)

Under(ks) == [key : ks, size : Nat]
Without(idx, k) == Only(idx, Under(Key \ {k}))
SizeIn(idx, k) == Sizes(Only(idx, Under({k})))

\* dropDisk for each key of ks: index, bytes, and a removal in the background.
Arms == timer' = (timer \/ ~closed)
Removes(ks) ==
  removing' = [k \in Key |-> IF k \in ks /\ removing[k] < RmBound THEN removing[k] + 1 ELSE removing[k]]

\* evictDisk on the index idx of n counted bytes: the fewest entries from the
\* front that bring the count within the budget b, or all of them.
Victims(idx, n, b) ==
  CHOOSE i \in 0..Len(idx) :
    /\ n - Sizes(SubSeq(idx, 1, i)) <= b \/ i = Len(idx)
    /\ \A j \in 0..(i - 1) : n - Sizes(SubSeq(idx, 1, j)) > b
Evicts(idx, n, b) ==
  LET i == Victims(idx, n, b) IN
  /\ index' = SubSeq(idx, i + 1, Len(idx))
  /\ bytes' = n - Sizes(SubSeq(idx, 1, i))
  /\ Removes({idx[j].key : j \in 1..i})

Trims(b) ==
  /\ Evicts(index, bytes, b)
  /\ IF Victims(index, bytes, b) > 0 THEN dirty' = TRUE /\ Arms ELSE UNCHANGED <<dirty, timer>>

Drop(k) ==
  /\ index' = Without(index, k)
  /\ bytes' = bytes - SizeIn(index, k)
  /\ IF Indexed(k) THEN dirty' = TRUE /\ Arms /\ Removes({k}) ELSE UNCHANGED <<dirty, timer, removing>>

--------------------------------------------------------------------------------
(* set *)

Saturated == Cardinality({k \in Key : pending[k] # None}) >= MaxWrites \/ pendingBytes >= MaxBytes

\* Update the index synchronously, evict to fit, write in the background. A
\* value larger than the budget is not kept.
Set(k) ==
  /\ ~closed /\ Body[k] <= budget /\ ~Saturated
  /\ \E w \in Writer \ InFlight :
       /\ write' = [write EXCEPT ![w] = [st |-> "queued", key |-> k, at |-> 0]]
       /\ pending' = [pending EXCEPT ![k] = w]
  /\ pendingBytes' = pendingBytes + Body[k]
  /\ Evicts(Append(Without(index, k), [key |-> k, size |-> Body[k]]),
            bytes - SizeIn(index, k) + Body[k], budget)
  /\ dirty' = TRUE /\ Arms
  /\ UNCHANGED <<budget, reader, flushVars, diskVars, saved, lifeVars>>

\* The write opens its file, and truncates it.
OpenOn(k) == {w \in Writer : write[w].st = "open" /\ write[w].key = k}
WriteOpens(w) ==
  LET k == write[w].key IN
  /\ write[w].st = "queued"
  /\ write' = [write EXCEPT ![w].st = "open"]
  /\ file' = [file EXCEPT ![k] = {0}]
  /\ blended' = IF OpenOn(k) = {} THEN blended \ {k} ELSE blended \union {k}
  /\ UNCHANGED <<indexVars, budget, pending, pendingBytes, reader, flushVars, removing, saved, lifeVars>>

\* It puts the next piece in its place.
WritePuts(w) ==
  LET k == write[w].key  n == write[w].at + 1 IN
  /\ write[w].st \in {"open", "cut"} /\ n <= Pieces
  /\ write' = [write EXCEPT ![w].at = n]
  /\ file' = IF write[w].st = "open" THEN [file EXCEPT ![k] = @ \union {n}] ELSE file
  /\ UNCHANGED <<indexVars, budget, pending, pendingBytes, reader, flushVars, blended, removing, saved,
                 lifeVars>>

\* The write settles: only the latest one of its key leaves pendingWrites, and
\* the readers that found this very write go on.
Settled(w) ==
  /\ write' = [write EXCEPT ![w] = Free]
  /\ pending' = [k \in Key |-> IF pending[k] = w THEN None ELSE pending[k]]
  /\ reader' = [r \in Reader |-> IF reader[r].st = "await" /\ reader[r].on = w
                                  THEN [st |-> "read", key |-> reader[r].key, on |-> None]
                                  ELSE reader[r]]
ReturnsBytes_NotOnFailure(w, ok) == pendingBytes' = IF ok THEN pendingBytes - Body[write[w].key] ELSE pendingBytes
ReturnsBytes(w, ok) == pendingBytes' = pendingBytes - Body[write[w].key]

WriteDone(w) ==
  /\ write[w].st \in {"open", "cut"} /\ write[w].at = Pieces
  /\ Settled(w) /\ ReturnsBytes(w, TRUE)
  /\ UNCHANGED <<indexVars, budget, flushVars, fsVars, lifeVars>>

\* A failed write rolls the index entry back, whichever write made it.
WriteFails(w) ==
  /\ write[w].st # "free"
  /\ Settled(w) /\ ReturnsBytes(w, FALSE)
  /\ Drop(write[w].key)
  /\ UNCHANGED <<budget, flushVars, diskVars, saved, lifeVars>>

\* A removal in flight reaches the disk.
Unlinked(ks) ==
  /\ file' = [k \in Key |-> IF k \in ks THEN {} ELSE file[k]]
  /\ blended' = blended \ ks
  /\ write' = [w \in Writer |-> IF write[w].st = "open" /\ write[w].key \in ks
                                THEN [write[w] EXCEPT !.st = "cut"] ELSE write[w]]
RemovalLands(k) ==
  /\ removing[k] > 0
  /\ Unlinked({k})
  /\ removing' = [removing EXCEPT ![k] = @ - 1]
  /\ UNCHANGED <<indexVars, budget, pending, pendingBytes, reader, flushVars, saved, lifeVars>>

--------------------------------------------------------------------------------
(* getAsync *)

\* Indexed (a miss otherwise): wait for the write in flight now, if any, then
\* read. A write of the key that starts meanwhile is not waited for.
GetStart(r, k) ==
  /\ phase = "ready" /\ reader[r] = NoRead /\ Indexed(k)
  /\ reader' = [reader EXCEPT ![r] =
       [st |-> IF pending[k] # None THEN "await" ELSE "read", key |-> k, on |-> pending[k]]]
  /\ UNCHANGED <<indexVars, budget, writeVars, flushVars, fsVars, lifeVars>>

\* deserializeSegment compares lengths only: it takes a file whose header is
\* there and whose length, where its last piece ends, is what the header says.
Deserializes_AnyLength(content) == 1 \in content
Deserializes(content) == {1, Pieces} \subseteq content

\* A readable file refreshes the entry with the length read; bytes stays.
GetHit(r) ==
  LET k == reader[r].key IN
  /\ reader[r].st = "read" /\ Deserializes(file[k])
  /\ index' = Append(Without(index, k), [key |-> k, size |-> Body[k] + Overhead])
  /\ reader' = [reader EXCEPT ![r] = NoRead]
  /\ UNCHANGED <<bytes, dirty, timer, budget, writeVars, flushVars, fsVars, lifeVars>>

\* Vanished, cut short, or a read error: the entry is dropped.
GetFails(r) ==
  /\ reader[r].st = "read"
  /\ Drop(reader[r].key)
  /\ reader' = [reader EXCEPT ![r] = NoRead]
  /\ UNCHANGED <<budget, writeVars, flushVars, diskVars, saved, lifeVars>>

--------------------------------------------------------------------------------
(* delete, clear, resize *)

Delete(k) ==
  /\ Indexed(k) /\ Drop(k)
  /\ UNCHANGED <<budget, writeVars, reader, flushVars, diskVars, saved, lifeVars>>

Clear ==
  /\ ~clearing
  /\ index' = <<>> /\ bytes' = 0 /\ dirty' = TRUE
  /\ clearing' = TRUE
  /\ UNCHANGED <<timer, budget, writeVars, reader, flushVars, fsVars, loadVars, closed>>

ClearLands ==
  /\ clearing
  /\ clearing' = FALSE
  /\ Unlinked(Key)
  /\ saved' = <<>>
  /\ UNCHANGED <<indexVars, budget, pending, pendingBytes, reader, flushVars, removing, loadVars, closed>>

Resize(b) ==
  /\ b # budget
  /\ budget' = b
  /\ Trims(b)
  /\ UNCHANGED <<writeVars, reader, flushVars, diskVars, saved, lifeVars>>

--------------------------------------------------------------------------------
(* Persisting the index *)

\* A snapshot is taken and its write begins, truncating the file.
Saves == saving' = index /\ dirty' = FALSE /\ chained' = FALSE /\ saved' = <<>>

\* flushIndex: nothing when the index is clean, else save or chain behind the save.
FlushIndex ==
  \/ ~dirty /\ UNCHANGED <<saving, dirty, chained, saved>>
  \/ dirty /\ saving = None /\ Saves
  \/ dirty /\ saving # None /\ chained' = TRUE /\ UNCHANGED <<saving, dirty, saved>>

TimerFires ==
  /\ timer
  /\ timer' = FALSE
  /\ FlushIndex
  /\ UNCHANGED <<index, bytes, budget, writeVars, reader, flusher, awaited, diskVars, removing, lifeVars>>

\* The save succeeds or fails; what is chained saves again if the index is dirty.
SaveEnds ==
  /\ saving # None
  /\ \E ok \in BOOLEAN :
       IF chained /\ (dirty \/ ~ok)
         THEN Saves
         ELSE /\ saving' = None /\ chained' = FALSE /\ dirty' = (dirty \/ ~ok)
              /\ saved' = IF ok THEN saving ELSE saved
  /\ UNCHANGED <<index, bytes, timer, budget, writeVars, reader, flusher, awaited, diskVars, removing, lifeVars>>

\* flush() and close(): wait for the writes in pendingWrites, then for flushIndex.
FlushStart(closing) ==
  /\ phase = "ready" /\ flusher = "none"
  /\ closed' = (closed \/ closing)
  /\ timer' = (timer /\ ~closing)
  /\ flusher' = "drain"
  /\ awaited' = {pending[k] : k \in Key} \ {None}
  /\ UNCHANGED <<index, bytes, dirty, budget, writeVars, reader, saveVars, fsVars, loadVars, clearing>>

FlushDrained ==
  /\ flusher = "drain" /\ awaited \intersect InFlight = {}
  /\ awaited' = {}
  /\ flusher' = IF dirty THEN "index" ELSE "none"
  /\ FlushIndex
  /\ UNCHANGED <<index, bytes, timer, budget, writeVars, reader, diskVars, removing, lifeVars>>

FlushDone ==
  /\ flusher = "index" /\ saving = None
  /\ flusher' = "none"
  /\ UNCHANGED <<indexVars, budget, writeVars, reader, saveVars, awaited, fsVars, lifeVars>>

--------------------------------------------------------------------------------
(* Process life *)

\* The process ends, by a kill or after its shutdown: memory and operations in
\* flight are gone, the files stay as they are.
Exit ==
  /\ index' = <<>> /\ bytes' = 0 /\ dirty' = FALSE /\ timer' = FALSE
  /\ write' = [w \in Writer |-> Free]
  /\ pending' = [k \in Key |-> None] /\ pendingBytes' = 0
  /\ reader' = [r \in Reader |-> NoRead]
  /\ saving' = None /\ chained' = FALSE /\ flusher' = "none" /\ awaited' = {}
  /\ closed' = FALSE /\ clearing' = FALSE
  /\ phase' = "reading" /\ present' = {} /\ orphan' = None
  /\ budget' \in Budgets
  /\ removing' = [k \in Key |-> 0]
  /\ UNCHANGED <<diskVars, saved>>

\* load: the persisted entries whose file is present override those that set made
\* meanwhile, in their place, and are counted on top.
Persisted == Only(saved, Under(Files))

Load ==
  /\ phase = "reading"
  /\ phase' = "cleaning"
  /\ index' = [i \in DOMAIN index |->
                 IF index[i].key \in KeysOf(Persisted)
                   THEN [index[i] EXCEPT !.size = SizeIn(Persisted, index[i].key)]
                   ELSE index[i]]
              \o Only(Persisted, Under(Key \ KeysOf(index)))
  /\ bytes' = bytes + Sizes(Persisted)
  /\ present' = Files
  /\ UNCHANGED <<orphan, dirty, timer, budget, writeVars, reader, flushVars, fsVars, closed, clearing>>

\* A file the index does not name is removed, and its removal waited for.
LoadChecks(k) ==
  /\ k \in present /\ orphan = None
  /\ present' = present \ {k}
  /\ orphan' = IF Indexed(k) THEN None ELSE k
  /\ UNCHANGED <<indexVars, budget, writeVars, reader, flushVars, fsVars, phase, closed, clearing>>

OrphanLands ==
  /\ orphan # None
  /\ Unlinked({orphan})
  /\ orphan' = None
  /\ UNCHANGED <<indexVars, budget, pending, pendingBytes, reader, flushVars, removing, saved,
                 phase, present, closed, clearing>>

\* Then the index is trimmed to the budget.
LoadTrims ==
  /\ phase = "cleaning" /\ present = {} /\ orphan = None
  /\ phase' = "ready"
  /\ Trims(budget)
  /\ UNCHANGED <<present, orphan, budget, writeVars, reader, flushVars, diskVars, saved, closed, clearing>>

WriteStep(w) == WriteOpens(w) \/ WritePuts(w) \/ WriteDone(w) \/ WriteFails(w)
ReadStep(r) == GetHit(r) \/ GetFails(r)

CacheNext ==
  \/ \E k \in Key : Set(k) \/ Delete(k) \/ RemovalLands(k)
  \/ \E w \in Writer : WriteStep(w)
  \/ \E r \in Reader : ReadStep(r) \/ \E k \in Key : GetStart(r, k)
  \/ Clear \/ ClearLands \/ \E b \in Budgets : Resize(b)
  \/ TimerFires \/ SaveEnds
  \/ \E c \in BOOLEAN : FlushStart(c)
  \/ FlushDrained \/ FlushDone
  \/ Exit \/ Load \/ OrphanLands \/ LoadTrims \/ \E k \in Key : LoadChecks(k)

CacheSpec == CacheInit /\ [][CacheNext]_cacheVars

--------------------------------------------------------------------------------
(* Properties *)

\* "a write cut short by a hard kill is refetched instead of served": a file the
\* codec takes, at whatever moment it is read and whatever was waited for, holds
\* the whole body - after a kill, a failed write, a second write of the key that
\* truncated it, or a removal under its write. Only a file that two writes had
\* open at once may have a hole that the comparison of lengths does not show.
HitsWhole ==
  \A k \in Key : Deserializes(file[k]) => 1..Pieces \subseteq file[k] \/ k \in blended

\* The back-pressure counts exactly the payloads in flight, through failures,
\* overlapping writes of one key and removals, and bounds them.
WritesAccounted ==
  /\ LET payload == [w \in InFlight |-> Body[write[w].key]] IN
       pendingBytes = MapThenSumSet(LAMBDA w : payload[w], InFlight)
  /\ \A k \in Key : pending[k] # None => write[pending[k]].key = k
  /\ pendingBytes < MaxBytes + Max({Body[k] : k \in Key})

WritesSound == CacheTypeOK /\ WritesAccounted
================================================================================
