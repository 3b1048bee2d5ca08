--------------------------- MODULE SegmentFetchProofs ---------------------------
(***************************************************************************)
(* Proofs about SegmentArena for any segments, slots, handles, sizes and   *)
(* budget, and about SegmentFetch, the coordinator that drives it, for any *)
(* callers, flights and permits besides.                                   *)
(***************************************************************************)
EXTENDS SegmentFetch, DataLemmas

\* What the handles view is still there, and entries show what they are for.
PinnedHeld == \A h \in Handle : pins[h] # None => pins[h].slot \in Resident \union dropped
EntriesDecoded == \A i \in DOMAIN entries : content[entries[i].slot] = entries[i].id

\* The slots the arena owns, none of which is empty.
Held == Range(free) \union leases \union Resident \union dropped
HeldSized == \A s \in Held : size[s] # 0

ArenaIInv ==
  /\ TypeOK /\ OnePart /\ RefsCountPins /\ PinnedBytesIntact /\ BytesAccounted
  /\ PinnedHeld /\ EntriesDecoded /\ HeldSized

--------------------------------------------------------------------------------
(* Entries *)

SlotsDistinct(q) == \A i, j \in DOMAIN q : q[i].slot = q[j].slot => i = j
SlotsOf(q) == {q[i].slot : i \in DOMAIN q}

--------------------------------------------------------------------------------
(* What Without keeps *)

Step(q, E, g, n) ==
  IF n = 0 THEN <<>> ELSE IF q[n].slot \in E THEN g[n - 1] ELSE Append(g[n - 1], q[n])
IsKept(q, E, g, N) == g = [n \in 0..N |-> Step(q, E, g, n)]
Kept(q, E) == CHOOSE g : IsKept(q, E, g, Len(q))

\* What is left after an eviction, as the recursion that builds it.
LEMMA WithoutIsKept == \A E : Without(E) = Kept(entries, E)[Len(entries)]
BY DEF Without, Kept, IsKept, Step

\* That recursion has a solution: it recurs on shorter sequences.
LEMMA KeptExists ==
  ASSUME NEW q, NEW E, Len(q) \in Nat
  PROVE  IsKept(q, E, Kept(q, E), Len(q))
<1> DEFINE G == {N \in Nat : \E g : IsKept(q, E, g, N)}
<1>1. 0 \in G
  <2> DEFINE g == [n \in 0..0 |-> <<>>]
  <2>1. IsKept(q, E, g, 0)
    BY DEF IsKept, Step
  <2> QED BY <2>1
<1>2. ASSUME NEW N \in Nat, N \in G
      PROVE  N + 1 \in G
  <2>1. PICK g : IsKept(q, E, g, N)
    BY <1>2
  <2> DEFINE h == [n \in 0..(N + 1) |-> IF n = N + 1 THEN Step(q, E, g, N + 1) ELSE g[n]]
  <2>2. ASSUME NEW n \in 0..(N + 1) PROVE h[n] = Step(q, E, h, n)
    <3>1. CASE n = 0
      <4>1. g[0] = Step(q, E, g, 0)
        BY <2>1 DEF IsKept
      <4> QED BY <3>1, <4>1 DEF Step
    <3>2. CASE n # 0
      <4>1. n - 1 \in 0..N /\ n - 1 \in 0..(N + 1) /\ n - 1 # N + 1
        BY <3>2
      <4>2. h[n - 1] = g[n - 1]
        BY <4>1
      <4>3. Step(q, E, h, n) = Step(q, E, g, n)
        BY <3>2, <4>2 DEF Step
      <4>4. n # N + 1 => g[n] = Step(q, E, g, n)
        BY <2>1 DEF IsKept
      <4> QED BY <4>3, <4>4
    <3> QED BY <3>1, <3>2
  <2>3. h = [n \in 0..(N + 1) |-> h[n]]
    OBVIOUS
  <2> HIDE DEF h
  <2>4. IsKept(q, E, h, N + 1)
    BY <2>2, <2>3 DEF IsKept
  <2> QED BY <2>4
<1> HIDE DEF G
<1>3. Nat \subseteq G
  BY <1>1, <1>2, NatInductive
<1>4. \E g : IsKept(q, E, g, Len(q))
  BY <1>3 DEF G
<1> QED BY <1>4, Zenon DEF Kept

\* The entries outside E stay, in their order, and nothing else.
LEMMA WithoutFacts ==
  ASSUME entries \in Seq(Entry), NEW E
  PROVE  /\ Without(E) \in Seq(Entry)
         /\ Range(Without(E)) = {e \in Range(entries) : e.slot \notin E}
         /\ SlotsDistinct(entries) => SlotsDistinct(Without(E))
<1> DEFINE g == Kept(entries, E)
           To(n) == {entries[i] : i \in 1..n}
           Good(n) == /\ g[n] \in Seq(Entry)
                      /\ Range(g[n]) = {e \in To(n) : e.slot \notin E}
                      /\ SlotsDistinct(entries) => SlotsDistinct(g[n])
           G == {n \in Nat : n <= Len(entries) => Good(n)}
<1>1. Len(entries) \in Nat /\ DOMAIN entries = 1..Len(entries)
  OBVIOUS
<1>2. \A n \in 0..Len(entries) : g[n] = Step(entries, E, g, n)
  <2>1. IsKept(entries, E, g, Len(entries))
    BY <1>1, KeptExists
  <2> QED BY <2>1 DEF IsKept
<1> HIDE DEF g
<1>3. 0 \in G
  <2>1. g[0] = <<>>
    BY <1>1, <1>2 DEF Step
  <2>2. Range(<<>>) = {} /\ SlotsDistinct(<<>>) /\ <<>> \in Seq(Entry)
    BY RangeMembers DEF SlotsDistinct
  <2>3. To(0) = {}
    OBVIOUS
  <2> QED BY <2>1, <2>2, <2>3
<1>4. ASSUME NEW n \in Nat, n \in G
      PROVE  n + 1 \in G
  <2> SUFFICES ASSUME n + 1 <= Len(entries) PROVE Good(n + 1)
    OBVIOUS
  <2> DEFINE e == entries[n + 1]
  <2>1. Good(n)
    BY <1>1, <1>4
  <2>2. g[n + 1] = IF e.slot \in E THEN g[n] ELSE Append(g[n], e)
    <3>1. n + 1 \in 0..Len(entries) /\ n + 1 # 0 /\ (n + 1) - 1 = n
      BY <1>1
    <3> QED BY <1>2, <3>1 DEF Step
  <2>3. n + 1 \in 1..Len(entries) /\ e \in Entry
    BY <1>1
  <2>4. To(n + 1) = To(n) \union {e}
    <3>1. \A i \in 1..(n + 1) : i = n + 1 \/ i \in 1..n
      OBVIOUS
    <3>2. 1..n \subseteq 1..(n + 1) /\ n + 1 \in 1..(n + 1)
      OBVIOUS
    <3> QED BY <3>1, <3>2
  <2>5. CASE e.slot \in E
    BY <2>1, <2>2, <2>4, <2>5
  <2>6. CASE e.slot \notin E
    <3>1. g[n + 1] = Append(g[n], e)
      BY <2>2, <2>6
    <3> DEFINE w == g[n]
    <3>2. w \in Seq(Entry)
      BY <2>1
    <3>3. /\ Append(w, e) \in Seq(Entry)
          /\ DOMAIN Append(w, e) = 1..(Len(w) + 1) /\ DOMAIN w = 1..Len(w) /\ Len(w) \in Nat
          /\ \A i \in 1..Len(w) : Append(w, e)[i] = w[i]
          /\ Append(w, e)[Len(w) + 1] = e
          /\ Range(Append(w, e)) = Range(w) \union {e}
      BY <2>3, <3>2, AppendFacts
    <3>4. Range(g[n + 1]) = {d \in To(n + 1) : d.slot \notin E}
      BY <2>1, <2>4, <2>6, <3>1, <3>3
    <3>5. ASSUME SlotsDistinct(entries) PROVE SlotsDistinct(g[n + 1])
      <4>1. SlotsDistinct(w)
        BY <2>1, <3>5
      <4>2. ASSUME NEW i \in 1..Len(w) PROVE w[i].slot # e.slot
        <5>1. w[i] \in Range(w)
          BY <3>3, RangeMembers
        <5>2. w[i] \in To(n)
          BY <2>1, <5>1
        <5>3. PICK j \in 1..n : w[i] = entries[j]
          BY <5>2
        <5>4. j \in 1..Len(entries) /\ j # n + 1
          BY <2>3, <1>1
        <5> QED BY <1>1, <2>3, <3>5, <5>3, <5>4 DEF SlotsDistinct
      <4> HIDE DEF w, e
      <4>3. \A i \in 1..(Len(w) + 1) : i = Len(w) + 1 \/ i \in 1..Len(w)
        BY <3>3
      <4>4. SlotsDistinct(Append(w, e))
        BY <3>3, <4>1, <4>2, <4>3 DEF SlotsDistinct
      <4> QED BY <3>1, <4>4 DEF w
    <3> QED BY <3>1, <3>3, <3>4, <3>5
  <2> QED BY <2>5, <2>6
<1> HIDE DEF G
<1>5. Nat \subseteq G
  BY <1>3, <1>4, NatInductive
<1>6. Good(Len(entries))
  <2>1. Len(entries) \in G
    BY <1>1, <1>5
  <2>2. Len(entries) <= Len(entries)
    BY <1>1
  <2> QED BY <2>1, <2>2 DEF G
<1>7. Without(E) = g[Len(entries)]
  BY WithoutIsKept DEF g
<1>8. To(Len(entries)) = Range(entries)
  BY <1>1, RangeMembers
<1> QED BY <1>6, <1>7, <1>8

--------------------------------------------------------------------------------
(* Sums of sizes *)

\* The bytes of a set of slots are a sum in the sense of DataLemmas.
LEMMA SizesAreSums == \A S : Sizes(S) = SumOf(size, S)
BY DEF Sizes, SumOf, MapThenSumSet, MapThenFoldSet
\* The same of the accounting after a step.
LEMMA AccountedNext == BytesAccounted' <=> bytes' = SumOf(size', Held')
BY DEF BytesAccounted, Held, Sizes, SumOf, MapThenSumSet, MapThenFoldSet

\* Sizes and the budget are naturals, and no slot is empty.
LEMMA NeedNat == Need \subseteq Nat /\ 0 \notin Need /\ Budget \in Nat
BY NeedAssumption, BudgetAssumption

\* Finitely many slots hold memory.
LEMMA HeldFinite ==
  ASSUME TypeOK
  PROVE  /\ Held \subseteq Slot /\ IsFiniteSet(Held)
         /\ \A s \in Slot : size[s] \in Nat
<1>1. Range(free) \subseteq Slot
  BY RangeMembers DEF TypeOK
<1>2. Resident \subseteq Slot
  <2>1. \A i \in DOMAIN entries : entries[i] \in Entry
    BY DEF TypeOK
  <2> QED BY <2>1 DEF Resident, Entry
<1>3. Held \subseteq Slot
  BY <1>1, <1>2 DEF TypeOK, Held
<1>4. IsFiniteSet(Held)
  BY <1>3, SlotAssumption, FS_Subset
<1>5. \A s \in Slot : size[s] \in Nat
  <2>1. \A s \in Slot : size[s] \in Need \union {0}
    BY DEF TypeOK
  <2>2. \A n \in Need \union {0} : n \in Nat
    BY NeedNat
  <2> QED BY <2>1, <2>2, Zenon
<1> QED BY <1>3, <1>4, <1>5

\* Slots are given up and their bytes with them.
LEMMA BytesRetired ==
  ASSUME ArenaIInv, NEW R \in SUBSET Held,
         bytes' = bytes - Sizes(R),
         size' = [t \in Slot |-> IF t \in R THEN 0 ELSE size[t]],
         Held' = Held \ R
  PROVE  /\ BytesAccounted' /\ HeldSized'
         /\ bytes' \in 0..Budget /\ size' \in [Slot -> Need \union {0}]
<1>1. /\ TypeOK /\ HeldSized /\ bytes = SumOf(size, Held)
  BY SizesAreSums DEF ArenaIInv, BytesAccounted, Held
<1>2. Held \subseteq Slot /\ IsFiniteSet(Held) /\ \A s \in Slot : size[s] \in Nat
  BY <1>1, HeldFinite
<1>3. \A x \in Held \ R : size'[x] = size[x]
  BY <1>2
<1>4. /\ SumOf(size', Held \ R) = SumOf(size, Held) - SumOf(size, R)
      /\ SumOf(size', Held \ R) \in Nat /\ SumOf(size, R) \in Nat
  <2>1. \A x \in Held : size[x] \in Nat
    BY <1>2
  <2> QED BY <1>2, <1>3, <2>1, SumRetire, SMTT(30)
<1>5. bytes' = SumOf(size', Held \ R)
  BY <1>1, <1>4, SizesAreSums
<1>6. bytes' = SumOf(size', Held')
  BY <1>5, Zenon
<1>7. BytesAccounted'
  BY <1>6, AccountedNext
<1>8. bytes' \in 0..Budget
  BY <1>1, <1>4, <1>5, NeedNat DEF TypeOK
<1>9. HeldSized'
  BY <1>1, <1>2, <1>3 DEF HeldSized
<1> QED BY <1>1, <1>7, <1>8, <1>9 DEF TypeOK

\* A slot of size `need` comes in, within the budget.
LEMMA BytesFresh ==
  ASSUME ArenaIInv, NEW R \in SUBSET Held, NEW need \in Need, NEW s \in Slot,
         Fresh(need, s, R), bytes - Sizes(R) + need <= Budget,
         Held' = (Held \ R) \union {s}
  PROVE  /\ BytesAccounted' /\ HeldSized' /\ s \notin Held
         /\ bytes' \in 0..Budget /\ size' \in [Slot -> Need \union {0}]
<1>1. /\ TypeOK /\ HeldSized /\ bytes = SumOf(size, Held)
  BY SizesAreSums DEF ArenaIInv, BytesAccounted, Held
<1>2. Held \subseteq Slot /\ IsFiniteSet(Held) /\ \A t \in Slot : size[t] \in Nat
  BY <1>1, HeldFinite
<1>3. s \notin Held
  BY <1>1 DEF HeldSized, Fresh
<1>4. need \in Nat /\ need # 0 /\ size'[s] = need
  BY NeedNat DEF Fresh
<1>5. \A x \in Held \ R : size'[x] = size[x]
  BY <1>2, <1>3 DEF Fresh
<1>6. SumOf(size', (Held \ R) \union {s}) = SumOf(size, Held) - SumOf(size, R) + size'[s]
  BY <1>2, <1>3, <1>4, <1>5, SumReplace
<1>7. /\ SumOf(size', Held \ R) = SumOf(size, Held) - SumOf(size, R)
      /\ SumOf(size', Held \ R) \in Nat
  <2>1. \A x \in Held : size[x] \in Nat
    BY <1>2
  <2> QED BY <1>2, <1>5, <2>1, SumRetire, SMTT(30)
<1>8. bytes' = SumOf(size, Held) - SumOf(size, R) + need
  BY <1>1, SizesAreSums DEF Fresh
<1>9. bytes' = SumOf(size', Held')
  BY <1>4, <1>6, <1>8, Zenon
<1>10. BytesAccounted'
  BY <1>9, AccountedNext
<1>11. bytes' \in 0..Budget
  <2>1. bytes' = (SumOf(size, Held) - SumOf(size, R)) + need
    BY <1>8
  <2>2. bytes' <= Budget
    BY <1>1, <2>1, SizesAreSums
  <2> QED BY <1>4, <1>7, <2>1, <2>2, NeedNat
<1>12. HeldSized'
  BY <1>1, <1>2, <1>4, <1>5 DEF HeldSized
<1>13. size' \in [Slot -> Need \union {0}]
  BY <1>1 DEF Fresh, TypeOK
<1> QED BY <1>3, <1>10, <1>11, <1>12, <1>13

--------------------------------------------------------------------------------
(* The slots of the entries *)

\* The slots of the entry map, before and after a step.
LEMMA ResidentSlots == Resident = SlotsOf(entries) /\ Resident' = SlotsOf(entries')
BY DEF Resident, SlotsOf

\* OnePart in the words used below.
Apart(E, F, L, D) ==
  /\ F \intersect (L \union E \union D) = {} /\ L \intersect (E \union D) = {} /\ E \intersect D = {}

\* OnePart, part by part.
LEMMA OnePartParts ==
  OnePart <=> /\ SlotsDistinct(entries) /\ Distinct(free)
              /\ Apart(Resident, Range(free), leases, dropped)
BY DEF OnePart, SlotsDistinct, Distinct, Apart

\* OnePart, part by part, after a step.
LEMMA OnePartNext ==
  OnePart' <=> /\ SlotsDistinct(entries') /\ Distinct(free')
               /\ Apart(Resident', Range(free'), leases', dropped')
BY DEF OnePart, SlotsDistinct, Distinct, Apart

\* What is known of one entry.
LEMMA EntryIn ==
  ASSUME TypeOK, NEW i \in DOMAIN entries
  PROVE  /\ entries[i] \in Entry /\ entries[i].slot \in Slot /\ entries[i].id \in Id
         /\ entries[i].slot \in Resident
<1>1. entries[i] \in Entry
  BY DEF TypeOK
<1> QED BY <1>1 DEF Entry, Resident

\* A slot somebody views has pins, so eviction passes it over.
LEMMA ViewedIsPinned ==
  ASSUME ArenaIInv, NEW h \in Handle, pins[h] # None
  PROVE  pins[h] \in Entry /\ pins[h].slot \in Slot /\ refs[pins[h].slot] > 0
<1>1. pins[h] \in Entry
  BY DEF ArenaIInv, TypeOK
<1>2. pins[h].slot \in Slot
  BY <1>1 DEF Entry
<1> DEFINE V == {k \in Handle : pins[k] # None /\ pins[k].slot = pins[h].slot}
<1>3. refs[pins[h].slot] = Cardinality(V)
  BY DEF ArenaIInv, RefsCountPins, PinnedHeld
<1>4. IsFiniteSet(V) /\ h \in V
  BY HandleAssumption, FS_Subset
<1> HIDE DEF V
<1>5. Cardinality(V) \in Nat /\ Cardinality(V) # 0
  BY <1>4, FS_CardinalityType, FS_EmptySet
<1> QED BY <1>1, <1>2, <1>3, <1>5

\* An entry may be evicted when nobody holds a pin on its slot.
LEMMA EvictableSlots ==
  ASSUME ArenaIInv
  PROVE  \A i \in DOMAIN entries : i \in Evictable <=> refs[entries[i].slot] = 0
<1> SUFFICES ASSUME NEW i \in DOMAIN entries PROVE i \in Evictable <=> refs[entries[i].slot] = 0
  OBVIOUS
<1>1. entries[i].slot \in Slot
  BY EntryIn DEF ArenaIInv
<1>2. refs[entries[i].slot] \in Nat
  BY <1>1 DEF ArenaIInv, TypeOK
<1> QED BY <1>2 DEF Evictable, Pinned

\* Dropping unpinned entries from the map.
LEMMA Evicting ==
  ASSUME ArenaIInv, NEW E, entries' = Without(E),
         \A s \in E \intersect Resident : refs[s] = 0,
         UNCHANGED <<refs, dropped, pins>>
  PROVE  /\ entries' \in Seq(Entry) /\ SlotsDistinct(entries')
         /\ Range(entries') \subseteq Range(entries) /\ Resident' = Resident \ E
         /\ PinnedHeld' /\ RefsCountPins'
<1>0. TypeOK /\ entries \in Seq(Entry) /\ SlotsDistinct(entries)
  BY OnePartParts DEF ArenaIInv, TypeOK
<1>1. /\ entries' \in Seq(Entry)
      /\ Range(entries') = {e \in Range(entries) : e.slot \notin E}
      /\ SlotsDistinct(entries')
  BY <1>0, WithoutFacts
<1>2. Resident' = Resident \ E
  <2>1. Resident = {e.slot : e \in Range(entries)}
    BY RangeMembers DEF Resident
  <2>2. Resident' = {e.slot : e \in Range(entries')}
    BY RangeMembers DEF Resident
  <2> QED BY <1>1, <2>1, <2>2
<1>3. PinnedHeld'
  <2> SUFFICES ASSUME NEW h \in Handle, pins[h] # None
               PROVE  pins[h].slot \in Resident' \union dropped
    BY DEF PinnedHeld
  <2>1. refs[pins[h].slot] > 0
    BY ViewedIsPinned
  <2>2. pins[h].slot \in Resident \union dropped
    BY DEF ArenaIInv, PinnedHeld
  <2> QED BY <1>2, <2>1, <2>2
<1>4. RefsCountPins'
  BY <1>2 DEF ArenaIInv, RefsCountPins
<1> QED BY <1>1, <1>2, <1>3, <1>4

\* What is shown stays shown while nothing writes into the slots still read.
LEMMA ShownStill ==
  ASSUME ArenaIInv, pins' = pins, entries' \in Seq(Entry), Range(entries') \subseteq Range(entries),
         PinnedHeld', \A t \in Resident' \union dropped' : content'[t] = content[t]
  PROVE  EntriesDecoded' /\ PinnedBytesIntact'
<1>1. EntriesDecoded'
  <2> SUFFICES ASSUME NEW i \in DOMAIN entries' PROVE content'[entries'[i].slot] = entries'[i].id
    BY DEF EntriesDecoded
  <2>1. entries'[i] \in Range(entries)
    BY RangeMembers
  <2>2. PICK j \in DOMAIN entries : entries'[i] = entries[j]
    BY <2>1, RangeMembers
  <2>3. entries'[i].slot \in Resident'
    BY DEF Resident
  <2> QED BY <2>2, <2>3 DEF ArenaIInv, EntriesDecoded
<1>2. PinnedBytesIntact'
  <2>1. \A h \in Handle : pins[h] # None => pins[h].slot \in Resident' \union dropped'
    BY DEF PinnedHeld
  <2> QED BY <2>1 DEF ArenaIInv, PinnedBytesIntact
<1> QED BY <1>1, <1>2

--------------------------------------------------------------------------------
(* Reading *)

\* A step that takes and gives no memory keeps the accounting.
LEMMA HeldSame ==
  ASSUME ArenaIInv, size' = size, bytes' = bytes, Held' = Held
  PROVE  BytesAccounted' /\ HeldSized'
<1>1. bytes = SumOf(size, Held)
  BY SizesAreSums DEF ArenaIInv, BytesAccounted, Held
<1>2. bytes' = SumOf(size', Held')
  BY <1>1, Zenon
<1> QED BY <1>2, AccountedNext DEF ArenaIInv, HeldSized

\* Where the k-th element of n comes from once the i-th moved to the end.
EndAt(i, n, k) == IF k < i THEN k ELSE IF k < n THEN k + 1 ELSE i

\* Moving an entry to the end permutes the positions.
LEMMA EndAtBijective ==
  ASSUME NEW n \in Nat, NEW i \in 1..n
  PROVE  /\ \A k \in 1..n : EndAt(i, n, k) \in 1..n
         /\ \A j, k \in 1..n : EndAt(i, n, j) = EndAt(i, n, k) => j = k
         /\ \A k \in 1..n : \E j \in 1..n : EndAt(i, n, j) = k
<1>1. \A k \in 1..n : EndAt(i, n, k) \in 1..n
  BY DEF EndAt
<1>2. \A j, k \in 1..n : EndAt(i, n, j) = EndAt(i, n, k) => j = k
  BY DEF EndAt
<1>3. ASSUME NEW k \in 1..n PROVE \E j \in 1..n : EndAt(i, n, j) = k
  <2>1. CASE k < i
    BY <2>1 DEF EndAt
  <2>2. CASE k = i
    <3>1. EndAt(i, n, n) = k /\ n \in 1..n
      BY <2>2 DEF EndAt
    <3> QED BY <3>1
  <2>3. CASE k > i
    <3>1. EndAt(i, n, k - 1) = k /\ k - 1 \in 1..n
      BY <2>3 DEF EndAt
    <3> QED BY <3>1
  <2> QED BY <2>1, <2>2, <2>3
<1> QED BY <1>1, <1>2, <1>3

\* Moving an entry to the end keeps the entries.
LEMMA TouchFacts ==
  ASSUME NEW q \in Seq(Entry), NEW i \in DOMAIN q
  PROVE  LET w == Append(RemoveAt(q, i), q[i])
         IN  /\ w \in Seq(Entry)
             /\ Range(w) = Range(q)
             /\ SlotsDistinct(q) => SlotsDistinct(w)
<1> DEFINE r == RemoveAt(q, i)
           e == q[i]
           w == Append(r, e)
           n == Len(q)
<1>1. n \in Nat /\ DOMAIN q = 1..n /\ i \in 1..n /\ e \in Entry
  OBVIOUS
<1>2. /\ r \in Seq(Entry) /\ Len(r) = n - 1
      /\ \A j \in 1..(n - 1) : r[j] = IF j < i THEN q[j] ELSE q[j + 1]
  BY <1>1, RemoveAtProperties
<1> HIDE DEF r, e
<1>3. /\ Append(r, e) \in Seq(Entry) /\ DOMAIN Append(r, e) = 1..(Len(r) + 1)
      /\ \A j \in 1..Len(r) : Append(r, e)[j] = r[j]
      /\ Append(r, e)[Len(r) + 1] = e
  <2>1. r \in Seq(Entry) /\ e \in Entry
    BY <1>1, <1>2
  <2> QED BY <2>1, AppendFacts
<1> HIDE DEF w, n
<1>4. (n - 1) + 1 = n
  BY <1>1
<1>5. /\ w \in Seq(Entry) /\ DOMAIN w = 1..n
      /\ \A j \in 1..(n - 1) : w[j] = r[j]
      /\ w[n] = e
  BY <1>2, <1>3, <1>4, Zenon DEF w
<1>6. \A k \in 1..n : w[k] = q[EndAt(i, n, k)]
  BY <1>1, <1>2, <1>5 DEF EndAt, e
<1>7. /\ \A k \in 1..n : EndAt(i, n, k) \in 1..n
      /\ \A j, k \in 1..n : EndAt(i, n, j) = EndAt(i, n, k) => j = k
      /\ \A k \in 1..n : \E j \in 1..n : EndAt(i, n, j) = k
  BY <1>1, EndAtBijective
<1>8. Range(w) = Range(q)
  <2>1. Range(w) = {w[k] : k \in 1..n} /\ Range(q) = {q[k] : k \in 1..n}
    BY <1>1, <1>5, RangeMembers, Zenon
  <2>2. ASSUME NEW k \in 1..n PROVE w[k] \in {q[j] : j \in 1..n}
    <3>1. w[k] = q[EndAt(i, n, k)] /\ EndAt(i, n, k) \in 1..n
      BY <1>6, <1>7
    <3> QED BY <3>1, Zenon
  <2>3. ASSUME NEW k \in 1..n PROVE q[k] \in {w[j] : j \in 1..n}
    <3>1. PICK j \in 1..n : EndAt(i, n, j) = k
      BY <1>7
    <3>2. w[j] = q[k]
      BY <1>6, <3>1
    <3> QED BY <3>2, Zenon
  <2> HIDE DEF n
  <2> QED BY <2>1, <2>2, <2>3
<1>9. ASSUME SlotsDistinct(q) PROVE SlotsDistinct(w)
  <2>1. \A j, k \in 1..n : q[j].slot = q[k].slot => j = k
    BY <1>1, <1>9, Zenon DEF SlotsDistinct
  <2>2. ASSUME NEW j \in 1..n, NEW k \in 1..n, w[j].slot = w[k].slot PROVE j = k
    <3>1. w[j] = q[EndAt(i, n, j)] /\ w[k] = q[EndAt(i, n, k)]
      BY <1>6
    <3>2. EndAt(i, n, j) \in 1..n /\ EndAt(i, n, k) \in 1..n
      BY <1>7
    <3>3. EndAt(i, n, j) = EndAt(i, n, k)
      BY <2>1, <2>2, <3>1, <3>2, Zenon
    <3> QED BY <1>7, <3>3
  <2> QED BY <1>5, <2>2, Zenon DEF SlotsDistinct
<1> QED BY <1>5, <1>8, <1>9 DEF w, r, e

\* acquire: a pin more, and the entry becomes the most recent.
LEMMA AcquireStep ==
  ASSUME ArenaIInv, NEW id \in Id, NEW h \in Handle, Acquire(id, h)
  PROVE  ArenaIInv'
<1>0. TypeOK /\ SlotsDistinct(entries)
  BY OnePartParts DEF ArenaIInv
<1> PICK i \in Cached(id) :
      /\ entries' = Append(RemoveAt(entries, i), entries[i])
      /\ refs' = [refs EXCEPT ![entries[i].slot] = @ + 1]
      /\ pins' = [pins EXCEPT ![h] = entries[i]]
  BY DEF Acquire
<1> DEFINE e == entries[i]
           s == e.slot
<1>1. i \in DOMAIN entries
  BY DEF Cached
<1>2. e \in Entry /\ s \in Slot /\ s \in Resident /\ e # None /\ content[s] = e.id
  BY <1>0, <1>1, EntryIn, NoneAssumption DEF Entry, ArenaIInv, EntriesDecoded
<1>3. entries' \in Seq(Entry) /\ Range(entries') = Range(entries) /\ SlotsDistinct(entries')
  BY <1>0, <1>1, TouchFacts DEF TypeOK
<1>4. pins[h] = None /\ UNCHANGED <<size, dropped, free, leases, bytes, content>>
  BY DEF Acquire
<1>5. Resident' = Resident
  <2>0. /\ Range(entries) = {entries[j] : j \in DOMAIN entries}
        /\ Range(entries') = {entries'[j] : j \in DOMAIN entries'}
    BY RangeMembers, Zenon
  <2>1. Resident = {d.slot : d \in Range(entries)}
    BY <2>0 DEF Resident
  <2>2. Resident' = {d.slot : d \in Range(entries')}
    BY <2>0 DEF Resident
  <2> QED BY <1>3, <2>1, <2>2
<1>6. pins'[h] = e /\ \A k \in Handle : k # h => pins'[k] = pins[k]
  BY <1>0 DEF TypeOK
<1>7. refs'[s] = refs[s] + 1 /\ \A t \in Slot : t # s => refs'[t] = refs[t]
  BY <1>0, <1>2 DEF TypeOK
<1> HIDE DEF s, e
<1>8. TypeOK'
  <2>1. refs' \in [Slot -> Nat]
    BY <1>0, <1>2 DEF TypeOK, s, e
  <2>2. pins' \in [Handle -> Entry \union {None}]
    BY <1>0, <1>2 DEF TypeOK, e
  <2> QED BY <1>0, <1>3, <1>4, <2>1, <2>2 DEF TypeOK
<1>9. OnePart'
  BY <1>3, <1>4, <1>5, OnePartParts, OnePartNext DEF ArenaIInv
<1>10. Held' = Held
  BY <1>4, <1>5 DEF Held
<1>11. BytesAccounted' /\ HeldSized'
  BY <1>4, <1>10, HeldSame
<1>12. PinnedHeld'
  BY <1>2, <1>4, <1>5, <1>6 DEF ArenaIInv, PinnedHeld, e, s
<1>13. PinnedBytesIntact'
  BY <1>2, <1>4, <1>6 DEF ArenaIInv, PinnedBytesIntact, e, s
<1>14. EntriesDecoded'
  <2> SUFFICES ASSUME NEW j \in DOMAIN entries' PROVE content[entries'[j].slot] = entries'[j].id
    BY <1>4 DEF EntriesDecoded
  <2>1. PICK k \in DOMAIN entries : entries'[j] = entries[k]
    BY <1>3, RangeMembers
  <2> QED BY <2>1 DEF ArenaIInv, EntriesDecoded
<1>15. RefsCountPins'
  <2> DEFINE V(t) == {k \in Handle : pins[k] # None /\ pins[k].slot = t}
             W(t) == {k \in Handle : pins'[k] # None /\ pins'[k].slot = t}
  <2>1. \A t \in Resident \union dropped : refs[t] = Cardinality(V(t)) /\ t \in Slot
    <3>1. Resident \union dropped \subseteq Slot
      BY <1>0, HeldFinite DEF Held
    <3> QED BY <3>1 DEF ArenaIInv, RefsCountPins
  <2>2. W(s) = V(s) \union {h} /\ h \notin V(s)
    BY <1>2, <1>4, <1>6 DEF s
  <2>3. \A t \in Slot : t # s => W(t) = V(t)
    BY <1>2, <1>4, <1>6 DEF s
  <2>4. IsFiniteSet(V(s))
    BY HandleAssumption, FS_Subset
  <2>5. Cardinality(V(s) \union {h}) = Cardinality(V(s)) + 1
    BY <2>2, <2>4, FS_AddElement
  <2> HIDE DEF V, W
  <2>6. refs'[s] = Cardinality(W(s))
    BY <1>2, <1>7, <2>1, <2>2, <2>5, Zenon
  <2>7. \A t \in Resident \union dropped : refs'[t] = Cardinality(W(t))
    BY <1>7, <2>1, <2>3, <2>6, Zenon
  <2>8. \A t \in dropped : refs'[t] > 0
    <3>1. \A t \in dropped : refs[t] \in Nat /\ refs[t] > 0 /\ t \in Slot
      BY <1>0 DEF ArenaIInv, RefsCountPins, TypeOK
    <3> QED BY <1>7, <3>1
  <2> QED BY <1>4, <1>5, <2>7, <2>8 DEF RefsCountPins, W
<1> QED BY <1>8, <1>9, <1>11, <1>12, <1>13, <1>14, <1>15 DEF ArenaIInv

\* The handles that view slot t, when the handles' pins are p.
Viewers(p, t) == {k \in Handle : p[k] # None /\ p[k].slot = t}

\* A slot's reference count is the number of handles on it.
LEMMA ViewersCounted ==
  ASSUME ArenaIInv
  PROVE  /\ \A t \in Resident \union dropped : t \in Slot /\ refs[t] = Cardinality(Viewers(pins, t))
         /\ \A t \in Slot : IsFiniteSet(Viewers(pins, t)) /\ Cardinality(Viewers(pins, t)) \in Nat
<1>1. Resident \union dropped \subseteq Slot
  BY HeldFinite DEF ArenaIInv, Held
<1>2. \A t \in Resident \union dropped : refs[t] = Cardinality(Viewers(pins, t))
  BY DEF ArenaIInv, RefsCountPins, Viewers
<1>3. \A t \in Slot : IsFiniteSet(Viewers(pins, t))
  BY HandleAssumption, FS_Subset DEF Viewers
<1> QED BY <1>1, <1>2, <1>3, FS_CardinalityType

\* release: the last pin on a dropped body frees its slot, or retires it.
LEMMA ReleasePinStep ==
  ASSUME ArenaIInv, NEW h \in Handle, ReleasePin(h)
  PROVE  ArenaIInv'
<1>0. TypeOK
  BY DEF ArenaIInv
<1> DEFINE s == pins[h].slot
<1>1. /\ pins[h] # None /\ refs' = [refs EXCEPT ![s] = @ - 1]
      /\ pins' = [pins EXCEPT ![h] = None]
      /\ UNCHANGED <<entries, free, leases, content>>
  BY DEF ReleasePin
<1>2. s \in Slot /\ refs[s] \in Nat /\ refs[s] > 0 /\ s \in Resident \union dropped
  BY <1>0, <1>1, ViewedIsPinned DEF ArenaIInv, TypeOK, PinnedHeld
<1> HIDE DEF s
<1>3. pins'[h] = None /\ \A k \in Handle : k # h => pins'[k] = pins[k]
  BY <1>0, <1>1 DEF TypeOK
<1>4. refs'[s] = refs[s] - 1 /\ \A t \in Slot : t # s => refs'[t] = refs[t]
  BY <1>0, <1>1, <1>2 DEF TypeOK
<1>5. refs' \in [Slot -> Nat] /\ pins' \in [Handle -> Entry \union {None}]
  BY <1>0, <1>1, <1>2 DEF TypeOK
<1>6. Resident' = Resident
  BY <1>1 DEF Resident
<1>7. Viewers(pins', s) = Viewers(pins, s) \ {h} /\ h \in Viewers(pins, s)
  BY <1>1, <1>3 DEF Viewers, s
<1>8. \A t \in Slot : t # s => Viewers(pins', t) = Viewers(pins, t)
  BY <1>1, <1>3 DEF Viewers, s
<1>9. refs'[s] = Cardinality(Viewers(pins', s))
  <2>1. refs[s] = Cardinality(Viewers(pins, s)) /\ IsFiniteSet(Viewers(pins, s))
    BY <1>2, ViewersCounted
  <2>2. Cardinality(Viewers(pins, s) \ {h}) = Cardinality(Viewers(pins, s)) - 1
    BY <1>7, <2>1, FS_RemoveElement
  <2> QED BY <1>4, <1>7, <2>1, <2>2, Zenon
<1>10. \A t \in Resident \union dropped : refs'[t] = Cardinality(Viewers(pins', t))
  BY <1>4, <1>8, <1>9, ViewersCounted, Zenon
<1>11. PinnedBytesIntact'
  BY <1>1, <1>3 DEF ArenaIInv, PinnedBytesIntact
<1>12. EntriesDecoded'
  BY <1>1 DEF ArenaIInv, EntriesDecoded
<1>13. \A t \in dropped : t # s => refs'[t] > 0
  BY <1>0, <1>4 DEF ArenaIInv, RefsCountPins, TypeOK
<1>14. CASE Retires(s)
  <2>1. refs[s] = 1 /\ s \in dropped /\ bytes' = bytes - size[s]
        /\ size' = [size EXCEPT ![s] = 0] /\ dropped' = dropped \ {s}
    BY <1>14 DEF ReleasePin, Retires, s
  <2>2. s \notin Resident \union leases \union Range(free)
    BY <2>1 DEF ArenaIInv, OnePart
  <2>3. Held' = Held \ {s} /\ {s} \in SUBSET Held
    BY <1>1, <1>6, <2>1, <2>2 DEF Held
  <2>4. size[s] \in Nat
    BY <1>0, <1>2, HeldFinite
  <2>5. Sizes({s}) = size[s]
    BY <2>4, SizesAreSums, SumSingle
  <2>6. bytes' = bytes - Sizes({s})
    BY <2>1, <2>5
  <2>7. size' = [t \in Slot |-> IF t \in {s} THEN 0 ELSE size[t]]
    BY <1>0, <2>1 DEF TypeOK
  <2>8. /\ BytesAccounted' /\ HeldSized'
        /\ bytes' \in 0..Budget /\ size' \in [Slot -> Need \union {0}]
    BY <2>3, <2>6, <2>7, BytesRetired
  <2>9. TypeOK'
    BY <1>0, <1>1, <1>5, <2>1, <2>8 DEF TypeOK
  <2>10. OnePart'
    BY <1>1, <1>6, <2>1, OnePartParts, OnePartNext DEF ArenaIInv, Apart
  <2>11. RefsCountPins'
    BY <1>6, <1>10, <1>13, <2>1 DEF RefsCountPins, Viewers
  <2>12. PinnedHeld'
    <3>1. Viewers(pins', s) = {}
      <4>1. refs'[s] = 0
        BY <1>4, <2>1
      <4>2. IsFiniteSet(Viewers(pins', s))
        BY HandleAssumption, FS_Subset DEF Viewers
      <4> QED BY <1>9, <4>1, <4>2, FS_EmptySet
    <3>2. \A k \in Handle : pins'[k] # None => pins'[k].slot # s
      BY <3>1 DEF Viewers
    <3> QED BY <1>3, <1>6, <2>1, <3>2 DEF ArenaIInv, PinnedHeld
  <2> QED BY <1>11, <1>12, <2>8, <2>9, <2>10, <2>11, <2>12 DEF ArenaIInv
<1>15. CASE ~Retires(s)
  <2>1. UNCHANGED <<bytes, size, dropped>>
    BY <1>15 DEF ReleasePin, s
  <2>2. TypeOK'
    BY <1>0, <1>1, <1>5, <2>1 DEF TypeOK
  <2>3. OnePart'
    BY <1>1, <1>6, <2>1, OnePartParts, OnePartNext DEF ArenaIInv
  <2>4. Held' = Held
    BY <1>1, <1>6, <2>1 DEF Held
  <2>5. BytesAccounted' /\ HeldSized'
    BY <2>1, <2>4, HeldSame
  <2>6. RefsCountPins'
    <3>1. s \in dropped => refs'[s] > 0
      BY <1>2, <1>4, <1>15 DEF Retires
    <3> QED BY <1>6, <1>10, <1>13, <2>1, <3>1 DEF RefsCountPins, Viewers
  <2>7. PinnedHeld'
    BY <1>3, <1>6, <2>1 DEF ArenaIInv, PinnedHeld
  <2> QED BY <1>11, <1>12, <2>2, <2>3, <2>5, <2>6, <2>7 DEF ArenaIInv
<1> QED BY <1>14, <1>15

--------------------------------------------------------------------------------
(* Settling a lease *)

\* A flight writes into the slot it leases, which nobody reads.
LEMMA DecodeStep ==
  ASSUME ArenaIInv, NEW s \in Slot, NEW id \in Id \union {None}, Decode(s, id)
  PROVE  ArenaIInv'
<1>0. TypeOK
  BY DEF ArenaIInv
<1>1. /\ s \in leases /\ content' = [content EXCEPT ![s] = id]
      /\ UNCHANGED <<size, entries, refs, dropped, free, leases, bytes, pins>>
  BY DEF Decode
<1>2. Resident' = Resident /\ Held' = Held
  BY <1>1 DEF Resident, Held
<1>3. s \notin Resident \union dropped
  BY <1>1 DEF ArenaIInv, OnePart
<1>4. \A t \in Slot : t # s => content'[t] = content[t]
  BY <1>0, <1>1 DEF TypeOK
<1>5. TypeOK'
  BY <1>0, <1>1 DEF TypeOK
<1>6. OnePart' /\ RefsCountPins' /\ PinnedHeld'
  BY <1>1, <1>2, OnePartParts, OnePartNext DEF ArenaIInv, RefsCountPins, PinnedHeld
<1>7. BytesAccounted' /\ HeldSized'
  BY <1>1, <1>2, HeldSame
<1>8. PinnedBytesIntact'
  <2>1. \A h \in Handle : pins[h] # None => pins[h].slot \in Slot /\ pins[h].slot # s
    BY <1>3, ViewedIsPinned DEF ArenaIInv, PinnedHeld
  <2> QED BY <1>1, <1>4, <2>1 DEF ArenaIInv, PinnedBytesIntact
<1>9. EntriesDecoded'
  <2>1. \A i \in DOMAIN entries : entries[i].slot \in Slot /\ entries[i].slot # s
    BY <1>0, <1>3, EntryIn
  <2> QED BY <1>1, <1>4, <2>1 DEF ArenaIInv, EntriesDecoded
<1> QED BY <1>5, <1>6, <1>7, <1>8, <1>9 DEF ArenaIInv

\* abandon: the slot goes back unread.
LEMMA AbandonStep ==
  ASSUME ArenaIInv, NEW s \in Slot, Abandon(s)
  PROVE  ArenaIInv'
<1>0. TypeOK
  BY DEF ArenaIInv
<1>1. /\ s \in leases /\ leases' = leases \ {s} /\ free' = Append(free, s)
      /\ UNCHANGED <<size, entries, refs, dropped, bytes, content, pins>>
  BY DEF Abandon
<1>2. Resident' = Resident
  BY <1>1 DEF Resident
<1>3. s \notin Resident \union dropped \union Range(free)
  BY <1>1 DEF ArenaIInv, OnePart
<1>4. free' \in Seq(Slot) /\ Range(free') = Range(free) \union {s}
  BY <1>0, <1>1, AppendFacts DEF TypeOK
<1>5. Distinct(free')
  BY <1>0, <1>1, <1>3, AppendDistinct, OnePartParts DEF ArenaIInv, TypeOK
<1>6. Held' = Held
  BY <1>1, <1>2, <1>4 DEF Held
<1>7. TypeOK'
  BY <1>0, <1>1, <1>4 DEF TypeOK
<1>8. OnePart'
  BY <1>1, <1>2, <1>3, <1>4, <1>5, OnePartParts, OnePartNext DEF ArenaIInv, Apart
<1>9. BytesAccounted' /\ HeldSized'
  BY <1>1, <1>6, HeldSame
<1>10. RefsCountPins' /\ PinnedHeld' /\ PinnedBytesIntact' /\ EntriesDecoded'
  BY <1>1, <1>2 DEF ArenaIInv, RefsCountPins, PinnedHeld, PinnedBytesIntact, EntriesDecoded
<1> QED BY <1>7, <1>8, <1>9, <1>10 DEF ArenaIInv

--------------------------------------------------------------------------------
(* Checking a slot out *)

\* Slots are leased and given up only where nobody reads them, so what the
\* readers hold is decided by the entries kept.
EntriesHeld == PinnedHeld /\ RefsCountPins

\* Only the bytes of one slot may change: a checkout alone leaves them, the
\* coordinator decodes into the slot in the same stretch.
Writes(s) ==
  content' \in [Slot -> Id \union {None}] /\ \A t \in Slot : t # s => content'[t] = content[t]

\* A step that leaves the entry map alone keeps what is known of it.
LEMMA EntriesStay ==
  ASSUME ArenaIInv, UNCHANGED <<entries, refs, dropped, pins>>
  PROVE  /\ entries' \in Seq(Entry) /\ SlotsDistinct(entries') /\ Resident' = Resident
         /\ Range(entries') \subseteq Range(entries) /\ EntriesHeld'
<1>1. Resident' = Resident
  BY DEF Resident
<1>2. entries' \in Seq(Entry) /\ SlotsDistinct(entries') /\ Range(entries') \subseteq Range(entries)
  BY OnePartParts DEF ArenaIInv, TypeOK
<1>3. EntriesHeld'
  BY <1>1 DEF ArenaIInv, EntriesHeld, PinnedHeld, RefsCountPins
<1> QED BY <1>1, <1>2, <1>3

\* A slot that nothing else refers to may be leased and written.
LEMMA LeaseKeeps ==
  ASSUME ArenaIInv, NEW s \in Slot, leases' = leases \union {s},
         UNCHANGED <<refs, dropped, pins>>, Writes(s),
         free' \in Seq(Slot), Distinct(free'), Range(free') \subseteq Range(free) \ {s},
         entries' \in Seq(Entry), SlotsDistinct(entries'), Range(entries') \subseteq Range(entries),
         Resident' \subseteq Resident \ {s}, s \notin dropped, EntriesHeld', BytesAccounted', HeldSized',
         bytes' \in 0..Budget, size' \in [Slot -> Need \union {0}]
  PROVE  ArenaIInv'
<1>1. TypeOK'
  BY DEF ArenaIInv, TypeOK, Writes
<1>2. Apart(Resident, Range(free), leases, dropped)
  BY OnePartParts DEF ArenaIInv
<1>3. Apart(Resident', Range(free'), leases', dropped')
  BY <1>2 DEF Apart
<1>4. OnePart'
  BY <1>3, OnePartNext
<1>5. \A t \in Resident' \union dropped' : content'[t] = content[t]
  <2>1. \A t \in Resident' \union dropped' : t \in Slot /\ t # s
    BY HeldFinite DEF ArenaIInv, Held
  <2> QED BY <2>1 DEF Writes
<1>6. EntriesDecoded' /\ PinnedBytesIntact'
  BY <1>5, ShownStill DEF EntriesHeld
<1> QED BY <1>1, <1>4, <1>6 DEF ArenaIInv, EntriesHeld

\* The top of the stack is popped down to and including the i-th slot.
LEMMA PopFacts ==
  ASSUME NEW q \in Seq(Slot), NEW i \in DOMAIN q, Distinct(q)
  PROVE  LET below  == SubSeq(q, 1, i - 1)
             popped == {q[j] : j \in (i + 1)..Len(q)}
         IN  /\ below \in Seq(Slot) /\ Distinct(below)
             /\ Range(below) = Range(q) \ (popped \union {q[i]})
             /\ popped \subseteq Range(q) /\ q[i] \in Range(q) /\ q[i] \notin popped
<1> DEFINE n == Len(q)
           below == SubSeq(q, 1, i - 1)
           popped == {q[j] : j \in (i + 1)..n}
<1>1. n \in Nat /\ DOMAIN q = 1..n /\ i \in 1..n
  OBVIOUS
<1>2. /\ below \in Seq(Slot) /\ DOMAIN below = 1..(i - 1)
      /\ \A j \in 1..(i - 1) : below[j] = q[j]
  OBVIOUS
<1> HIDE DEF n, below
<1>3. \A j \in 1..n : \/ j \in 1..(i - 1) \/ j = i \/ j \in (i + 1)..n
  BY <1>1
<1>4. /\ \A j \in 1..(i - 1) : j \in 1..n /\ j # i /\ j \notin (i + 1)..n
      /\ \A j \in (i + 1)..n : j \in 1..n /\ j # i
  BY <1>1
<1>5. \A j, k \in 1..n : q[j] = q[k] => j = k
  BY <1>1 DEF Distinct
<1>6. Range(q) = {q[j] : j \in 1..n}
  BY <1>1, RangeMembers, Zenon
<1>7. Range(below) = {q[j] : j \in 1..(i - 1)}
  BY <1>2, RangeMembers
<1>8. Distinct(below)
  BY <1>2, <1>4, <1>5 DEF Distinct
<1>9. popped \subseteq Range(q) /\ q[i] \in Range(q)
  BY <1>1, <1>4, <1>6
<1>10. q[i] \notin popped
  BY <1>1, <1>4, <1>5
<1>11. ASSUME NEW t \in Range(below) PROVE t \in Range(q) \ (popped \union {q[i]})
  <2>1. PICK j \in 1..(i - 1) : t = q[j]
    BY <1>7
  <2>2. t # q[i] /\ t \in Range(q)
    BY <1>1, <1>4, <1>5, <1>6, <2>1
  <2>3. t \notin popped
    BY <1>4, <1>5, <2>1
  <2> QED BY <2>2, <2>3
<1>12. ASSUME NEW t \in Range(q) \ (popped \union {q[i]}) PROVE t \in Range(below)
  <2>1. PICK j \in 1..n : t = q[j]
    BY <1>6
  <2>2. j \in 1..(i - 1)
    BY <1>3, <2>1
  <2> QED BY <1>7, <2>1, <2>2
<1>13. Range(below) = Range(q) \ (popped \union {q[i]})
  BY <1>11, <1>12, Zenon
<1> QED BY <1>2, <1>8, <1>9, <1>10, <1>13 DEF below, n

\* checkout takes a free slot that fits.
LEMMA CheckoutFreeStep ==
  ASSUME ArenaIInv, NEW need \in Need, NEW s \in Slot, CheckoutFree(need, s), leases' = leases \union {s},
         UNCHANGED <<refs, dropped, pins>>, Writes(s)
  PROVE  ArenaIInv'
<1>0. free \in Seq(Slot) /\ Distinct(free) /\ Apart(Resident, Range(free), leases, dropped)
  BY OnePartParts DEF ArenaIInv, TypeOK
<1>1. PICK i \in FreeFit(need) :
        /\ s = free[i]
        /\ LET popped == {free[j] : j \in (i + 1)..Len(free)} IN
             /\ bytes' = bytes - Sizes(popped)
             /\ size' = [t \in Slot |-> IF t \in popped THEN 0 ELSE size[t]]
        /\ free' = SubSeq(free, 1, i - 1)
  BY DEF CheckoutFree
<1>2. entries' = entries
  BY DEF CheckoutFree
<1> DEFINE R == {free[j] : j \in (i + 1)..Len(free)}
<1>3. i \in DOMAIN free
  BY DEF FreeFit
<1>4. /\ free' \in Seq(Slot) /\ Distinct(free')
      /\ Range(free') = Range(free) \ (R \union {s})
      /\ R \subseteq Range(free) /\ s \in Range(free) /\ s \notin R
  BY <1>0, <1>1, <1>3, PopFacts
<1>5. bytes' = bytes - Sizes(R) /\ size' = [t \in Slot |-> IF t \in R THEN 0 ELSE size[t]]
  BY <1>1
<1> HIDE DEF R
<1>6. /\ entries' \in Seq(Entry) /\ SlotsDistinct(entries') /\ Resident' = Resident
      /\ Range(entries') \subseteq Range(entries) /\ EntriesHeld'
  BY <1>2, EntriesStay
<1>7. s \notin leases \union Resident \union dropped
  BY <1>0, <1>4 DEF Apart
<1>8. R \in SUBSET Held /\ Held' = Held \ R
  <2>1. R \intersect (leases \union Resident \union dropped) = {}
    BY <1>0, <1>4 DEF Apart
  <2>2. dropped' = dropped
    OBVIOUS
  <2> QED BY <1>4, <1>6, <2>1, <2>2 DEF Held
<1>9. /\ BytesAccounted' /\ HeldSized'
      /\ bytes' \in 0..Budget /\ size' \in [Slot -> Need \union {0}]
  BY <1>5, <1>8, BytesRetired
<1> QED BY <1>4, <1>6, <1>7, <1>9, LeaseKeeps

\* checkout allocates while the budget has room.
LEMMA CheckoutFreshStep ==
  ASSUME ArenaIInv, NEW need \in Need, NEW s \in Slot, CheckoutFresh(need, s), leases' = leases \union {s},
         UNCHANGED <<refs, dropped, pins>>, Writes(s)
  PROVE  ArenaIInv'
<1>0. Apart(Resident, Range(free), leases, dropped)
  BY OnePartParts DEF ArenaIInv
<1>1. /\ bytes - Sizes(Range(free)) + need <= Budget
      /\ Fresh(need, s, Range(free)) /\ free' = <<>> /\ entries' = entries
  BY DEF CheckoutFresh, RoomFor, BytesNoFree
<1>2. /\ entries' \in Seq(Entry) /\ SlotsDistinct(entries') /\ Resident' = Resident
      /\ Range(entries') \subseteq Range(entries) /\ EntriesHeld'
  BY <1>1, EntriesStay
<1>3. free' \in Seq(Slot) /\ Distinct(free') /\ Range(free') = {}
  BY <1>1, RangeMembers DEF Distinct
<1>4. Range(free) \in SUBSET Held /\ Held' = (Held \ Range(free)) \union {s}
  BY <1>0, <1>2, <1>3 DEF Held, Apart
<1>5. /\ BytesAccounted' /\ HeldSized' /\ s \notin Held
      /\ bytes' \in 0..Budget /\ size' \in [Slot -> Need \union {0}]
  BY <1>1, <1>4, BytesFresh
<1>6. s \notin Resident /\ s \notin dropped
  BY <1>5 DEF Held
<1> QED BY <1>2, <1>3, <1>5, <1>6, LeaseKeeps

\* What eviction gives up is unpinned.
LEMMA EvictedFacts ==
  ASSUME ArenaIInv, NEW i \in Evictable
  PROVE  /\ EvictedUpTo(i) \subseteq Resident /\ \A s \in EvictedUpTo(i) : refs[s] = 0
         /\ entries[i].slot \in EvictedUpTo(i)
<1>1. i \in DOMAIN entries /\ i \in Nat /\ i <= i
  BY DEF Evictable, ArenaIInv, TypeOK
<1>2. \A j \in Evictable : j \in DOMAIN entries /\ refs[entries[j].slot] = 0 /\ entries[j].slot \in Resident
  BY EvictableSlots, EntryIn DEF Evictable, ArenaIInv
<1> QED BY <1>1, <1>2 DEF EvictedUpTo

\* checkout evicts unpinned entries, oldest first, and allocates.
LEMMA CheckoutEvictStep ==
  ASSUME ArenaIInv, NEW need \in Need, NEW s \in Slot, CheckoutEvict(need, s), leases' = leases \union {s},
         UNCHANGED <<refs, dropped, pins>>, Writes(s)
  PROVE  ArenaIInv'
<1>0. Apart(Resident, Range(free), leases, dropped) /\ TypeOK
  BY OnePartParts DEF ArenaIInv
<1>1. PICK i \in Evictable :
       /\ EvictionStops(i, need)
       /\ entries' = Without(EvictedUpTo(i))
       /\ IF size[entries[i].slot] >= need
            THEN LET retired == (Range(free) \union EvictedUpTo(i)) \ {s} IN
                 /\ s = entries[i].slot
                 /\ bytes' = bytes - Sizes(retired)
                 /\ size' = [t \in Slot |-> IF t \in retired THEN 0 ELSE size[t]]
            ELSE Fresh(need, s, Range(free) \union EvictedUpTo(i))
  BY DEF CheckoutEvict
<1> DEFINE E == EvictedUpTo(i)
           R == Range(free) \union E
<1>2. E \subseteq Resident /\ (\A t \in E : refs[t] = 0) /\ entries[i].slot \in E
  BY EvictedFacts
<1>3. free' = <<>>
  BY DEF CheckoutEvict
<1>4. free' \in Seq(Slot) /\ Distinct(free') /\ Range(free') = {}
  BY <1>3, RangeMembers DEF Distinct
<1> HIDE DEF E
<1>5. entries' = Without(E)
  BY <1>1 DEF E
<1>6. /\ entries' \in Seq(Entry) /\ SlotsDistinct(entries') /\ Resident' = Resident \ E
      /\ Range(entries') \subseteq Range(entries) /\ EntriesHeld'
  BY <1>2, <1>5, Evicting DEF EntriesHeld
<1>7. R \in SUBSET Held
  BY <1>2 DEF Held
<1>8. Held' = (leases \union {s}) \union (Resident \ E) \union dropped
  BY <1>4, <1>6 DEF Held
<1>9. CASE size[entries[i].slot] >= need
  <2>1. /\ s = entries[i].slot /\ bytes' = bytes - Sizes(R \ {s})
        /\ size' = [t \in Slot |-> IF t \in R \ {s} THEN 0 ELSE size[t]]
    BY <1>1, <1>9 DEF E
  <2>2. s \in E /\ s \notin dropped
    BY <1>0, <1>2, <2>1 DEF Apart
  <2>3. Held' = Held \ (R \ {s}) /\ R \ {s} \in SUBSET Held
    BY <1>0, <1>2, <1>7, <1>8, <2>2 DEF Held, Apart
  <2> HIDE DEF R
  <2>4. /\ BytesAccounted' /\ HeldSized'
        /\ bytes' \in 0..Budget /\ size' \in [Slot -> Need \union {0}]
    BY <2>1, <2>3, BytesRetired
  <2>5. Resident' \subseteq Resident \ {s}
    BY <1>6, <2>2
  <2>6. Range(free') \subseteq Range(free) \ {s}
    BY <1>4
  <2> QED BY <1>4, <1>6, <2>2, <2>4, <2>5, <2>6, LeaseKeeps
<1>10. CASE ~(size[entries[i].slot] >= need)
  <2>1. Fresh(need, s, R)
    BY <1>1, <1>10 DEF E
  <2>2. BytesNoFree - Sizes(E) + need <= Budget
    BY <1>1, <1>10 DEF EvictionStops, Suffices, E
  <2>3. Sizes(R) = Sizes(Range(free)) + Sizes(E)
    <3>1. /\ IsFiniteSet(Range(free)) /\ IsFiniteSet(E) /\ \A x \in R : size[x] \in Nat
          /\ Range(free) \intersect E = {}
      <4>1. Held \subseteq Slot /\ IsFiniteSet(Held) /\ \A t \in Slot : size[t] \in Nat
        BY <1>0, HeldFinite
      <4>2. Range(free) \subseteq Held /\ E \subseteq Held
        BY <1>7
      <4> QED BY <1>0, <1>2, <4>1, <4>2, FS_Subset DEF Apart
    <3> QED BY <3>1, SumUnion, SizesAreSums
  <2>4. bytes - Sizes(R) + need <= Budget
    <3>1. /\ IsFiniteSet(Range(free)) /\ IsFiniteSet(E)
          /\ (\A x \in Range(free) : size[x] \in Nat) /\ (\A x \in E : size[x] \in Nat)
      <4>1. Held \subseteq Slot /\ IsFiniteSet(Held) /\ \A t \in Slot : size[t] \in Nat
        BY <1>0, HeldFinite
      <4>2. Range(free) \subseteq Held /\ E \subseteq Held
        BY <1>7
      <4> QED BY <4>1, <4>2, FS_Subset
    <3>2. Sizes(Range(free)) \in Nat /\ Sizes(E) \in Nat
      BY <3>1, SumType, SizesAreSums
    <3>3. bytes \in Int /\ need \in Int /\ Budget \in Int
      BY <1>0, NeedNat DEF TypeOK
    <3> QED BY <2>2, <2>3, <3>2, <3>3 DEF BytesNoFree
  <2>5. Held' = (Held \ R) \union {s}
    BY <1>0, <1>2, <1>8 DEF Held, Apart
  <2> HIDE DEF R
  <2>6. /\ BytesAccounted' /\ HeldSized' /\ s \notin Held
        /\ bytes' \in 0..Budget /\ size' \in [Slot -> Need \union {0}]
    BY <1>7, <2>1, <2>4, <2>5, BytesFresh
  <2>7. s \notin Resident /\ s \notin dropped
    BY <2>6 DEF Held
  <2>8. Resident' \subseteq Resident \ {s} /\ Range(free') \subseteq Range(free) \ {s}
    BY <1>4, <1>6, <2>7
  <2> QED BY <1>4, <1>6, <2>6, <2>7, <2>8, LeaseKeeps
<1> QED BY <1>9, <1>10

\* The three ways to check a slot out, and to decode into it at once.
LEMMA LeaseStep ==
  ASSUME ArenaIInv, NEW need \in Need, NEW s \in Slot, Lease(need, s), Writes(s)
  PROVE  ArenaIInv'
BY CheckoutFreeStep, CheckoutFreshStep, CheckoutEvictStep DEF Lease

\* A checkout alone.
LEMMA CheckoutStep ==
  ASSUME ArenaIInv, NEW need \in Need, NEW s \in Slot, Checkout(need, s)
  PROVE  ArenaIInv'
<1>1. Lease(need, s) /\ content' = content
  BY DEF Checkout
<1>2. Writes(s)
  BY <1>1 DEF ArenaIInv, TypeOK, Writes
<1> QED BY <1>1, <1>2, LeaseStep

\* A checkout that finds nothing retires what it evicted.
LEMMA CheckoutFailsStep ==
  ASSUME ArenaIInv, NEW need \in Need, CheckoutFails(need)
  PROVE  ArenaIInv'
<1>0. Apart(Resident, Range(free), leases, dropped) /\ TypeOK
  BY OnePartParts DEF ArenaIInv
<1> DEFINE R == Range(free) \union {entries[i].slot : i \in Evictable}
<1>1. /\ bytes' = bytes - Sizes(R)
      /\ size' = [t \in Slot |-> IF t \in R THEN 0 ELSE size[t]]
      /\ entries' = Without(R)
      /\ free' = <<>> /\ UNCHANGED <<refs, dropped, leases, content, pins>>
  BY DEF CheckoutFails
<1>2. \A t \in R \intersect Resident : refs[t] = 0
  <2>1. \A i \in Evictable : i \in DOMAIN entries /\ refs[entries[i].slot] = 0
    BY EvictableSlots DEF Evictable
  <2> QED BY <1>0, <2>1 DEF Apart
<1>3. R \subseteq Range(free) \union Resident /\ Range(free) \subseteq R
  BY DEF Evictable, Resident
<1> HIDE DEF R
<1>4. /\ entries' \in Seq(Entry) /\ SlotsDistinct(entries') /\ Resident' = Resident \ R
      /\ Range(entries') \subseteq Range(entries) /\ EntriesHeld'
  BY <1>1, <1>2, Evicting DEF EntriesHeld
<1>5. free' \in Seq(Slot) /\ Distinct(free') /\ Range(free') = {}
  BY <1>1, RangeMembers DEF Distinct
<1>6. R \in SUBSET Held /\ Held' = Held \ R
  BY <1>0, <1>1, <1>3, <1>4, <1>5 DEF Held, Apart
<1>7. /\ BytesAccounted' /\ HeldSized'
      /\ bytes' \in 0..Budget /\ size' \in [Slot -> Need \union {0}]
  BY <1>1, <1>6, BytesRetired
<1>8. TypeOK'
  BY <1>0, <1>1, <1>4, <1>5, <1>7 DEF TypeOK
<1>9. OnePart'
  BY <1>0, <1>1, <1>4, <1>5, OnePartNext DEF Apart
<1>10. EntriesDecoded' /\ PinnedBytesIntact'
  BY <1>1, <1>4, ShownStill DEF EntriesHeld
<1> QED BY <1>4, <1>7, <1>8, <1>9, <1>10 DEF ArenaIInv, EntriesHeld

\* clear: pinned bodies are dropped, the rest is freed.
LEMMA ClearStep ==
  ASSUME ArenaIInv, Clear
  PROVE  ArenaIInv'
<1>0. Apart(Resident, Range(free), leases, dropped) /\ TypeOK
  BY OnePartParts DEF ArenaIInv
<1> DEFINE R == ClearedSlots
           P == {entries[i].slot : i \in Pinned}
<1>1. /\ bytes' = bytes - Sizes(R)
      /\ size' = [t \in Slot |-> IF t \in R THEN 0 ELSE size[t]]
      /\ dropped' = dropped \union P
      /\ entries' = <<>> /\ free' = <<>> /\ UNCHANGED <<refs, leases, content, pins>>
  BY DEF Clear
<1>2. P \subseteq Resident /\ \A t \in P : refs[t] > 0
  BY DEF Pinned, Resident
<1>3. R = Range(free) \union (Resident \ P)
  <2>1. {entries[i].slot : i \in Evictable} = Resident \ P
    <3>1. \A i, j \in DOMAIN entries : entries[i].slot = entries[j].slot => i = j
      BY DEF ArenaIInv, OnePart
    <3> QED BY <3>1 DEF Evictable, Pinned, Resident
  <2> QED BY <2>1 DEF ClearedSlots
<1> HIDE DEF R, P
<1>4. entries' \in Seq(Entry) /\ SlotsDistinct(entries') /\ Resident' = {}
  BY <1>1 DEF SlotsDistinct, Resident
<1>5. free' \in Seq(Slot) /\ Distinct(free') /\ Range(free') = {}
  BY <1>1, RangeMembers DEF Distinct
<1>6. R \in SUBSET Held /\ Held' = Held \ R
  BY <1>0, <1>1, <1>2, <1>3, <1>4, <1>5 DEF Held, Apart
<1>7. /\ BytesAccounted' /\ HeldSized'
      /\ bytes' \in 0..Budget /\ size' \in [Slot -> Need \union {0}]
  BY <1>1, <1>6, BytesRetired
<1>8. TypeOK'
  <2>1. P \subseteq Slot
    BY <1>0, <1>2, HeldFinite DEF Held
  <2> QED BY <1>0, <1>1, <1>4, <1>5, <1>7, <2>1 DEF TypeOK
<1>9. OnePart'
  BY <1>0, <1>1, <1>2, <1>4, <1>5, OnePartNext DEF Apart
<1>10. PinnedHeld'
  <2> SUFFICES ASSUME NEW h \in Handle, pins[h] # None PROVE pins[h].slot \in dropped \union P
    BY <1>1 DEF PinnedHeld
  <2>1. pins[h].slot \in Resident \union dropped /\ refs[pins[h].slot] > 0
    BY ViewedIsPinned DEF ArenaIInv, PinnedHeld
  <2>2. \A t \in Resident : t \in P \/ refs[t] = 0
    BY <1>0, EvictableSlots DEF Resident, P, Evictable
  <2>3. ~(0 > 0)
    OBVIOUS
  <2> QED BY <2>1, <2>2, <2>3
<1>11. RefsCountPins'
  BY <1>1, <1>2, <1>4 DEF ArenaIInv, RefsCountPins
<1>12. PinnedBytesIntact' /\ EntriesDecoded'
  BY <1>1 DEF ArenaIInv, PinnedBytesIntact, EntriesDecoded
<1> QED BY <1>7, <1>8, <1>9, <1>10, <1>11, <1>12 DEF ArenaIInv

--------------------------------------------------------------------------------
(* Settling a lease: commit *)

\* A new entry at the end, in a slot no entry has.
LEMMA AppendEntry ==
  ASSUME NEW q \in Seq(Entry), NEW e \in Entry, SlotsDistinct(q), \A d \in Range(q) : d.slot # e.slot
  PROVE  SlotsDistinct(Append(q, e))
<1>1. /\ DOMAIN Append(q, e) = 1..(Len(q) + 1) /\ DOMAIN q = 1..Len(q) /\ Len(q) \in Nat
      /\ \A i \in 1..Len(q) : Append(q, e)[i] = q[i]
      /\ Append(q, e)[Len(q) + 1] = e
  BY AppendFacts
<1>2. \A i \in 1..Len(q) : q[i].slot # e.slot
  BY <1>1, RangeMembers
<1>3. \A i \in 1..(Len(q) + 1) : i = Len(q) + 1 \/ i \in 1..Len(q)
  BY <1>1
<1>4. ASSUME NEW i \in 1..(Len(q) + 1), NEW j \in 1..(Len(q) + 1),
             Append(q, e)[i].slot = Append(q, e)[j].slot
      PROVE  i = j
  BY <1>1, <1>2, <1>3, <1>4, Zenon DEF SlotsDistinct
<1> QED BY <1>1, <1>4, Zenon DEF SlotsDistinct

\* commit: the body becomes the entry, with one pin per waiter.
LEMMA CommitStep ==
  ASSUME ArenaIInv, NEW s \in Slot, NEW id \in Id, NEW H \in SUBSET Handle, Commit(s, id, H)
  PROVE  ArenaIInv'
<1>0. /\ TypeOK /\ Apart(Resident, Range(free), leases, dropped)
      /\ SlotsDistinct(entries) /\ Distinct(free)
  BY OnePartParts DEF ArenaIInv
<1> DEFINE old == {entries[i].slot : i \in Cached(id)}
           e == [id |-> id, slot |-> s]
           F == {t \in old : refs[t] = 0}
           P == {t \in old : refs[t] > 0}
<1>1. /\ s \in leases /\ content[s] = id /\ \A h \in H : pins[h] = None
      /\ entries' = Append(Without(old), e)
      /\ free' = free \o SetToSeq(F)
      /\ dropped' = dropped \union P
      /\ leases' = leases \ {s}
      /\ refs' = [refs EXCEPT ![s] = Cardinality(H)]
      /\ pins' = [h \in Handle |-> IF h \in H THEN e ELSE pins[h]]
      /\ UNCHANGED <<size, bytes, content>>
  BY DEF Commit, ReplacedFree, ReplacedDropped, PinCount
<1>2. e \in Entry /\ e.slot = s /\ e.id = id /\ e # None
  BY NoneAssumption DEF Entry
<1>3. old \subseteq Resident /\ F \union P = old /\ F \intersect P = {}
  <2>1. old \subseteq Resident
    BY DEF Cached, Resident
  <2>2. \A t \in old : refs[t] \in Nat
    BY <1>0, <2>1, HeldFinite DEF Held, TypeOK
  <2> QED BY <2>1, <2>2
<1>4. s \notin Resident \union dropped \union Range(free)
  BY <1>0, <1>1 DEF Apart
<1> HIDE DEF old, e, F, P
<1>5. /\ Without(old) \in Seq(Entry)
      /\ Range(Without(old)) = {d \in Range(entries) : d.slot \notin old}
      /\ SlotsDistinct(Without(old))
  BY <1>0, WithoutFacts DEF TypeOK
<1>6. Resident = {d.slot : d \in Range(entries)} /\ Resident' = {d.slot : d \in Range(entries')}
  BY RangeMembers DEF Resident
<1>7. entries' \in Seq(Entry) /\ Range(entries') = Range(Without(old)) \union {e}
  BY <1>1, <1>2, <1>5, AppendFacts
<1>8. SlotsDistinct(entries')
  <2>1. \A d \in Range(Without(old)) : d.slot # e.slot
    BY <1>2, <1>4, <1>5, <1>6
  <2> QED BY <1>1, <1>2, <1>5, <2>1, AppendEntry
<1>9. Resident' = (Resident \ old) \union {s}
  BY <1>2, <1>5, <1>6, <1>7
<1>10. IsFiniteSet(F) /\ F \subseteq Slot
  <2>1. F \subseteq Held
    BY <1>3 DEF Held
  <2> QED BY <1>0, <2>1, HeldFinite, FS_Subset
<1>11. free' \in Seq(Slot) /\ Range(free') = Range(free) \union F /\ Distinct(free')
  <2>1. SetToSeq(F) \in Seq(F) /\ Range(SetToSeq(F)) = F /\ Distinct(SetToSeq(F))
    BY <1>10, SetToSeqFacts
  <2>2. SetToSeq(F) \in Seq(Slot)
    BY <1>10, <2>1
  <2>3. Range(free) \intersect F = {}
    BY <1>0, <1>3 DEF Apart
  <2> QED BY <1>0, <1>1, <2>1, <2>2, <2>3, ConcatFacts DEF TypeOK
<1>12. Held' = Held
  BY <1>1, <1>3, <1>9, <1>11 DEF Held
<1>13. BytesAccounted' /\ HeldSized'
  BY <1>1, <1>12, HeldSame
<1>14. OnePart'
  BY <1>0, <1>1, <1>3, <1>4, <1>8, <1>9, <1>11, OnePartNext DEF Apart
<1>15. IsFiniteSet(H) /\ Cardinality(H) \in Nat
  BY HandleAssumption, FS_Subset, FS_CardinalityType
<1>16. TypeOK'
  <2>1. P \subseteq Slot
    BY <1>0, <1>3, HeldFinite DEF Held
  <2>2. refs' \in [Slot -> Nat]
    BY <1>0, <1>1, <1>15 DEF TypeOK
  <2>3. pins' \in [Handle -> Entry \union {None}]
    BY <1>0, <1>1, <1>2 DEF TypeOK
  <2> QED BY <1>0, <1>1, <1>7, <1>11, <2>1, <2>2, <2>3 DEF TypeOK
<1>17. EntriesDecoded'
  <2> SUFFICES ASSUME NEW d \in Range(entries') PROVE content[d.slot] = d.id
    BY <1>1, RangeMembers DEF EntriesDecoded
  <2>1. CASE d = e
    BY <1>1, <1>2, <2>1
  <2>2. CASE d \in Range(entries)
    BY <2>2, RangeMembers DEF ArenaIInv, EntriesDecoded
  <2> QED BY <1>5, <1>7, <2>1, <2>2
<1>18. \A h \in Handle : h \notin H => pins'[h] = pins[h]
  BY <1>1
<1>19. \A h \in H : pins'[h] = e
  BY <1>1
<1>20. PinnedBytesIntact'
  BY <1>1, <1>2, <1>18, <1>19 DEF ArenaIInv, PinnedBytesIntact
<1>21. PinnedHeld'
  <2> SUFFICES ASSUME NEW h \in Handle, pins'[h] # None PROVE pins'[h].slot \in Resident' \union dropped'
    BY DEF PinnedHeld
  <2>1. CASE h \in H
    BY <1>2, <1>9, <1>19, <2>1
  <2>2. CASE h \notin H
    <3>1. pins'[h] = pins[h] /\ pins[h] # None
      BY <1>18, <2>2
    <3>2. refs[pins[h].slot] > 0 /\ pins[h].slot \in Resident \union dropped
      BY <3>1, ViewedIsPinned DEF ArenaIInv, PinnedHeld
    <3>3. pins[h].slot \in old => pins[h].slot \in P
      BY <3>2 DEF P
    <3> QED BY <1>1, <1>9, <3>1, <3>2, <3>3
  <2> QED BY <2>1, <2>2
<1>22. RefsCountPins'
  <2>1. Viewers(pins', s) = H
    <3>1. \A h \in Handle : pins[h] # None => pins[h].slot # s
      BY <1>4 DEF ArenaIInv, PinnedHeld
    <3> QED BY <1>2, <1>18, <1>19, <3>1 DEF Viewers
  <2>2. refs'[s] = Cardinality(H) /\ \A t \in Slot : t # s => refs'[t] = refs[t]
    BY <1>0, <1>1 DEF TypeOK
  <2>3. \A t \in Slot : t # s => Viewers(pins', t) = Viewers(pins, t)
    BY <1>1, <1>2, <1>18, <1>19 DEF Viewers
  <2>4. \A t \in Resident \union dropped : t \in Slot /\ t # s /\ refs[t] = Cardinality(Viewers(pins, t))
    BY <1>4, ViewersCounted
  <2>5. \A t \in Resident \union dropped : refs'[t] = Cardinality(Viewers(pins', t))
    BY <2>2, <2>3, <2>4, Zenon
  <2>6. refs'[s] = Cardinality(Viewers(pins', s))
    BY <2>1, <2>2, Zenon
  <2>7. \A t \in dropped' : t \in Slot /\ t # s /\ refs[t] > 0
    <3>1. \A t \in dropped : refs[t] > 0
      BY DEF ArenaIInv, RefsCountPins
    <3>2. P \subseteq Resident /\ \A t \in P : refs[t] > 0
      BY <1>3 DEF P
    <3> QED BY <1>1, <2>4, <3>1, <3>2
  <2>8. \A t \in dropped' : refs'[t] > 0
    BY <2>2, <2>7, Zenon
  <2>9. Resident' \union dropped' \subseteq Resident \union dropped \union {s}
    BY <1>1, <1>3, <1>9
  <2>10. \A t \in Resident' \union dropped' : refs'[t] = Cardinality(Viewers(pins', t))
    BY <2>5, <2>6, <2>9, Zenon
  <2> QED BY <2>8, <2>10 DEF RefsCountPins, Viewers
<1> QED BY <1>13, <1>14, <1>16, <1>17, <1>20, <1>21, <1>22 DEF ArenaIInv

--------------------------------------------------------------------------------
(* The theorems *)

\* An empty arena.
LEMMA ArenaInitInv == Init => ArenaIInv
<1> SUFFICES ASSUME Init PROVE ArenaIInv
  OBVIOUS
<1>1. Range(free) = {} /\ Resident = {} /\ Held = {}
  BY RangeMembers DEF Init, Resident, Held
<1>2. TypeOK
  BY NeedNat DEF Init, TypeOK
<1>3. OnePart /\ RefsCountPins /\ PinnedBytesIntact /\ PinnedHeld /\ EntriesDecoded /\ HeldSized
  BY <1>1 DEF Init, OnePart, RefsCountPins, PinnedBytesIntact, PinnedHeld, EntriesDecoded, HeldSized
<1>4. BytesAccounted
  <2>1. Sizes(Held) = SumOf(size, {})
    BY <1>1, SizesAreSums, Zenon
  <2>2. bytes = 0 /\ Sizes(Held) = 0
    BY <2>1, SumEmpty DEF Init
  <2> QED BY <2>2 DEF BytesAccounted, Held
<1> QED BY <1>2, <1>3, <1>4 DEF ArenaIInv

\* Every method keeps the inductive invariant.
LEMMA ArenaNextInv == ArenaIInv /\ [Next]_vars => ArenaIInv'
<1> SUFFICES ASSUME ArenaIInv, [Next]_vars PROVE ArenaIInv'
  OBVIOUS
<1>1. ASSUME NEW id \in Id, NEW h \in Handle, Acquire(id, h) PROVE ArenaIInv'
  BY <1>1, AcquireStep
<1>2. ASSUME NEW h \in Handle, ReleasePin(h) PROVE ArenaIInv'
  BY <1>2, ReleasePinStep
<1>3. ASSUME NEW need \in Need, NEW s \in Slot, Checkout(need, s) PROVE ArenaIInv'
  BY <1>3, CheckoutStep
<1>4. ASSUME NEW need \in Need, CheckoutFails(need) PROVE ArenaIInv'
  BY <1>4, CheckoutFailsStep
<1>5. ASSUME NEW s \in Slot, NEW id \in Id, Decode(s, id) PROVE ArenaIInv'
  BY <1>5, DecodeStep
<1>6. ASSUME NEW s \in Slot, Abandon(s) PROVE ArenaIInv'
  BY <1>6, AbandonStep
<1>7. ASSUME NEW s \in Slot, NEW id \in Id, NEW H \in SUBSET Handle, Commit(s, id, H) PROVE ArenaIInv'
  BY <1>7, CommitStep
<1>8. CASE Clear
  BY <1>8, ClearStep
<1>9. CASE UNCHANGED vars
  <2>1. UNCHANGED <<size, entries, refs, dropped, free, leases, bytes, content, pins>>
    BY <1>9 DEF vars
  <2>2. Resident' = Resident /\ Held' = Held
    BY <2>1 DEF Resident, Held
  <2>3. BytesAccounted' /\ HeldSized'
    BY <2>1, <2>2, HeldSame
  <2>4. OnePart'
    BY <2>1, <2>2, OnePartParts, OnePartNext DEF ArenaIInv
  <2> QED BY <2>1, <2>2, <2>3, <2>4
          DEF ArenaIInv, TypeOK, RefsCountPins, PinnedBytesIntact, PinnedHeld, EntriesDecoded
<1> QED BY <1>1, <1>2, <1>3, <1>4, <1>5, <1>6, <1>7, <1>8, <1>9 DEF Next

\* The arena's methods, in any order: the state each relies on is there.
THEOREM ArenaInvariance == Spec => []ArenaIInv
BY ArenaInitInv, ArenaNextInv, PTL DEF Spec

\* Each slot plays one part at a time and refs counts the readers of what is
\* cached or dropped, whatever the segments, slots, handles and budget
\* (segment-arena.ts, acquire, checkout, commit, abandon, clear, release).
THEOREM SlotsAreSound == Spec => []SlotsSound
<1>1. ArenaIInv => SlotsSound
  BY DEF ArenaIInv, SlotsSound
<1> QED BY <1>1, ArenaInvariance, PTL

\* Between acquire() and release() no eviction, replacement, clear or recycled
\* decode changes the bytes behind a handle.
THEOREM PinnedBytesStayIntact == Spec => []PinnedBytesIntact
<1>1. ArenaIInv => PinnedBytesIntact
  BY DEF ArenaIInv
<1> QED BY <1>1, ArenaInvariance, PTL

\* allocatedBytes is the sum of the sizes of the slots held, at every moment,
\* so it never drifts away from the memory in use and never exceeds the budget.
THEOREM BytesAreAccounted == Spec => [](BytesAccounted /\ bytes <= Budget)
<1>1. ArenaIInv => BytesAccounted /\ bytes <= Budget
  BY NeedNat DEF ArenaIInv, TypeOK
<1> QED BY <1>1, ArenaInvariance, PTL

--------------------------------------------------------------------------------
(* The coordinator's invariant *)

FlightType == [id : Id \union {None}, phase : Phase, aborted : BOOLEAN,
               lease : Slot \union {None}, inSlot : BOOLEAN, waiters : SUBSET Caller]
CallerType == [st : {"idle", "waiting", "served", "failed"}, id : Id \union {None}]

FetchTypes ==
  /\ flight \in [Flight -> FlightType] /\ inflight \in [Id -> Flight \union {None}]
  /\ running \in Flight \union {None} /\ caller \in [Caller -> CallerType]
  /\ disk \subseteq Id /\ missed \subseteq Id

\* A place not in use is empty, one in use has a segment; nothing is leased
\* before the disk was asked.
Shaped(d) ==
  /\ d.phase = "idle" => d = NoFlight
  /\ d.phase # "idle" => d.id \in Id
  /\ d.phase \in {"disk", "reading"} => d.lease = None
FlightsShaped == \A f \in Flight : Shaped(flight[f])

\* Who waits is in one flight, and a flight's waiters wait for its segment.
Waits ==
  /\ \A c \in Caller : caller[c].st = "waiting" => \E f \in Flight : c \in flight[f].waiters
  /\ \A f, g \in Flight, c \in Caller : c \in flight[f].waiters /\ c \in flight[g].waiters => f = g
  /\ \A f \in Flight : \A c \in flight[f].waiters : caller[c].st = "waiting" /\ caller[c].id = flight[f].id
  /\ \A f \in Flight : flight[f].aborted => flight[f].waiters = {}

\* The budget's queue holds flights that wait for a permit, each once.
Places == {"none", "queued", "held", "released"}
QueueSound ==
  /\ handle \in [Flight -> Places] /\ waiters \in Seq(Download!Waiter)
  /\ \A i \in DOMAIN waiters : handle[waiters[i].client] = "queued"
  /\ \A i, j \in DOMAIN waiters : waiters[i].client = waiters[j].client => i = j

\* A pin is in the hands of the caller that was served that segment.
PinsServed ==
  \A c \in Caller : pins[c] # None => caller[c].st = "served" /\ pins[c].id = caller[c].id

\* A walk: a provider that holds the segment and was asked all the same got into
\* trouble, which the walk remembers to its end.
WalkType == [asked : SUBSET Provider, heard : SUBSET {"loss", "trouble"}]
WalkSound(f) ==
  flight[f].phase = "fetch" =>
    \A p \in Copies[flight[f].id] \intersect walk[f].asked : "trouble" \in walk[f].heard
Verdicts ==
  /\ walk \in [Flight -> WalkType]
  /\ \A f \in Flight : WalkSound(f)
  /\ MissesHonest

Flights == FetchTypes /\ FlightsShaped /\ SingleFlight /\ Waits
Permits == QueueSound /\ PermitsOwned

FetchIInv == ArenaIInv /\ Flights /\ LeasesOwned /\ Permits /\ PinsServed /\ Verdicts


--------------------------------------------------------------------------------
(* The budget *)

\* The budget splices its queue as the arena splices its entries.
LEMMA BudgetSplices ==
  /\ \A q, i : Download!RemoveAt(q, i) = RemoveAt(q, i)
  /\ \A q, i, e : Download!InsertAt(q, i, e) = InsertAt(q, i, e)
BY DEF RemoveAt, Download!RemoveAt, InsertAt, Download!InsertAt

\* The queue q and the places h of the flights fit.
QueueFits(h, q) ==
  /\ h \in [Flight -> Places] /\ q \in Seq(Download!Waiter)
  /\ \A i \in DOMAIN q : h[q[i].client] = "queued"
  /\ \A i, j \in DOMAIN q : q[i].client = q[j].client => i = j

\* Whoever waits is a flight.
LEMMA QueueClients ==
  ASSUME QueueFits(handle, waiters)
  PROVE  \A i \in DOMAIN waiters : waiters[i].client \in Flight /\ handle[waiters[i].client] = "queued"
<1>1. \A i \in DOMAIN waiters : waiters[i] \in Download!Waiter
  BY DEF QueueFits
<1>2. \A i \in DOMAIN waiters : waiters[i].client \in Flight
  BY <1>1 DEF Download!Waiter
<1> QED BY <1>2 DEF QueueFits

\* One waiter leaves the queue, the others wait on.
LEMMA LeavesQueue ==
  ASSUME QueueFits(handle, waiters), NEW i \in DOMAIN waiters, NEW h \in [Flight -> Places],
         \A g \in Flight : handle[g] = "queued" /\ g # waiters[i].client => h[g] = "queued"
  PROVE  QueueFits(h, RemoveAt(waiters, i))
<1> DEFINE q == waiters
           r == RemoveAt(waiters, i)
<1>1. /\ q \in Seq(Download!Waiter) /\ DOMAIN q = 1..Len(q) /\ Len(q) \in Nat /\ i \in 1..Len(q)
      /\ \A j \in 1..Len(q) : handle[q[j].client] = "queued" /\ q[j] \in Download!Waiter
      /\ \A j, k \in 1..Len(q) : q[j].client = q[k].client => j = k
  BY DEF QueueFits
<1>2. \A j \in 1..Len(q) : q[j].client \in Flight
  BY <1>1 DEF Download!Waiter
<1> HIDE DEF q, r
<1> DEFINE W == Download!Waiter
<1>a. q \in Seq(W) /\ i \in 1..Len(q)
  BY <1>1
<1> HIDE DEF W
<1>b. /\ RemoveAt(q, i) \in Seq(W)
      /\ Len(RemoveAt(q, i)) = Len(q) - 1
      /\ \A j \in 1..(Len(q) - 1) : RemoveAt(q, i)[j] = IF j < i THEN q[j] ELSE q[j + 1]
  BY <1>a, RemoveAtProperties
<1>3. /\ RemoveAt(q, i) \in Seq(Download!Waiter)
      /\ Len(RemoveAt(q, i)) = Len(q) - 1
      /\ \A j \in 1..(Len(q) - 1) : RemoveAt(q, i)[j] = IF j < i THEN q[j] ELSE q[j + 1]
  BY <1>b DEF W
<1>4. r = RemoveAt(q, i)
  BY DEF q, r
<1>5. r \in Seq(Download!Waiter) /\ DOMAIN r = 1..(Len(q) - 1)
  BY <1>1, <1>3, <1>4
<1> DEFINE at(j) == IF j < i THEN j ELSE j + 1
<1>6. \A j \in 1..(Len(q) - 1) : at(j) \in 1..Len(q) /\ at(j) # i /\ r[j] = q[at(j)]
  BY <1>1, <1>3, <1>4
<1>7. \A j, k \in 1..(Len(q) - 1) : at(j) = at(k) => j = k
  BY <1>1
<1> HIDE DEF at
<1>8. \A j \in DOMAIN r : h[r[j].client] = "queued"
  <2>1. \A j \in 1..(Len(q) - 1) : r[j].client \in Flight /\ handle[r[j].client] = "queued" /\ r[j].client # q[i].client
    BY <1>1, <1>2, <1>6
  <2> QED BY <1>5, <2>1 DEF q
<1>9. ASSUME NEW j \in 1..(Len(q) - 1), NEW k \in 1..(Len(q) - 1), r[j].client = r[k].client PROVE j = k
  <2>1. at(j) = at(k)
    BY <1>1, <1>6, <1>9
  <2> QED BY <1>7, <2>1
<1> QED BY <1>5, <1>8, <1>9 DEF QueueFits, r

\* A flight that was not waiting joins the queue.
LEMMA EntersQueue ==
  ASSUME QueueFits(handle, waiters), NEW f \in Flight, handle[f] # "queued",
         NEW p \in Download!Priority, NEW i \in 1..(Len(waiters) + 1),
         NEW h \in [Flight -> Places], h[f] = "queued", \A g \in Flight : g # f => h[g] = handle[g]
  PROVE  QueueFits(h, InsertAt(waiters, i, [client |-> f, prio |-> p]))
<1> DEFINE q == waiters
           e == [client |-> f, prio |-> p]
           r == InsertAt(q, i, e)
<1>1. /\ q \in Seq(Download!Waiter) /\ DOMAIN q = 1..Len(q) /\ Len(q) \in Nat /\ i \in 1..(Len(q) + 1)
      /\ \A j \in 1..Len(q) : handle[q[j].client] = "queued" /\ q[j] \in Download!Waiter
      /\ \A j, k \in 1..Len(q) : q[j].client = q[k].client => j = k
  BY DEF QueueFits
<1>2. \A j \in 1..Len(q) : q[j].client \in Flight /\ q[j].client # f
  BY <1>1 DEF Download!Waiter
<1>3. e \in Download!Waiter /\ e.client = f
  BY DEF Download!Waiter
<1> HIDE DEF q, e
<1>4. /\ r \in Seq(Download!Waiter) /\ Len(r) = Len(q) + 1
      /\ \A j \in 1..(Len(q) + 1) : r[j] = IF j < i THEN q[j] ELSE IF j = i THEN e ELSE q[j - 1]
  BY <1>1, <1>3, InsertAtProperties
<1> HIDE DEF r
<1>5. DOMAIN r = 1..(Len(q) + 1)
  BY <1>1, <1>4
<1> DEFINE at(j) == IF j < i THEN j ELSE j - 1
<1>6. /\ \A j \in 1..(Len(q) + 1) : j # i => at(j) \in 1..Len(q) /\ r[j] = q[at(j)]
      /\ r[i] = e
  BY <1>1, <1>4
<1>7. \A j, k \in 1..(Len(q) + 1) : j # i /\ k # i /\ at(j) = at(k) => j = k
  BY <1>1
<1> HIDE DEF at
<1>8. ASSUME NEW j \in 1..(Len(q) + 1) PROVE h[r[j].client] = "queued"
  <2>1. CASE j = i
    BY <1>3, <1>6, <2>1
  <2>2. CASE j # i
    BY <1>1, <1>2, <1>6, <2>2
  <2> QED BY <2>1, <2>2
<1>9. ASSUME NEW j \in 1..(Len(q) + 1), NEW k \in 1..(Len(q) + 1), r[j].client = r[k].client PROVE j = k
  <2>1. CASE j = i
    BY <1>2, <1>3, <1>6, <1>9, <2>1
  <2>2. CASE k = i
    BY <1>2, <1>3, <1>6, <1>9, <2>2
  <2>3. CASE j # i /\ k # i
    <3>1. at(j) = at(k)
      BY <1>1, <1>6, <1>9, <2>3
    <3> QED BY <1>7, <2>3, <3>1
  <2> QED BY <2>1, <2>2, <2>3
<1>10. QueueFits(h, r)
  BY <1>4, <1>5, <1>8, <1>9 DEF QueueFits
<1> QED BY <1>10 DEF r, q, e

\* The queue's part of the invariant, in these words.
LEMMA QueueParts == /\ QueueSound <=> QueueFits(handle, waiters)
                    /\ QueueSound' <=> QueueFits(handle', waiters')
BY DEF QueueSound, QueueFits

\* Nobody else loses the place it has; who waited may get the permit.
OthersAsk(f) ==
  \A g \in Flight : g # f => (handle'[g] \in {"queued", "held"} <=> handle[g] \in {"queued", "held"})

\* acquire: the flight has a permit or waits for one.
LEMMA AcquireAsks ==
  ASSUME QueueSound, NEW f \in Flight,
         Download!AcquireNow(f) \/ Download!AcquireQueued(f, Download!High)
  PROVE  QueueSound' /\ handle'[f] \in {"queued", "held"} /\ OthersAsk(f)
<1>1. QueueFits(handle, waiters) /\ handle \in [Flight -> Places]
  BY QueueParts DEF QueueFits
<1>2. CASE Download!AcquireNow(f)
  <2>1. /\ handle[f] \in {"none", "released"} /\ handle' = [handle EXCEPT ![f] = "held"] /\ waiters' = waiters
    BY <1>2 DEF Download!AcquireNow
  <2>2. handle' \in [Flight -> Places] /\ handle'[f] = "held" /\ \A g \in Flight : g # f => handle'[g] = handle[g]
    BY <1>1, <2>1 DEF Places
  <2>3. \A i \in DOMAIN waiters : waiters[i].client \in Flight
    BY <1>1, QueueClients
  <2>4. QueueFits(handle', waiters')
    BY <1>1, <2>1, <2>2, <2>3 DEF QueueFits
  <2> QED BY <2>2, <2>4, QueueParts DEF OthersAsk
<1>3. CASE Download!AcquireQueued(f, Download!High)
  <2>1. /\ handle[f] \in {"none", "released"} /\ handle' = [handle EXCEPT ![f] = "queued"]
    BY <1>3 DEF Download!AcquireQueued
  <2>2. PICK i \in 1..(Len(waiters) + 1) :
          waiters' = Download!InsertAt(waiters, i, [client |-> f, prio |-> Download!High])
    BY <1>3 DEF Download!AcquireQueued
  <2>3. handle' \in [Flight -> Places] /\ handle'[f] = "queued" /\ \A g \in Flight : g # f => handle'[g] = handle[g]
    BY <1>1, <2>1 DEF Places
  <2>4. waiters' = InsertAt(waiters, i, [client |-> f, prio |-> Download!High])
    BY <2>2, BudgetSplices
  <2>5. Download!High \in Download!Priority
    BY DEF Download!Priority
  <2>6. QueueFits(handle', waiters')
    BY <1>1, <2>1, <2>3, <2>4, <2>5, EntersQueue
  <2> QED BY <2>3, <2>6, QueueParts DEF OthersAsk
<1> QED BY <1>2, <1>3

\* abort of a waiting acquire: the flight leaves the queue.
LEMMA AbortLeaves ==
  ASSUME QueueSound, NEW f \in Flight, Download!Abort(f)
  PROVE  QueueSound' /\ handle'[f] \notin {"queued", "held"} /\ OthersAsk(f)
<1>1. QueueFits(handle, waiters) /\ handle \in [Flight -> Places]
  BY QueueParts DEF QueueFits
<1>2. handle' = [handle EXCEPT ![f] = "none"]
  BY DEF Download!Abort
<1>3. PICK i \in DOMAIN waiters : waiters[i].client = f /\ waiters' = Download!RemoveAt(waiters, i)
  BY DEF Download!Abort
<1>4. handle' \in [Flight -> Places] /\ handle'[f] = "none" /\ \A g \in Flight : g # f => handle'[g] = handle[g]
  BY <1>1, <1>2 DEF Places
<1>5. waiters' = RemoveAt(waiters, i)
  BY <1>3, BudgetSplices
<1>6. QueueFits(handle', waiters')
  BY <1>1, <1>3, <1>4, <1>5, LeavesQueue
<1> QED BY <1>4, <1>6, QueueParts DEF OthersAsk

\* release: the permit goes back, or to one that waits for it.
LEMMA ReleaseHandsOn ==
  ASSUME QueueSound, NEW f \in Flight, Download!Release(f)
  PROVE  QueueSound' /\ handle'[f] \notin {"queued", "held"} /\ OthersAsk(f)
<1>1. QueueFits(handle, waiters) /\ handle \in [Flight -> Places] /\ handle[f] = "held"
  BY QueueParts DEF QueueFits, Download!Release
<1> DEFINE h == [handle EXCEPT ![f] = "released"]
<1>2. h \in [Flight -> Places] /\ h[f] = "released" /\ \A g \in Flight : g # f => h[g] = handle[g]
  BY <1>1 DEF Places
<1>3. \A i \in DOMAIN waiters : waiters[i].client \in Flight /\ handle[waiters[i].client] = "queued"
  BY <1>1, QueueClients
<1>4. \/ \E i \in DOMAIN waiters : /\ waiters' = Download!RemoveAt(waiters, i)
                                   /\ handle' = [h EXCEPT ![waiters[i].client] = "held"]
      \/ handle' = h /\ waiters' = waiters
  BY DEF Download!Release, Download!GrantNext
<1> HIDE DEF h
<1>5. CASE handle' = h /\ waiters' = waiters
  <2>1. QueueFits(handle', waiters')
    BY <1>1, <1>2, <1>3, <1>5 DEF QueueFits
  <2> QED BY <1>2, <1>5, <2>1, QueueParts DEF OthersAsk
<1>6. ASSUME NEW i \in DOMAIN waiters, waiters' = Download!RemoveAt(waiters, i),
             handle' = [h EXCEPT ![waiters[i].client] = "held"]
      PROVE  QueueSound' /\ handle'[f] \notin {"queued", "held"} /\ OthersAsk(f)
  <2>1. PICK k : k = waiters[i].client
    OBVIOUS
  <2>2. k \in Flight /\ handle[k] = "queued" /\ k # f
    BY <1>1, <1>3, <2>1
  <2>3. handle' \in [Flight -> Places] /\ handle'[k] = "held" /\ \A g \in Flight : g # k => handle'[g] = h[g]
    BY <1>2, <1>6, <2>1, <2>2 DEF Places
  <2>4. waiters' = RemoveAt(waiters, i)
    BY <1>6, BudgetSplices
  <2>5. \A g \in Flight : handle[g] = "queued" /\ g # waiters[i].client => handle'[g] = "queued"
    BY <1>1, <1>2, <2>1, <2>3
  <2>6. QueueFits(handle', waiters')
    BY <1>1, <2>3, <2>4, <2>5, LeavesQueue
  <2>7. OthersAsk(f)
    BY <1>2, <2>2, <2>3 DEF OthersAsk
  <2> QED BY <1>2, <2>2, <2>3, <2>6, <2>7, QueueParts
<1> QED BY <1>4, <1>5, <1>6

--------------------------------------------------------------------------------
(* The flights *)

\* Every flight but f is as it was.
OthersFly(f) == \A g \in Flight : g # f => flight'[g] = flight[g]

\* Everything the flights' invariant does not relate keeps its type.
Typed == running' \in Flight \union {None} /\ disk' \subseteq Id /\ missed' \subseteq Id

\* An empty place is a flight like any other, and None is none.
LEMMA PlaceFree == NoFlight \in FlightType /\ Shaped(NoFlight) /\ None \notin Flight
BY FlightAssumption DEF NoFlight, FlightType, Phase, Shaped

\* A flight still under way has a segment.
LEMMA FlightHas ==
  ASSUME Flights, NEW f \in Flight
  PROVE  /\ flight[f] \in FlightType /\ flight[f].waiters \subseteq Caller
         /\ Active(f) => flight[f].id \in Id
         /\ ~Active(f) => flight[f] = NoFlight
         /\ Active(f) <=> flight[f].phase # "idle"
BY DEF Flights, FetchTypes, FlightsShaped, Shaped, Active, FlightType

\* No flight changes, and no caller starts or stops waiting.
LEMMA FlightsQuiet ==
  ASSUME Flights, UNCHANGED <<flight, inflight>>, Typed, caller' \in [Caller -> CallerType],
         \A c \in Caller : caller'[c] = caller[c] \/ (caller[c].st # "waiting" /\ caller'[c].st # "waiting")
  PROVE  Flights'
<1>1. FetchTypes'
  BY DEF Flights, FetchTypes, Typed
<1>2. FlightsShaped' /\ SingleFlight'
  BY DEF Flights, FlightsShaped, Shaped, SingleFlight, Active
<1>3. Waits'
  <2>1. \A f \in Flight : flight[f].waiters \subseteq Caller
    BY FlightHas
  <2> QED BY <2>1 DEF Flights, Waits
<1> QED BY <1>1, <1>2, <1>3 DEF Flights

\* A flight goes on: what it answers and whom is as it was.
Advances(f) ==
  /\ flight' \in [Flight -> FlightType] /\ OthersFly(f)
  /\ flight'[f].id = flight[f].id /\ flight'[f].aborted = flight[f].aborted
  /\ flight'[f].waiters = flight[f].waiters
  /\ flight'[f].phase # "idle"

\* A flight that goes on keeps the index and the waiters right.
LEMMA FlightsAdvance ==
  ASSUME Flights, NEW f \in Flight, Active(f), Advances(f), Shaped(flight'[f]), Typed,
         UNCHANGED <<inflight, caller>>
  PROVE  Flights'
<1>1. FetchTypes'
  BY DEF Flights, FetchTypes, Typed, Advances
<1>2. FlightsShaped'
  BY DEF Flights, FlightsShaped, Shaped, Advances, OthersFly
<1>3. \A g \in Flight : /\ flight'[g].id = flight[g].id /\ flight'[g].aborted = flight[g].aborted
                        /\ flight'[g].waiters = flight[g].waiters
                        /\ flight'[g].phase # "idle" <=> flight[g].phase # "idle"
  BY DEF Advances, OthersFly, Active
<1>4. SingleFlight'
  BY <1>3 DEF Flights, SingleFlight, Active
<1>5. Waits'
  BY <1>3 DEF Flights, Waits
<1> QED BY <1>1, <1>2, <1>4, <1>5 DEF Flights

\* A caller joins the flight that new callers find.
LEMMA FlightsJoin ==
  ASSUME Flights, NEW f \in Flight, NEW c \in Caller, caller[c].st # "waiting", inflight[flight[f].id] = f,
         flight[f].id \in Id,
         flight' \in [Flight -> FlightType], OthersFly(f),
         flight'[f].id = flight[f].id, flight'[f].aborted = flight[f].aborted,
         flight'[f].phase = flight[f].phase, flight'[f].lease = flight[f].lease,
         flight'[f].waiters = flight[f].waiters \union {c},
         caller' = [caller EXCEPT ![c] = [st |-> "waiting", id |-> flight[f].id]],
         UNCHANGED inflight, Typed
  PROVE  Flights'
<1>0. caller \in [Caller -> CallerType] /\ Active(f) /\ ~flight[f].aborted
  BY DEF Flights, FetchTypes, SingleFlight
<1>1. /\ caller' \in [Caller -> CallerType]
      /\ caller'[c].st = "waiting" /\ caller'[c].id = flight[f].id
      /\ \A b \in Caller : b # c => caller'[b] = caller[b]
  BY <1>0 DEF CallerType
<1>2. FetchTypes'
  BY <1>1 DEF Flights, FetchTypes, Typed
<1>3. FlightsShaped'
  <2>1. Shaped(flight'[f])
    BY <1>0 DEF Flights, FlightsShaped, Shaped, Active
  <2> QED BY <2>1 DEF Flights, FlightsShaped, Shaped, OthersFly
<1>4. \A g \in Flight : /\ flight'[g].id = flight[g].id /\ flight'[g].aborted = flight[g].aborted
                        /\ flight'[g].phase = flight[g].phase
  BY DEF OthersFly
<1>5. SingleFlight'
  BY <1>4 DEF Flights, SingleFlight, Active
<1>6. Waits'
  <2>1. \A g \in Flight : flight[g].waiters \subseteq Caller /\ c \notin flight[g].waiters
    <3>1. \A g \in Flight : c \notin flight[g].waiters
      BY DEF Flights, Waits
    <3> QED BY <3>1, FlightHas
  <2>2. \A g \in Flight, b \in Caller : b # c => (b \in flight'[g].waiters <=> b \in flight[g].waiters)
    BY DEF OthersFly
  <2>3. \A g \in Flight : c \in flight'[g].waiters <=> g = f
    BY <2>1 DEF OthersFly
  <2>4. \A g \in Flight : flight'[g].waiters \subseteq Caller
    BY <2>1 DEF OthersFly
  <2>5. \A b \in Caller : caller'[b].st = "waiting" => \E g \in Flight : b \in flight'[g].waiters
    <3> SUFFICES ASSUME NEW b \in Caller, caller'[b].st = "waiting" PROVE \E g \in Flight : b \in flight'[g].waiters
      OBVIOUS
    <3>1. CASE b = c
      BY <2>3, <3>1
    <3>2. CASE b # c
      BY <1>1, <2>2, <3>2 DEF Flights, Waits
    <3> QED BY <3>1, <3>2
  <2>6. \A g, h \in Flight, b \in Caller : b \in flight'[g].waiters /\ b \in flight'[h].waiters => g = h
    BY <2>2, <2>3 DEF Flights, Waits
  <2>7. ASSUME NEW g \in Flight, NEW b \in flight'[g].waiters
        PROVE  caller'[b].st = "waiting" /\ caller'[b].id = flight'[g].id
    <3>1. CASE b = c
      BY <1>1, <1>4, <2>3, <3>1
    <3>2. CASE b # c
      BY <1>1, <1>4, <2>2, <2>4, <3>2 DEF Flights, Waits
    <3> QED BY <3>1, <3>2
  <2>8. ASSUME NEW g \in Flight, flight'[g].aborted PROVE flight'[g].waiters = {}
    <3>1. g # f
      BY <1>0, <1>4, <2>8
    <3> QED BY <2>8, <3>1 DEF Flights, Waits, OthersFly
  <2> QED BY <2>5, <2>6, <2>7, <2>8 DEF Waits
<1> QED BY <1>2, <1>3, <1>5, <1>6 DEF Flights

\* A caller whose segment no flight fetches starts one.
LEMMA FlightsNew ==
  ASSUME Flights, NEW f \in Flight, NEW c \in Caller, NEW m \in Id, caller[c].st # "waiting", ~Active(f),
         \A g \in Flight : inflight[m] # g,
         flight' \in [Flight -> FlightType], OthersFly(f),
         flight'[f].id = m, ~flight'[f].aborted, flight'[f].phase = "disk", flight'[f].lease = None,
         flight'[f].waiters = {c},
         caller' = [caller EXCEPT ![c] = [st |-> "waiting", id |-> m]],
         inflight' = [inflight EXCEPT ![m] = f], Typed
  PROVE  Flights'
<1>0. caller \in [Caller -> CallerType] /\ inflight \in [Id -> Flight \union {None}]
  BY DEF Flights, FetchTypes
<1>1. /\ caller' \in [Caller -> CallerType]
      /\ caller'[c].st = "waiting" /\ caller'[c].id = m
      /\ \A b \in Caller : b # c => caller'[b] = caller[b]
  BY <1>0 DEF CallerType
<1>2. /\ inflight' \in [Id -> Flight \union {None}] /\ inflight'[m] = f
      /\ \A n \in Id : n # m => inflight'[n] = inflight[n]
  BY <1>0
<1>3. FetchTypes'
  BY <1>1, <1>2 DEF Flights, FetchTypes, Typed
<1>4. FlightsShaped'
  <2>1. Shaped(flight'[f])
    BY DEF Shaped
  <2> QED BY <2>1 DEF Flights, FlightsShaped, Shaped, OthersFly
<1>5. \A g \in Flight : flight[g].waiters \subseteq Caller /\ c \notin flight[g].waiters
  <2>1. \A g \in Flight : c \notin flight[g].waiters
    BY DEF Flights, Waits
  <2> QED BY <2>1, FlightHas
<1>6. SingleFlight'
  <2> SUFFICES ASSUME NEW g \in Flight
               PROVE  /\ Active(g)' /\ ~flight'[g].aborted => inflight'[flight'[g].id] = g
                      /\ \A n \in Id : inflight'[n] = g => Active(g)' /\ flight'[g].id = n /\ ~flight'[g].aborted
    BY DEF SingleFlight
  <2>1. CASE g = f
    BY <1>2, <2>1 DEF Flights, SingleFlight, Active
  <2>2. CASE g # f
    <3>1. flight'[g] = flight[g]
      BY <2>2 DEF OthersFly
    <3>2. Active(g) => flight[g].id \in Id
      BY FlightHas
    <3> QED BY <1>2, <2>2, <3>1, <3>2 DEF Flights, SingleFlight, Active
  <2> QED BY <2>1, <2>2
<1>7. flight[f].waiters = {}
  BY FlightHas DEF NoFlight
<1>8. Waits'
  BY <1>1, <1>5, <1>7 DEF Flights, Waits, OthersFly
<1> QED BY <1>3, <1>4, <1>6, <1>8 DEF Flights

\* Deregistering a flight takes it, and nothing else, out of the index.
LEMMA UnregisterTakes ==
  ASSUME Flights, NEW f \in Flight, Active(f), Unregister(f)
  PROVE  /\ inflight' \in [Id -> Flight \union {None}]
         /\ \A m \in Id : inflight'[m] # f
         /\ \A m \in Id, g \in Flight : g # f => (inflight'[m] = g <=> inflight[m] = g)
<1>0. inflight \in [Id -> Flight \union {None}] /\ flight[f].id \in Id /\ None \notin Flight
  BY FlightHas, PlaceFree DEF Flights, FetchTypes
<1>1. \A m \in Id : inflight[m] = f => m = flight[f].id
  BY DEF Flights, SingleFlight
<1>2. inflight' = [inflight EXCEPT ![flight[f].id] = IF @ = f THEN None ELSE @]
  BY DEF Unregister
<1>3. PICK k : k = flight[f].id
  OBVIOUS
<1>4. /\ inflight'[k] = IF inflight[k] = f THEN None ELSE inflight[k]
      /\ \A m \in Id : m # k => inflight'[m] = inflight[m]
      /\ inflight' \in [Id -> Flight \union {None}]
  BY <1>0, <1>2, <1>3
<1> QED BY <1>0, <1>1, <1>3, <1>4

\* A caller leaves a flight that goes on for the others.
LEMMA FlightsLeave ==
  ASSUME Flights, NEW f \in Flight, NEW c \in flight[f].waiters,
         flight' \in [Flight -> FlightType], OthersFly(f),
         flight'[f].id = flight[f].id, flight'[f].phase # "idle", Shaped(flight'[f]),
         flight'[f].waiters = flight[f].waiters \ {c},
         \/ flight'[f].aborted = flight[f].aborted /\ inflight' = inflight
         \/ flight'[f].aborted /\ flight[f].waiters = {c} /\ Unregister(f),
         caller' = [caller EXCEPT ![c] = [st |-> "failed", id |-> caller[c].id]],
         Typed
  PROVE  Flights'
<1>0. /\ caller \in [Caller -> CallerType] /\ c \in Caller /\ flight[f].waiters \subseteq Caller
      /\ caller[c].id \in Id \union {None} /\ ~flight[f].aborted /\ caller[c].st = "waiting"
  <2>1. flight[f].waiters \subseteq Caller
    BY FlightHas
  <2>2. caller \in [Caller -> CallerType] /\ caller[c].st = "waiting" /\ ~flight[f].aborted
    BY DEF Flights, FetchTypes, Waits
  <2> QED BY <2>1, <2>2 DEF CallerType
<1>1. /\ caller' \in [Caller -> CallerType] /\ caller'[c].st = "failed"
      /\ \A b \in Caller : b # c => caller'[b] = caller[b]
  BY <1>0 DEF CallerType
<1>2. Active(f)
  <2>1. flight[f].waiters # {}
    OBVIOUS
  <2> QED BY <2>1, FlightHas DEF NoFlight
<1>3. /\ inflight' \in [Id -> Flight \union {None}]
      /\ \A m \in Id, g \in Flight : g # f => (inflight'[m] = g <=> inflight[m] = g)
      /\ \/ flight'[f].aborted = flight[f].aborted /\ inflight' = inflight
         \/ flight'[f].aborted /\ flight[f].waiters = {c} /\ \A m \in Id : inflight'[m] # f
  BY <1>2, UnregisterTakes DEF Flights, FetchTypes
<1>4. FetchTypes'
  BY <1>1, <1>3 DEF Flights, FetchTypes, Typed
<1>5. FlightsShaped'
  BY DEF Flights, FlightsShaped, Shaped, OthersFly
<1>6. \A g \in Flight : Active(g) => flight[g].id \in Id
  BY FlightHas
<1>7. SingleFlight'
  <2> SUFFICES ASSUME NEW g \in Flight
               PROVE  /\ Active(g)' /\ ~flight'[g].aborted => inflight'[flight'[g].id] = g
                      /\ \A n \in Id : inflight'[n] = g => Active(g)' /\ flight'[g].id = n /\ ~flight'[g].aborted
    BY DEF SingleFlight
  <2>1. CASE g = f
    BY <1>2, <1>3, <1>6, <2>1 DEF Flights, SingleFlight, Active
  <2>2. CASE g # f
    <3>1. flight'[g] = flight[g]
      BY <2>2 DEF OthersFly
    <3> QED BY <1>3, <1>6, <2>2, <3>1 DEF Flights, SingleFlight, Active
  <2> QED BY <2>1, <2>2
<1>8. Waits'
  <2>1. \A g \in Flight : g # f => c \notin flight[g].waiters
    BY <1>0 DEF Flights, Waits
  <2>2. \A g \in Flight : /\ flight[g].waiters \subseteq Caller /\ flight'[g].id = flight[g].id
                          /\ flight'[g].waiters = flight[g].waiters \ {c}
    BY <2>1, FlightHas DEF OthersFly
  <2>3. \A g \in Flight : flight'[g].aborted => flight'[g].waiters = {}
    BY <1>3 DEF Flights, Waits, OthersFly
  <2> QED BY <1>0, <1>1, <2>2, <2>3 DEF Flights, Waits
<1> QED BY <1>4, <1>5, <1>7, <1>8 DEF Flights

\* A flight settles: every waiter is answered and the place is empty again.
LEMMA FlightsSettle ==
  ASSUME Flights, NEW f \in Flight, Active(f), Unregister(f), NEW st \in {"served", "failed"},
         Answer(flight[f].waiters, st), flight' = [flight EXCEPT ![f] = NoFlight], Typed
  PROVE  Flights'
<1>0. caller \in [Caller -> CallerType] /\ flight \in [Flight -> FlightType]
  BY DEF Flights, FetchTypes
<1>1. /\ caller' \in [Caller -> CallerType]
      /\ \A c \in Caller : IF c \in flight[f].waiters THEN caller'[c].st = st ELSE caller'[c] = caller[c]
  BY <1>0 DEF CallerType, Answer
<1>2. flight' \in [Flight -> FlightType] /\ flight'[f] = NoFlight /\ OthersFly(f)
  BY <1>0, PlaceFree DEF OthersFly
<1>3. /\ inflight' \in [Id -> Flight \union {None}]
      /\ \A m \in Id : inflight'[m] # f
      /\ \A m \in Id, g \in Flight : g # f => (inflight'[m] = g <=> inflight[m] = g)
  BY UnregisterTakes
<1>4. FetchTypes'
  BY <1>1, <1>2, <1>3 DEF FetchTypes, Typed
<1>5. FlightsShaped'
  BY <1>2, PlaceFree DEF Flights, FlightsShaped, Shaped, OthersFly
<1>6. \A g \in Flight : Active(g) => flight[g].id \in Id
  BY FlightHas
<1>7. SingleFlight'
  <2> SUFFICES ASSUME NEW g \in Flight
               PROVE  /\ Active(g)' /\ ~flight'[g].aborted => inflight'[flight'[g].id] = g
                      /\ \A n \in Id : inflight'[n] = g => Active(g)' /\ flight'[g].id = n /\ ~flight'[g].aborted
    BY DEF SingleFlight
  <2>1. CASE g = f
    BY <1>2, <1>3, <2>1 DEF Active, NoFlight
  <2>2. CASE g # f
    <3>1. flight'[g] = flight[g]
      BY <1>2, <2>2 DEF OthersFly
    <3> QED BY <1>3, <1>6, <2>2, <3>1 DEF Flights, SingleFlight, Active
  <2> QED BY <2>1, <2>2
<1>8. Waits'
  <2>1. flight'[f].waiters = {} /\ \A g \in Flight : flight[g].waiters \subseteq Caller
    BY <1>2, FlightHas DEF NoFlight
  <2>2. \A g \in Flight : g # f => /\ flight'[g] = flight[g]
                                   /\ \A c \in flight[g].waiters : c \notin flight[f].waiters
    BY <1>2, <2>1 DEF Flights, Waits, OthersFly
  <2>3. \A c \in Caller : caller'[c].st = "waiting" => c \notin flight[f].waiters /\ caller'[c] = caller[c]
    BY <1>1
  <2>4. \A c \in Caller : caller'[c].st = "waiting" => \E g \in Flight : c \in flight'[g].waiters
    BY <2>2, <2>3 DEF Flights, Waits
  <2>5. \A g, h \in Flight, c \in Caller : c \in flight'[g].waiters /\ c \in flight'[h].waiters => g = h
    BY <2>1, <2>2 DEF Flights, Waits
  <2>6. \A g \in Flight : \A c \in flight'[g].waiters : caller'[c].st = "waiting" /\ caller'[c].id = flight'[g].id
    BY <1>1, <2>1, <2>2 DEF Flights, Waits
  <2>7. \A g \in Flight : flight'[g].aborted => flight'[g].waiters = {}
    BY <2>1, <2>2 DEF Flights, Waits
  <2> QED BY <2>4, <2>5, <2>6, <2>7 DEF Waits
<1> QED BY <1>4, <1>5, <1>7, <1>8 DEF Flights

--------------------------------------------------------------------------------
(* What the flights hold *)

\* No lease changes hands.
LeasesStay == leases' = leases /\ \A g \in Flight : flight'[g].lease = flight[g].lease

\* The flight f leases s, or gives its slot back.
LeaseTaken(f, s) ==
  /\ leases' = leases \union {s} /\ flight'[f].lease = s
  /\ \A g \in Flight : g # f => flight'[g].lease = flight[g].lease
LeaseBack(f) ==
  /\ leases' = leases \ {flight[f].lease} /\ flight'[f].lease = None
  /\ \A g \in Flight : g # f => flight'[g].lease = flight[g].lease

\* Two flights never hold one slot, and a slot is leased to some flight.
LEMMA LeasesMove ==
  ASSUME LeasesOwned, NEW f \in Flight,
         \/ LeasesStay
         \/ \E s \in Slot : LeaseTaken(f, s) /\ s \notin leases /\ flight[f].lease = None
         \/ LeaseBack(f)
  PROVE  LeasesOwned'
<1>1. CASE LeasesStay
  BY <1>1 DEF LeasesOwned, LeasesStay
<1>2. ASSUME NEW s \in Slot, LeaseTaken(f, s), s \notin leases, flight[f].lease = None PROVE LeasesOwned'
  <2>1. s # None
    BY FlightAssumption
  <2>2. \A g \in Flight : flight[g].lease # s
    BY <1>2, <2>1 DEF LeasesOwned
  <2>3. leases' = {flight'[g].lease : g \in Flight} \ {None}
    BY <1>2, <2>1 DEF LeasesOwned, LeaseTaken
  <2>4. \A g, h \in Flight : flight'[g].lease = flight'[h].lease /\ flight'[g].lease # None => g = h
    BY <1>2, <2>2 DEF LeasesOwned, LeaseTaken
  <2> QED BY <2>3, <2>4 DEF LeasesOwned
<1>3. CASE LeaseBack(f)
  <2>1. leases' = {flight'[g].lease : g \in Flight} \ {None}
    BY <1>3 DEF LeasesOwned, LeaseBack
  <2>2. \A g, h \in Flight : flight'[g].lease = flight'[h].lease /\ flight'[g].lease # None => g = h
    BY <1>3 DEF LeasesOwned, LeaseBack
  <2> QED BY <2>1, <2>2 DEF LeasesOwned
<1> QED BY <1>1, <1>2, <1>3

\* A slot just leased was nobody's lease: it was free, cached, or not there.
LEMMA LeaseFresh ==
  ASSUME ArenaIInv, NEW need \in Need, NEW s \in Slot, Lease(need, s)
  PROVE  s \notin leases /\ leases' = leases \union {s} /\ pins' = pins
<1>1. /\ Range(free) \intersect leases = {} /\ leases \intersect Resident = {}
      /\ \A t \in leases : size[t] # 0
  BY DEF ArenaIInv, OnePart, HeldSized, Held
<1>2. ASSUME CheckoutFree(need, s) PROVE s \notin leases
  <2>1. PICK i \in FreeFit(need) : s = free[i]
    BY <1>2 DEF CheckoutFree
  <2>2. s \in Range(free)
    BY <2>1, RangeMembers DEF FreeFit
  <2> QED BY <1>1, <2>2
<1>3. ASSUME CheckoutFresh(need, s) PROVE s \notin leases
  <2>1. size[s] = 0
    BY <1>3 DEF CheckoutFresh, Fresh
  <2> QED BY <1>1, <2>1
<1>4. ASSUME CheckoutEvict(need, s) PROVE s \notin leases
  <2>1. PICK i \in Evictable : s = entries[i].slot \/ size[s] = 0
    BY <1>4 DEF CheckoutEvict, Fresh
  <2>2. CASE s = entries[i].slot
    <3>1. s \in Resident
      BY <2>2 DEF Resident, Evictable
    <3> QED BY <1>1, <3>1
  <2> QED BY <1>1, <2>1, <2>2
<1>5. leases' = leases \union {s} /\ pins' = pins
  BY DEF Lease
<1>6. CheckoutFree(need, s) \/ CheckoutFresh(need, s) \/ CheckoutEvict(need, s)
  BY DEF Lease
<1> QED BY <1>2, <1>3, <1>4, <1>5, <1>6

\* No permit is asked for or returned.
PermitsStay ==
  /\ UNCHANGED <<handle, waiters>>
  /\ \A g \in Flight : flight'[g].phase = "fetch" <=> flight[g].phase = "fetch"

\* The flight f starts or stops asking for one.
PermitMoves(f) ==
  /\ QueueSound' /\ OthersAsk(f)
  /\ handle'[f] \in {"queued", "held"} <=> flight'[f].phase = "fetch"
  /\ \A g \in Flight : g # f => (flight'[g].phase = "fetch" <=> flight[g].phase = "fetch")

\* The flights that ask the budget are still those in phase fetch.
LEMMA PermitsMove ==
  ASSUME Permits, NEW f \in Flight, PermitsStay \/ PermitMoves(f)
  PROVE  Permits'
<1>1. CASE PermitsStay
  BY <1>1 DEF Permits, QueueSound, PermitsOwned, PermitsStay
<1>2. CASE PermitMoves(f)
  BY <1>2 DEF Permits, PermitsOwned, PermitMoves, OthersAsk
<1> QED BY <1>1, <1>2

\* No pin changes, and whoever was served keeps what it was served.
LEMMA PinsStay ==
  ASSUME PinsServed, pins' = pins, \A c \in Caller : caller'[c] = caller[c] \/ caller[c].st # "served"
  PROVE  PinsServed'
BY DEF PinsServed

\* An arena left alone stays sound.
LEMMA ArenaStays ==
  ASSUME ArenaIInv, UNCHANGED arenaVars
  PROVE  ArenaIInv' /\ leases' = leases /\ pins' = pins
<1>1. UNCHANGED vars /\ leases' = leases /\ pins' = pins
  BY DEF arenaVars, vars
<1> QED BY <1>1, ArenaNextInv

\* A budget left alone keeps its queue and its permits.
LEMMA BudgetStays ==
  ASSUME UNCHANGED budgetVars
  PROVE  UNCHANGED <<handle, waiters>>
BY DEF budgetVars

--------------------------------------------------------------------------------
(* Requests *)

\* What a caller is put to: nobody else notices.
LEMMA PutCaller ==
  ASSUME Flights, NEW c \in Caller, NEW st \in {"idle", "waiting", "served", "failed"},
         NEW m \in Id \union {None}, Put(c, st, m)
  PROVE  /\ caller' \in [Caller -> CallerType] /\ caller'[c].st = st /\ caller'[c].id = m
         /\ \A b \in Caller : b # c => caller'[b] = caller[b]
<1>1. caller \in [Caller -> CallerType]
  BY DEF Flights, FetchTypes
<1> QED BY <1>1 DEF CallerType, Put

\* No walk begins or goes on, and nothing new is remembered.
LEMMA VerdictsStay ==
  ASSUME Verdicts, UNCHANGED walk, missed' \subseteq missed,
         \A g \in Flight : flight'[g].phase = "fetch" => flight[g].phase = "fetch" /\ flight'[g].id = flight[g].id
  PROVE  Verdicts'
<1>1. MissesHonest' /\ walk' \in [Flight -> WalkType]
  BY DEF Verdicts, MissesHonest
<1>2. \A g \in Flight : WalkSound(g)'
  BY DEF Verdicts, WalkSound
<1> QED BY <1>1, <1>2 DEF Verdicts

\* A walk begins, or is over.
LEMMA VerdictsForget ==
  ASSUME FetchIInv, NEW f \in Flight, FreshWalk(f), OthersFly(f),
         missed' \intersect Available = {} \/ missed' = missed
  PROVE  Verdicts'
<1>1. NoWalk \in WalkType /\ NoWalk.asked = {} /\ walk \in [Flight -> WalkType]
  BY DEF NoWalk, WalkType, FetchIInv, Verdicts
<1>2. walk' \in [Flight -> WalkType] /\ walk'[f] = NoWalk /\ \A g \in Flight : g # f => walk'[g] = walk[g]
  BY <1>1 DEF FreshWalk
<1>3. ASSUME NEW g \in Flight PROVE WalkSound(g)'
  <2>1. CASE g = f
    BY <1>1, <1>2, <2>1 DEF WalkSound
  <2>2. CASE g # f
    BY <1>2, <2>2 DEF WalkSound, OthersFly, FetchIInv, Verdicts
  <2> QED BY <2>1, <2>2
<1>4. MissesHonest'
  BY DEF MissesHonest, FetchIInv, Verdicts
<1> QED BY <1>2, <1>3, <1>4 DEF Verdicts

\* A hit pins the caller's segment for it.
LEMMA RequestHitStep ==
  ASSUME FetchIInv, NEW c \in Caller, NEW m \in Id, RequestHit(c, m)
  PROVE  FetchIInv'
<1>0. /\ running = None /\ Free(c) /\ Acquire(m, c) /\ Put(c, "served", m)
      /\ UNCHANGED <<flight, inflight, running, disk, missed, walk>> /\ UNCHANGED budgetVars
  BY DEF RequestHit
<1>1. ArenaIInv'
  BY <1>0, AcquireStep DEF FetchIInv, Caller
<1>2. /\ caller' \in [Caller -> CallerType] /\ caller'[c].st = "served" /\ caller'[c].id = m
      /\ \A b \in Caller : b # c => caller'[b] = caller[b]
  BY <1>0, PutCaller DEF FetchIInv
<1>3. Flights'
  BY <1>0, <1>2, FlightsQuiet DEF FetchIInv, Free, Typed, Flights, FetchTypes
<1>4. LeasesOwned'
  BY <1>0 DEF FetchIInv, LeasesOwned, Acquire
<1>5. Permits'
  BY <1>0, BudgetStays DEF FetchIInv, Permits, QueueSound, PermitsOwned
<1>6. PinsServed'
  <2>1. PICK i \in Cached(m) : pins' = [pins EXCEPT ![c] = entries[i]]
    BY <1>0 DEF Acquire
  <2>2. entries[i].id = m /\ pins \in [Caller -> Entry \union {None}]
    BY <2>1 DEF Cached, FetchIInv, ArenaIInv, TypeOK, Caller
  <2>3. pins'[c].id = m /\ \A b \in Caller : b # c => pins'[b] = pins[b]
    BY <2>1, <2>2
  <2> QED BY <1>2, <2>3 DEF FetchIInv, PinsServed
<1>7. Verdicts'
  BY <1>0, VerdictsStay DEF FetchIInv, Verdicts
<1> QED BY <1>1, <1>3, <1>4, <1>5, <1>6, <1>7 DEF FetchIInv

\* A segment lately found missing is refused.
LEMMA RequestMissedStep ==
  ASSUME FetchIInv, NEW c \in Caller, NEW m \in Id, RequestMissed(c, m)
  PROVE  FetchIInv'
<1>0. /\ Free(c) /\ Put(c, "failed", m) /\ UNCHANGED arenaVars /\ UNCHANGED budgetVars
      /\ UNCHANGED <<flight, inflight, running, disk, missed, walk>>
  BY DEF RequestMissed
<1>1. ArenaIInv' /\ leases' = leases /\ pins' = pins /\ UNCHANGED <<handle, waiters>>
  BY <1>0, ArenaStays, BudgetStays DEF FetchIInv
<1>2. /\ caller' \in [Caller -> CallerType] /\ caller'[c].st = "failed"
      /\ \A b \in Caller : b # c => caller'[b] = caller[b]
  BY <1>0, PutCaller DEF FetchIInv
<1>3. Flights'
  BY <1>0, <1>2, FlightsQuiet DEF FetchIInv, Free, Typed, Flights, FetchTypes
<1>4. LeasesOwned' /\ Permits'
  BY <1>0, <1>1 DEF FetchIInv, LeasesOwned, Permits, QueueSound, PermitsOwned
<1>5. PinsServed'
  BY <1>0, <1>1, <1>2, PinsStay DEF FetchIInv, Free
<1>6. Verdicts'
  BY <1>0, VerdictsStay DEF FetchIInv, Verdicts
<1> QED BY <1>1, <1>3, <1>4, <1>5, <1>6 DEF FetchIInv

\* A caller joins a flight under way.
LEMMA RequestJoinStep ==
  ASSUME FetchIInv, NEW c \in Caller, NEW m \in Id, RequestJoin(c, m)
  PROVE  FetchIInv'
<1>0. /\ Free(c) /\ Put(c, "waiting", m) /\ UNCHANGED arenaVars /\ UNCHANGED budgetVars
      /\ UNCHANGED <<inflight, running, disk, missed, walk>>
  BY DEF RequestJoin
<1>1. ArenaIInv' /\ leases' = leases /\ pins' = pins /\ UNCHANGED <<handle, waiters>>
  BY <1>0, ArenaStays, BudgetStays DEF FetchIInv
<1>2. /\ \A b \in Caller : b # c => caller'[b] = caller[b]
      /\ Typed /\ flight \in [Flight -> FlightType]
  BY <1>0, PutCaller DEF FetchIInv, Flights, FetchTypes, Typed
<1>3. PICK f \in Flight : inflight[m] = f /\ flight' = [flight EXCEPT ![f].waiters = @ \union {c}]
  BY DEF RequestJoin, Joinable
<1>4. flight[f].id = m
  BY <1>3 DEF FetchIInv, Flights, SingleFlight
<1>5. /\ flight' \in [Flight -> FlightType] /\ OthersFly(f)
      /\ flight'[f].id = flight[f].id /\ flight'[f].aborted = flight[f].aborted
      /\ flight'[f].phase = flight[f].phase /\ flight'[f].lease = flight[f].lease
      /\ flight'[f].waiters = flight[f].waiters \union {c}
  BY <1>2, <1>3 DEF FlightType, OthersFly
<1>6. Flights'
  BY <1>0, <1>2, <1>3, <1>4, <1>5, FlightsJoin DEF FetchIInv, Free, Put
<1>7. LeasesOwned'
  BY <1>1, <1>5, LeasesMove DEF FetchIInv, LeasesStay, OthersFly
<1>8. Permits'
  BY <1>1, <1>5, PermitsMove DEF FetchIInv, PermitsStay, OthersFly
<1>9. PinsServed'
  BY <1>0, <1>1, <1>2, PinsStay DEF FetchIInv, Free
<1>10. Verdicts'
  BY <1>0, <1>5, VerdictsStay DEF FetchIInv, Verdicts, OthersFly
<1> QED BY <1>1, <1>6, <1>7, <1>8, <1>9, <1>10 DEF FetchIInv

\* A caller starts a flight.
LEMMA RequestNewStep ==
  ASSUME FetchIInv, NEW c \in Caller, NEW m \in Id, RequestNew(c, m)
  PROVE  FetchIInv'
<1>0. /\ Free(c) /\ Put(c, "waiting", m) /\ UNCHANGED arenaVars /\ UNCHANGED budgetVars
      /\ UNCHANGED <<running, disk, missed, walk>>
      /\ \A g \in Flight : inflight[m] # g
  BY DEF RequestNew, Joinable
<1>1. ArenaIInv' /\ leases' = leases /\ pins' = pins /\ UNCHANGED <<handle, waiters>>
  BY <1>0, ArenaStays, BudgetStays DEF FetchIInv
<1>2. /\ \A b \in Caller : b # c => caller'[b] = caller[b]
      /\ Typed /\ flight \in [Flight -> FlightType]
  BY <1>0, PutCaller DEF FetchIInv, Flights, FetchTypes, Typed
<1>3. PICK f \in Flight :
        /\ ~Active(f) /\ inflight' = [inflight EXCEPT ![m] = f]
        /\ flight' = [flight EXCEPT ![f] = [NoFlight EXCEPT !.id = m, !.phase = "disk", !.waiters = {c}]]
  BY DEF RequestNew
<1>4. PICK d : d = [NoFlight EXCEPT !.id = m, !.phase = "disk", !.waiters = {c}]
  OBVIOUS
<1>5. /\ d \in FlightType /\ d.id = m /\ ~d.aborted /\ d.phase = "disk" /\ d.lease = None /\ d.waiters = {c}
  BY <1>4 DEF NoFlight, FlightType, Phase
<1>6. flight' \in [Flight -> FlightType] /\ OthersFly(f) /\ flight'[f] = d
  BY <1>2, <1>3, <1>4, <1>5 DEF OthersFly
<1>7. flight[f].lease = None /\ flight[f].phase = "idle"
  BY <1>3, FlightHas DEF FetchIInv, NoFlight
<1>8. Flights'
  <2>1. /\ caller[c].st # "waiting" /\ caller' = [caller EXCEPT ![c] = [st |-> "waiting", id |-> m]]
        /\ Flights /\ \A g \in Flight : inflight[m] # g
    BY <1>0 DEF FetchIInv, Free, Put
  <2>2. /\ flight'[f].id = m /\ ~flight'[f].aborted /\ flight'[f].phase = "disk"
        /\ flight'[f].lease = None /\ flight'[f].waiters = {c}
    BY <1>5, <1>6
  <2> QED BY <1>2, <1>3, <1>6, <2>1, <2>2, FlightsNew
<1>9. LeasesOwned'
  BY <1>1, <1>5, <1>6, <1>7, LeasesMove DEF FetchIInv, LeasesStay, OthersFly
<1>10. Permits'
  BY <1>1, <1>5, <1>6, <1>7, PermitsMove DEF FetchIInv, PermitsStay, OthersFly
<1>11. PinsServed'
  BY <1>0, <1>1, <1>2, PinsStay DEF FetchIInv, Free
<1>12. Verdicts'
  BY <1>0, <1>5, <1>6, VerdictsStay DEF FetchIInv, Verdicts, OthersFly
<1> QED BY <1>1, <1>8, <1>9, <1>10, <1>11, <1>12 DEF FetchIInv

\* A reader lets go of what it was served.
LEMMA DoneStep ==
  ASSUME FetchIInv, NEW c \in Caller, Done(c)
  PROVE  FetchIInv'
<1>0. /\ caller[c].st = "served" /\ Put(c, "idle", None) /\ UNCHANGED budgetVars
      /\ UNCHANGED <<flight, inflight, running, disk, missed, walk>>
      /\ IF pins[c] # None THEN ReleasePin(c) ELSE UNCHANGED arenaVars
  BY DEF Done
<1>1. ArenaIInv' /\ leases' = leases /\ pins'[c] = None /\ \A b \in Caller : b # c => pins'[b] = pins[b]
  <2>1. CASE pins[c] # None
    <3>1. leases' = leases /\ pins' = [pins EXCEPT ![c] = None] /\ pins \in [Caller -> Entry \union {None}]
      BY <1>0, <2>1 DEF ReleasePin, FetchIInv, ArenaIInv, TypeOK, Caller
    <3>2. ArenaIInv'
      BY <1>0, <2>1, ReleasePinStep DEF FetchIInv, Caller
    <3> QED BY <3>1, <3>2
  <2>2. CASE pins[c] = None
    BY <1>0, <2>2, ArenaStays DEF FetchIInv
  <2> QED BY <2>1, <2>2
<1>2. /\ caller' \in [Caller -> CallerType] /\ caller'[c].st = "idle"
      /\ \A b \in Caller : b # c => caller'[b] = caller[b]
  BY <1>0, PutCaller DEF FetchIInv
<1>3. Flights'
  BY <1>0, <1>2, FlightsQuiet DEF FetchIInv, Typed, Flights, FetchTypes
<1>4. LeasesOwned'
  BY <1>0, <1>1 DEF FetchIInv, LeasesOwned
<1>5. Permits'
  BY <1>0, BudgetStays DEF FetchIInv, Permits, QueueSound, PermitsOwned
<1>6. PinsServed'
  BY <1>1, <1>2 DEF FetchIInv, PinsServed
<1>7. Verdicts'
  BY <1>0, VerdictsStay DEF FetchIInv, Verdicts
<1> QED BY <1>1, <1>3, <1>4, <1>5, <1>6, <1>7 DEF FetchIInv

\* A waiting caller aborts; the last one cancels the flight, and takes its
\* waiting acquire back.
LEMMA AbortCallerStep ==
  ASSUME FetchIInv, NEW c \in Caller, AbortCaller(c)
  PROVE  FetchIInv'
<1>0. /\ caller[c].st = "waiting" /\ Put(c, "failed", caller[c].id) /\ UNCHANGED arenaVars
      /\ UNCHANGED <<running, disk, missed, walk>>
  BY DEF AbortCaller
<1>1. ArenaIInv' /\ leases' = leases /\ pins' = pins
  BY <1>0, ArenaStays DEF FetchIInv
<1>2. /\ Typed /\ flight \in [Flight -> FlightType] /\ caller \in [Caller -> CallerType]
      /\ caller' = [caller EXCEPT ![c] = [st |-> "failed", id |-> caller[c].id]]
  BY <1>0 DEF FetchIInv, Flights, FetchTypes, Typed, Put
<1>3. \A b \in Caller : b # c => caller'[b] = caller[b]
  BY <1>2
<1>4. PICK f \in Flight :
        /\ c \in flight[f].waiters
        /\ IF Cancels(f, c)
             THEN /\ Unregister(f)
                  /\ IF handle[f] = "queued"
                       THEN /\ Download!Abort(f)
                            /\ flight' = [flight EXCEPT ![f].waiters = @ \ {c}, ![f].aborted = TRUE,
                                                        ![f].phase = "failed"]
                       ELSE /\ flight' = [flight EXCEPT ![f].waiters = @ \ {c}, ![f].aborted = TRUE]
                            /\ UNCHANGED budgetVars
             ELSE /\ flight' = [flight EXCEPT ![f].waiters = @ \ {c}]
                  /\ UNCHANGED <<inflight, budgetVars>>
  BY DEF AbortCaller
<1>5. Active(f) /\ flight[f] \in FlightType
  <2>1. flight[f].waiters # {}
    BY <1>4
  <2> QED BY <2>1, FlightHas DEF FetchIInv, NoFlight
<1>6. /\ flight' \in [Flight -> FlightType] /\ OthersFly(f)
      /\ flight'[f].id = flight[f].id /\ flight'[f].lease = flight[f].lease
      /\ flight'[f].waiters = flight[f].waiters \ {c}
  BY <1>2, <1>4 DEF FlightType, OthersFly, Phase
<1>7. ASSUME Cancels(f, c) /\ handle[f] = "queued" PROVE Flights' /\ Permits'
  <2>1. flight'[f].aborted /\ flight'[f].phase = "failed"
    BY <1>2, <1>4, <1>7 DEF FlightType
  <2>2. flight[f].waiters = {c} /\ Unregister(f) /\ Download!Abort(f)
    BY <1>4, <1>7 DEF Cancels
  <2>3. Shaped(flight'[f])
    BY <1>5, <1>6, <2>1, FlightHas DEF FetchIInv, Shaped
  <2>4. Flights'
    BY <1>2, <1>4, <1>6, <2>1, <2>2, <2>3, FlightsLeave DEF FetchIInv
  <2>5. Permits'
    <3>1. PermitMoves(f)
      BY <1>6, <2>1, <2>2, AbortLeaves DEF FetchIInv, Permits, PermitMoves, OthersFly
    <3> QED BY <3>1, PermitsMove DEF FetchIInv
  <2> QED BY <2>4, <2>5
<1>8. ASSUME ~(Cancels(f, c) /\ handle[f] = "queued") PROVE Flights' /\ Permits'
  <2>1. /\ flight'[f].phase = flight[f].phase /\ UNCHANGED budgetVars
        /\ \/ flight'[f].aborted = flight[f].aborted /\ inflight' = inflight
           \/ flight'[f].aborted /\ flight[f].waiters = {c} /\ Unregister(f)
    BY <1>2, <1>4, <1>8 DEF FlightType, Cancels
  <2>2. Shaped(flight'[f]) /\ flight'[f].phase # "idle"
    BY <1>5, <1>6, <2>1, FlightHas DEF FetchIInv, Flights, FlightsShaped, Shaped, Active
  <2>3. Flights'
    BY <1>2, <1>4, <1>6, <2>1, <2>2, FlightsLeave DEF FetchIInv
  <2>4. Permits'
    BY <1>6, <2>1, BudgetStays, PermitsMove DEF FetchIInv, PermitsStay, OthersFly
  <2> QED BY <2>3, <2>4
<1>9. LeasesOwned'
  BY <1>1, <1>6, LeasesMove DEF FetchIInv, LeasesStay, OthersFly
<1>10. PinsServed'
  BY <1>0, <1>1, <1>3, PinsStay DEF FetchIInv
<1>11. Verdicts'
  <2>1. flight'[f].phase \in {flight[f].phase, "failed"}
    BY <1>2, <1>4 DEF FlightType
  <2> QED BY <1>0, <1>6, <2>1, VerdictsStay DEF FetchIInv, Verdicts, OthersFly
<1> QED BY <1>1, <1>7, <1>8, <1>9, <1>10, <1>11 DEF FetchIInv

--------------------------------------------------------------------------------
(* A flight's way *)

\* Only what is known of the providers changes.
LEMMA NothingElse ==
  ASSUME FetchIInv, UNCHANGED arenaVars, UNCHANGED budgetVars,
         UNCHANGED <<flight, inflight, running, caller, disk, missed>>, Verdicts'
  PROVE  FetchIInv'
<1>1. ArenaIInv' /\ leases' = leases /\ pins' = pins /\ UNCHANGED <<handle, waiters>>
  BY ArenaStays, BudgetStays DEF FetchIInv
<1>2. Flights'
  BY FlightsQuiet DEF FetchIInv, Flights, FetchTypes, Typed
<1>3. LeasesOwned' /\ Permits' /\ PinsServed'
  BY <1>1 DEF FetchIInv, LeasesOwned, Permits, QueueSound, PermitsOwned, PinsServed
<1> QED BY <1>1, <1>2, <1>3 DEF FetchIInv

\* What a flight not yet settled has in its hands.
LEMMA LeaseIn ==
  ASSUME FetchIInv, NEW f \in Flight
  PROVE  /\ flight[f] \in FlightType
         /\ flight[f].lease # None => flight[f].lease \in leases /\ flight[f].lease \in Slot
BY FlightHas DEF FetchIInv, LeasesOwned, FlightType

\* The disk knows the segment.
LEMMA DiskFoundStep ==
  ASSUME FetchIInv, NEW f \in Flight, DiskFound(f)
  PROVE  FetchIInv'
<1>0. /\ flight[f].phase = "disk" /\ UNCHANGED arenaVars /\ UNCHANGED budgetVars
      /\ UNCHANGED <<inflight, running, caller, disk, missed, walk>>
      /\ flight' = [flight EXCEPT ![f].phase = "reading"]
  BY DEF DiskFound
<1>1. ArenaIInv' /\ leases' = leases /\ pins' = pins /\ UNCHANGED <<handle, waiters>>
  BY <1>0, ArenaStays, BudgetStays DEF FetchIInv
<1>2. Typed /\ flight \in [Flight -> FlightType] /\ Active(f) /\ flight[f].lease = None
  BY <1>0 DEF FetchIInv, Flights, FetchTypes, FlightsShaped, Shaped, Typed, Active
<1>3. Advances(f) /\ flight'[f].phase = "reading" /\ flight'[f].lease = flight[f].lease
  BY <1>0, <1>2 DEF FlightType, Advances, OthersFly, Phase
<1>4. Shaped(flight'[f])
  BY <1>2, <1>3, FlightHas DEF FetchIInv, Shaped, Advances
<1>5. Flights'
  BY <1>0, <1>2, <1>3, <1>4, FlightsAdvance DEF FetchIInv
<1>6. LeasesOwned'
  BY <1>1, <1>3, LeasesMove DEF FetchIInv, LeasesStay, Advances, OthersFly
<1>7. Permits'
  BY <1>0, <1>1, <1>3, PermitsMove DEF FetchIInv, PermitsStay, Advances, OthersFly
<1>8. PinsServed'
  BY <1>0, <1>1 DEF FetchIInv, PinsServed
<1>9. Verdicts'
  BY <1>0, <1>3, VerdictsStay DEF FetchIInv, Verdicts, Advances, OthersFly
<1> QED BY <1>9, <1>1, <1>5, <1>6, <1>7, <1>8 DEF FetchIInv

\* The record d takes f's place: f goes on.
LEMMA GoesOn ==
  ASSUME Flights, NEW f \in Flight, NEW d \in FlightType, flight' = [flight EXCEPT ![f] = d],
         d.id = flight[f].id, d.aborted = flight[f].aborted, d.waiters = flight[f].waiters, d.phase # "idle"
  PROVE  Advances(f) /\ flight'[f] = d
<1>1. flight \in [Flight -> FlightType]
  BY DEF Flights, FetchTypes
<1> QED BY <1>1 DEF Advances, OthersFly

\* The body is in a slot just leased.
LEMMA LandsInSlot ==
  ASSUME Flights, NEW f \in Flight, NEW s \in Slot, NEW ph \in Phase, ph # "idle",
         \/ flight' = [flight EXCEPT ![f].phase = ph, ![f].lease = s, ![f].inSlot = TRUE]
         \/ flight' = [flight EXCEPT ![f].lease = s, ![f].inSlot = TRUE, ![f].phase = ph]
  PROVE  Advances(f) /\ flight'[f].phase = ph /\ flight'[f].lease = s
<1>1. flight \in [Flight -> FlightType]
  BY DEF Flights, FetchTypes
<1>2. PICK r \in FlightType : r = flight[f]
  BY <1>1
<1>3. CASE flight' = [flight EXCEPT ![f].phase = ph, ![f].lease = s, ![f].inSlot = TRUE]
  <2>1. PICK d : d = [r EXCEPT !.phase = ph, !.lease = s, !.inSlot = TRUE]
    OBVIOUS
  <2>2. /\ d \in FlightType /\ d.phase = ph /\ d.lease = s
        /\ d.id = r.id /\ d.aborted = r.aborted /\ d.waiters = r.waiters
    BY <2>1 DEF FlightType
  <2>3. flight' = [flight EXCEPT ![f] = d]
    BY <1>1, <1>2, <1>3, <2>1
  <2> QED BY <1>2, <2>2, <2>3, GoesOn
<1>4. CASE flight' = [flight EXCEPT ![f].lease = s, ![f].inSlot = TRUE, ![f].phase = ph]
  <2>1. PICK d : d = [r EXCEPT !.lease = s, !.inSlot = TRUE, !.phase = ph]
    OBVIOUS
  <2>2. /\ d \in FlightType /\ d.phase = ph /\ d.lease = s
        /\ d.id = r.id /\ d.aborted = r.aborted /\ d.waiters = r.waiters
    BY <2>1 DEF FlightType
  <2>3. flight' = [flight EXCEPT ![f] = d]
    BY <1>1, <1>2, <1>4, <2>1
  <2> QED BY <1>2, <2>2, <2>3, GoesOn
<1> QED BY <1>3, <1>4

\* The slot a flight is about to lease, and what it writes there.
LEMMA LeasesSlot ==
  ASSUME ArenaIInv, NEW need \in Need, NEW s \in Slot, Lease(need, s),
         NEW m \in Id \union {None}, content' = [content EXCEPT ![s] = m]
  PROVE  ArenaIInv' /\ s \notin leases /\ leases' = leases \union {s} /\ pins' = pins
<1>1. Writes(s)
  BY DEF ArenaIInv, TypeOK, Writes
<1> QED BY <1>1, LeaseStep, LeaseFresh

\* The file is read: the body goes into a leased slot when one is to be had.
LEMMA DiskHitStep ==
  ASSUME FetchIInv, NEW f \in Flight, DiskHit(f)
  PROVE  FetchIInv'
<1>0. /\ flight[f].phase = "reading" /\ UNCHANGED budgetVars
      /\ UNCHANGED <<inflight, caller, missed, walk>> /\ running' = f /\ disk' = disk \union {flight[f].id}
  BY DEF DiskHit
<1>1. UNCHANGED <<handle, waiters>>
  BY <1>0, BudgetStays
<1>2. /\ flight \in [Flight -> FlightType] /\ Active(f) /\ flight[f].lease = None /\ flight[f].id \in Id
  BY <1>0, FlightHas DEF FetchIInv, Flights, FetchTypes, FlightsShaped, Shaped, Active
<1>3. Typed
  BY <1>0, <1>2 DEF FetchIInv, Flights, FetchTypes, Typed
<1>4. /\ ArenaIInv' /\ pins' = pins /\ LeasesOwned'
      /\ Advances(f) /\ flight'[f].phase = "landed"
  <2>1. PICK need \in Need :
          \/ \E s \in Slot :
               /\ Lease(need, s)
               /\ content' = [content EXCEPT ![s] = flight[f].id]
               /\ flight' = [flight EXCEPT ![f].phase = "landed", ![f].lease = s, ![f].inSlot = TRUE]
          \/ CheckoutFails(need) /\ flight' = [flight EXCEPT ![f].phase = "landed"]
    BY DEF DiskHit
  <2>2. ASSUME NEW s \in Slot, Lease(need, s), content' = [content EXCEPT ![s] = flight[f].id],
               flight' = [flight EXCEPT ![f].phase = "landed", ![f].lease = s, ![f].inSlot = TRUE]
        PROVE  ArenaIInv' /\ pins' = pins /\ LeasesOwned' /\ Advances(f) /\ flight'[f].phase = "landed"
    <3>1. ArenaIInv' /\ s \notin leases /\ leases' = leases \union {s} /\ pins' = pins
      BY <1>2, <2>2, LeasesSlot DEF FetchIInv
    <3>2. Advances(f) /\ flight'[f].phase = "landed" /\ flight'[f].lease = s
      BY <2>2, LandsInSlot DEF FetchIInv, Phase
    <3>3. LeasesOwned'
      BY <1>2, <3>1, <3>2, LeasesMove DEF FetchIInv, LeaseTaken, Advances, OthersFly
    <3> QED BY <3>1, <3>2, <3>3
  <2>3. ASSUME CheckoutFails(need), flight' = [flight EXCEPT ![f].phase = "landed"]
        PROVE  ArenaIInv' /\ pins' = pins /\ LeasesOwned' /\ Advances(f) /\ flight'[f].phase = "landed"
    <3>1. ArenaIInv' /\ leases' = leases /\ pins' = pins
      BY <2>3, CheckoutFailsStep DEF FetchIInv, CheckoutFails
    <3>2. Advances(f) /\ flight'[f].phase = "landed" /\ flight'[f].lease = flight[f].lease
      BY <1>2, <2>3 DEF FlightType, Advances, OthersFly, Phase
    <3>3. LeasesOwned'
      BY <3>1, <3>2, LeasesMove DEF FetchIInv, LeasesStay, Advances, OthersFly
    <3> QED BY <3>1, <3>2, <3>3
  <2> QED BY <2>1, <2>2, <2>3
<1>5. Shaped(flight'[f])
  BY <1>2, <1>4 DEF Shaped, Advances
<1>6. Flights'
  BY <1>0, <1>2, <1>3, <1>4, <1>5, FlightsAdvance DEF FetchIInv
<1>7. Permits'
  BY <1>0, <1>1, <1>4, PermitsMove DEF FetchIInv, PermitsStay, Advances, OthersFly
<1>8. PinsServed'
  BY <1>0, <1>4 DEF FetchIInv, PinsServed
<1>9. Verdicts'
  BY <1>0, <1>4, VerdictsStay DEF FetchIInv, Verdicts, Advances, OthersFly
<1> QED BY <1>9, <1>4, <1>6, <1>7, <1>8 DEF FetchIInv

\* The disk does not know it: the flight asks the budget, or was cancelled.
LEMMA DiskMissStep ==
  ASSUME FetchIInv, NEW f \in Flight, DiskMiss(f)
  PROVE  FetchIInv'
<1>0. /\ flight[f].phase \in {"disk", "reading"} /\ UNCHANGED arenaVars
      /\ UNCHANGED <<inflight, running, caller, missed>> /\ disk' = disk \ {flight[f].id}
      /\ FreshWalk(f)
  BY DEF DiskMiss
<1>1. ArenaIInv' /\ leases' = leases /\ pins' = pins
  BY <1>0, ArenaStays DEF FetchIInv
<1>2. /\ flight \in [Flight -> FlightType] /\ Active(f) /\ flight[f].id \in Id
      /\ Typed
  BY <1>0, FlightHas DEF FetchIInv, Flights, FetchTypes, Active, Typed
<1>3. /\ Advances(f) /\ flight'[f].lease = flight[f].lease
      /\ Permits' /\ flight'[f].phase \in {"fetch", "failed"}
  <2>1. CASE flight[f].aborted
    <3>1. flight' = [flight EXCEPT ![f].phase = "failed"] /\ UNCHANGED budgetVars
      BY <2>1 DEF DiskMiss
    <3>2. Advances(f) /\ flight'[f].phase = "failed" /\ flight'[f].lease = flight[f].lease
      BY <1>2, <3>1 DEF FlightType, Advances, OthersFly, Phase
    <3>3. PermitsStay
      BY <1>0, <3>1, <3>2, BudgetStays DEF PermitsStay, Advances, OthersFly
    <3> QED BY <3>2, <3>3, PermitsMove DEF FetchIInv
  <2>2. CASE ~flight[f].aborted
    <3>1. /\ flight' = [flight EXCEPT ![f].phase = "fetch"]
          /\ Download!AcquireNow(f) \/ Download!AcquireQueued(f, Download!High)
      BY <2>2 DEF DiskMiss
    <3>2. Advances(f) /\ flight'[f].phase = "fetch" /\ flight'[f].lease = flight[f].lease
      BY <1>2, <3>1 DEF FlightType, Advances, OthersFly, Phase
    <3>3. QueueSound' /\ handle'[f] \in {"queued", "held"} /\ OthersAsk(f)
      BY <3>1, AcquireAsks DEF FetchIInv, Permits
    <3>4. PermitMoves(f)
      BY <3>2, <3>3 DEF PermitMoves, Advances, OthersFly
    <3> QED BY <3>2, <3>4, PermitsMove DEF FetchIInv
  <2> QED BY <2>1, <2>2
<1>4. Shaped(flight'[f])
  BY <1>2, <1>3 DEF Shaped, Advances
<1>5. Flights'
  BY <1>0, <1>2, <1>3, <1>4, FlightsAdvance DEF FetchIInv
<1>6. LeasesOwned'
  BY <1>1, <1>3, LeasesMove DEF FetchIInv, LeasesStay, Advances, OthersFly
<1>7. PinsServed'
  BY <1>0, <1>1 DEF FetchIInv, PinsServed
<1>8. Verdicts'
  BY <1>0, <1>3, VerdictsForget DEF FetchIInv, Advances
<1> QED BY <1>1, <1>3, <1>5, <1>6, <1>7, <1>8 DEF FetchIInv

\* An article is decoded into the flight's slot, or into a buffer.
LEMMA DecodeIntoKeeps ==
  ASSUME FetchIInv, NEW f \in Flight, NEW m \in Id \union {None}, NEW ph \in Phase, ph # "idle",
         DecodeInto(f, m, ph)
  PROVE  /\ ArenaIInv' /\ pins' = pins /\ LeasesOwned'
         /\ Advances(f) /\ flight'[f].phase = ph
<1>1. flight \in [Flight -> FlightType]
  BY DEF FetchIInv, Flights, FetchTypes
<1>2. PICK need \in Need :
        \/ /\ flight[f].lease = None
           /\ \E s \in Slot :
                /\ Lease(need, s)
                /\ content' = [content EXCEPT ![s] = m]
                /\ flight' = [flight EXCEPT ![f].lease = s, ![f].inSlot = TRUE, ![f].phase = ph]
        \/ /\ flight[f].lease = None
           /\ CheckoutFails(need)
           /\ flight' = [flight EXCEPT ![f].phase = ph]
        \/ /\ flight[f].lease # None
           /\ Decode(flight[f].lease, m)
           /\ flight' = [flight EXCEPT ![f].inSlot = TRUE, ![f].phase = ph]
  BY DEF DecodeInto
<1>3. ASSUME flight[f].lease = None, NEW s \in Slot, Lease(need, s), content' = [content EXCEPT ![s] = m],
             flight' = [flight EXCEPT ![f].lease = s, ![f].inSlot = TRUE, ![f].phase = ph]
      PROVE  ArenaIInv' /\ pins' = pins /\ LeasesOwned' /\ Advances(f) /\ flight'[f].phase = ph
  <2>1. ArenaIInv' /\ s \notin leases /\ leases' = leases \union {s} /\ pins' = pins
    BY <1>3, LeasesSlot DEF FetchIInv
  <2>2. Advances(f) /\ flight'[f].phase = ph /\ flight'[f].lease = s
    BY <1>3, LandsInSlot DEF FetchIInv
  <2>3. LeasesOwned'
    BY <1>3, <2>1, <2>2, LeasesMove DEF FetchIInv, LeaseTaken, Advances, OthersFly
  <2> QED BY <2>1, <2>2, <2>3
<1>4. ASSUME CheckoutFails(need), flight' = [flight EXCEPT ![f].phase = ph]
      PROVE  ArenaIInv' /\ pins' = pins /\ LeasesOwned' /\ Advances(f) /\ flight'[f].phase = ph
  <2>1. ArenaIInv' /\ leases' = leases /\ pins' = pins
    BY <1>4, CheckoutFailsStep DEF FetchIInv, CheckoutFails
  <2>2. Advances(f) /\ flight'[f].phase = ph /\ flight'[f].lease = flight[f].lease
    BY <1>1, <1>4 DEF FlightType, Advances, OthersFly
  <2>3. LeasesOwned'
    BY <2>1, <2>2, LeasesMove DEF FetchIInv, LeasesStay, Advances, OthersFly
  <2> QED BY <2>1, <2>2, <2>3
<1>5. ASSUME flight[f].lease # None, Decode(flight[f].lease, m),
             flight' = [flight EXCEPT ![f].inSlot = TRUE, ![f].phase = ph]
      PROVE  ArenaIInv' /\ pins' = pins /\ LeasesOwned' /\ Advances(f) /\ flight'[f].phase = ph
  <2>1. ArenaIInv' /\ leases' = leases /\ pins' = pins
    BY <1>5, LeaseIn, DecodeStep DEF FetchIInv, Decode
  <2>2. Advances(f) /\ flight'[f].phase = ph /\ flight'[f].lease = flight[f].lease
    BY <1>1, <1>5 DEF FlightType, Advances, OthersFly
  <2>3. LeasesOwned'
    BY <2>1, <2>2, LeasesMove DEF FetchIInv, LeasesStay, Advances, OthersFly
  <2> QED BY <2>1, <2>2, <2>3
<1> QED BY <1>2, <1>3, <1>4, <1>5

\* A flight on the wire goes on, its permit kept or returned.
LEMMA OnWireGoesOn ==
  ASSUME FetchIInv, NEW f \in Flight, OnWire(f), ArenaIInv', pins' = pins, LeasesOwned', Advances(f),
         \/ flight'[f].phase = "fetch" /\ UNCHANGED budgetVars
         \/ flight'[f].phase \in {"landed", "failed"} /\ ReturnsPermit(f),
         Typed, UNCHANGED <<inflight, caller>>, Verdicts'
  PROVE  FetchIInv'
<1>1. Active(f) /\ flight[f].id \in Id /\ flight[f].phase = "fetch"
  BY FlightHas DEF FetchIInv, OnWire, Active
<1>2. Shaped(flight'[f])
  BY <1>1 DEF Shaped, Advances
<1>3. Flights'
  BY <1>1, <1>2, FlightsAdvance DEF FetchIInv
<1>4. CASE flight'[f].phase = "fetch" /\ UNCHANGED budgetVars
  <2>1. PermitsStay
    BY <1>1, <1>4, BudgetStays DEF PermitsStay, Advances, OthersFly
  <2>2. Permits'
    BY <2>1, PermitsMove DEF FetchIInv
  <2> QED BY <1>3, <2>2 DEF FetchIInv, PinsServed
<1>5. CASE flight'[f].phase \in {"landed", "failed"} /\ ReturnsPermit(f)
  <2>1. QueueSound' /\ handle'[f] \notin {"queued", "held"} /\ OthersAsk(f)
    BY <1>5, ReleaseHandsOn DEF FetchIInv, Permits, ReturnsPermit
  <2>2. PermitMoves(f)
    BY <1>5, <2>1 DEF PermitMoves, Advances, OthersFly
  <2>3. Permits'
    BY <2>2, PermitsMove DEF FetchIInv
  <2> QED BY <1>3, <2>3 DEF FetchIInv, PinsServed
<1> QED BY <1>4, <1>5

\* A candidate, whole copy or not, is asked and comes to nothing; one that holds
\* the segment came to trouble.
LEMMA VerdictsAsk ==
  ASSUME FetchIInv, NEW f \in Flight, NEW p \in Provider, NEW what \in {"loss", "trouble"},
         Asked(f, p, what), p \in Copies[flight[f].id] => what = "trouble", missed' = missed,
         \A g \in Flight : flight'[g].id = flight[g].id /\ flight'[g].phase = flight[g].phase
  PROVE  Verdicts'
<1>1. walk \in [Flight -> WalkType] /\ MissesHonest'
  BY DEF FetchIInv, Verdicts, MissesHonest
<1>2. PICK w \in WalkType : w = walk[f]
  BY <1>1
<1>3. PICK v : v = [asked |-> w.asked \union {p}, heard |-> w.heard \union {what}]
  OBVIOUS
<1>4. v \in WalkType
  BY <1>2, <1>3 DEF WalkType
<1>5. walk' = [walk EXCEPT ![f] = v]
  BY <1>1, <1>2, <1>3 DEF Asked, WalkType
<1>6. walk' \in [Flight -> WalkType]
  BY <1>1, <1>4, <1>5
<1>7. ASSUME NEW g \in Flight PROVE WalkSound(g)'
  <2>1. CASE g = f
    <3>1. walk'[g].asked = w.asked \union {p} /\ walk'[g].heard = w.heard \union {what}
      BY <1>1, <1>3, <1>5, <2>1
    <3>2. WalkSound(f)
      BY DEF FetchIInv, Verdicts
    <3> QED BY <1>2, <2>1, <3>1, <3>2 DEF WalkSound
  <2>2. CASE g # f
    <3>1. walk'[g] = walk[g] /\ WalkSound(g)
      BY <1>1, <1>5, <2>2 DEF FetchIInv, Verdicts
    <3> QED BY <3>1 DEF WalkSound
  <2> QED BY <2>1, <2>2
<1> QED BY <1>1, <1>6, <1>7 DEF Verdicts

\* One provider's copy is corrupt.
LEMMA WireCorruptStep ==
  ASSUME FetchIInv, NEW f \in Flight, NEW p \in Provider, WireCorrupt(f, p)
  PROVE  FetchIInv'
<1>1. /\ OnWire(f) /\ DecodeInto(f, None, "fetch") /\ UNCHANGED budgetVars
      /\ UNCHANGED <<inflight, running, caller, disk, missed>>
      /\ p \notin Copies[flight[f].id] /\ Asked(f, p, "loss")
  BY DEF WireCorrupt
<1>2. Typed
  BY <1>1 DEF FetchIInv, Flights, FetchTypes, Typed
<1>3. ArenaIInv' /\ pins' = pins /\ LeasesOwned' /\ Advances(f) /\ flight'[f].phase = "fetch"
  BY <1>1, DecodeIntoKeeps DEF Phase
<1>4. Verdicts'
  BY <1>1, <1>3, VerdictsAsk DEF Advances, OthersFly, OnWire
<1> QED BY <1>1, <1>2, <1>3, <1>4, OnWireGoesOn

\* One provider lacks the article, or cannot say.
LEMMA WireAnswerStep ==
  ASSUME FetchIInv, NEW f \in Flight, NEW p \in Provider, WireMissing(f, p) \/ WireTrouble(f, p)
  PROVE  FetchIInv'
<1>1. /\ UNCHANGED arenaVars /\ UNCHANGED budgetVars
      /\ UNCHANGED <<flight, inflight, running, caller, disk, missed>>
  BY DEF WireMissing, WireTrouble
<1>2. Verdicts'
  <2>1. PICK what \in {"loss", "trouble"} : Asked(f, p, what) /\ (p \in Copies[flight[f].id] => what = "trouble")
    BY DEF WireMissing, WireTrouble
  <2> QED BY <1>1, <2>1, VerdictsAsk
<1> QED BY <1>1, <1>2, NothingElse

\* The body decodes.
LEMMA WireServesStep ==
  ASSUME FetchIInv, NEW f \in Flight, NEW p \in Provider, WireServes(f, p)
  PROVE  FetchIInv'
<1>1. /\ OnWire(f) /\ DecodeInto(f, flight[f].id, "landed") /\ ReturnsPermit(f)
      /\ UNCHANGED <<inflight, running, caller, missed>> /\ disk' = disk \union {flight[f].id}
      /\ FreshWalk(f)
  BY DEF WireServes
<1>2. flight[f].id \in Id
  BY <1>1, FlightHas DEF FetchIInv, OnWire, Active
<1>3. Typed
  BY <1>1, <1>2 DEF FetchIInv, Flights, FetchTypes, Typed
<1>4. ArenaIInv' /\ pins' = pins /\ LeasesOwned' /\ Advances(f) /\ flight'[f].phase = "landed"
  BY <1>1, <1>2, DecodeIntoKeeps DEF Phase
<1>5. Verdicts'
  BY <1>1, <1>4, VerdictsForget DEF Advances
<1> QED BY <1>1, <1>3, <1>4, <1>5, OnWireGoesOn

\* The body decodes into a buffer of its own.
LEMMA WireServesOwnedStep ==
  ASSUME FetchIInv, NEW f \in Flight, NEW p \in Provider, WireServesOwned(f, p)
  PROVE  FetchIInv'
<1>1. /\ OnWire(f) /\ ReturnsPermit(f) /\ UNCHANGED arenaVars
      /\ flight' = [flight EXCEPT ![f].phase = "landed", ![f].inSlot = FALSE]
      /\ UNCHANGED <<inflight, running, caller, missed>> /\ disk' = disk \union {flight[f].id}
      /\ FreshWalk(f)
  BY DEF WireServesOwned
<1>2. flight[f].id \in Id /\ flight \in [Flight -> FlightType]
  BY <1>1, FlightHas DEF FetchIInv, OnWire, Active, Flights, FetchTypes
<1>3. Typed
  BY <1>1, <1>2 DEF FetchIInv, Flights, FetchTypes, Typed
<1>4. ArenaIInv' /\ leases' = leases /\ pins' = pins
  BY <1>1, ArenaStays DEF FetchIInv
<1>5. Advances(f) /\ flight'[f].phase = "landed" /\ flight'[f].lease = flight[f].lease
  BY <1>1, <1>2 DEF FlightType, Advances, OthersFly, Phase
<1>6. LeasesOwned'
  BY <1>4, <1>5, LeasesMove DEF FetchIInv, LeasesStay, Advances, OthersFly
<1>7. Verdicts'
  BY <1>1, <1>5, VerdictsForget DEF Advances
<1> QED BY <1>1, <1>3, <1>4, <1>5, <1>6, <1>7, OnWireGoesOn

\* A flight off the wire without a body: what a steady provider holds was asked
\* for there, so that the walk remembers trouble and the loss is not definitive.
LEMMA OffWireStep ==
  ASSUME FetchIInv, NEW f \in Flight, WireFails(f) \/ WireThrows(f)
  PROVE  FetchIInv'
<1>1. /\ OnWire(f) /\ ReturnsPermit(f) /\ UNCHANGED arenaVars
      /\ flight' = [flight EXCEPT ![f].phase = "failed"]
      /\ UNCHANGED <<inflight, running, caller, disk>> /\ FreshWalk(f)
      /\ \/ missed' = missed
         \/ /\ walk[f].asked \in CandidateSets /\ Definitive(walk[f].heard)
            /\ missed' = missed \union {flight[f].id}
  BY DEF WireFails, WireThrows
<1>2. flight[f].id \in Id /\ flight \in [Flight -> FlightType]
  BY <1>1, FlightHas DEF FetchIInv, OnWire, Active, Flights, FetchTypes
<1>3. missed' \intersect Available = {}
  <2>1. missed \intersect Available = {}
    BY DEF FetchIInv, Verdicts, MissesHonest
  <2>2. CASE walk[f].asked \in CandidateSets /\ Definitive(walk[f].heard)
    <3>1. \A p \in Copies[flight[f].id] : p \notin Steady
      BY <1>1, <2>2 DEF FetchIInv, Verdicts, WalkSound, OnWire, CandidateSets, Definitive
    <3> QED BY <1>1, <2>1, <3>1 DEF Available
  <2> QED BY <1>1, <2>1, <2>2
<1>4. Typed
  BY <1>1, <1>2 DEF FetchIInv, Flights, FetchTypes, Typed
<1>5. ArenaIInv' /\ leases' = leases /\ pins' = pins
  BY <1>1, ArenaStays DEF FetchIInv
<1>6. Advances(f) /\ flight'[f].phase = "failed" /\ flight'[f].lease = flight[f].lease
  BY <1>1, <1>2 DEF FlightType, Advances, OthersFly, Phase
<1>7. LeasesOwned'
  BY <1>5, <1>6, LeasesMove DEF FetchIInv, LeasesStay, Advances, OthersFly
<1>8. Verdicts'
  BY <1>1, <1>3, <1>6, VerdictsForget DEF Advances
<1> QED BY <1>1, <1>4, <1>5, <1>6, <1>7, <1>8, OnWireGoesOn

--------------------------------------------------------------------------------
(* Settling *)

\* A flight settles, its slot committed, given back or never had.
LEMMA Settles ==
  ASSUME FetchIInv, NEW f \in Flight, flight[f].phase \in {"landed", "failed"}, Unregister(f),
         NEW st \in {"served", "failed"}, Answer(flight[f].waiters, st),
         flight' = [flight EXCEPT ![f] = NoFlight], running' \in Flight \union {None},
         UNCHANGED budgetVars, UNCHANGED <<disk, missed, walk>>, ArenaIInv',
         IF flight[f].lease = None THEN leases' = leases ELSE leases' = leases \ {flight[f].lease},
         \A c \in Caller :
           IF c \in flight[f].waiters
             THEN pins'[c] = None \/ (st = "served" /\ pins'[c].id = flight[f].id)
             ELSE pins'[c] = pins[c]
  PROVE  FetchIInv'
<1>0. Active(f) /\ flight \in [Flight -> FlightType] /\ caller \in [Caller -> CallerType]
  BY DEF FetchIInv, Flights, FetchTypes, Active
<1>1. Typed
  BY DEF FetchIInv, Flights, FetchTypes, Typed
<1>2. Flights'
  BY <1>0, <1>1, FlightsSettle DEF FetchIInv
<1>3. flight'[f] = NoFlight /\ OthersFly(f) /\ NoFlight.lease = None /\ NoFlight.phase = "idle"
  BY <1>0 DEF OthersFly, NoFlight
<1>4. LeasesOwned'
  <2>1. CASE flight[f].lease = None
    <3>1. LeasesStay
      BY <1>3, <2>1 DEF LeasesStay, OthersFly
    <3> QED BY <3>1, LeasesMove DEF FetchIInv
  <2>2. CASE flight[f].lease # None
    <3>1. LeaseBack(f)
      BY <1>3, <2>2 DEF LeaseBack, OthersFly
    <3> QED BY <3>1, LeasesMove DEF FetchIInv
  <2> QED BY <2>1, <2>2
<1>5. Permits'
  <2>1. PermitsStay
    BY <1>3, BudgetStays DEF PermitsStay, OthersFly
  <2> QED BY <2>1, PermitsMove DEF FetchIInv
<1>6. PinsServed'
  <2> SUFFICES ASSUME NEW c \in Caller, pins'[c] # None
               PROVE  caller'[c].st = "served" /\ pins'[c].id = caller'[c].id
    BY DEF PinsServed
  <2>1. CASE c \in flight[f].waiters
    <3>1. caller'[c].st = st /\ caller'[c].id = caller[c].id
      BY <1>0, <2>1 DEF Answer, CallerType
    <3>2. caller[c].id = flight[f].id
      BY <2>1 DEF FetchIInv, Flights, Waits
    <3> QED BY <2>1, <3>1, <3>2
  <2>2. CASE c \notin flight[f].waiters
    <3>1. caller'[c] = caller[c]
      BY <1>0, <2>2 DEF Answer
    <3> QED BY <2>2, <3>1 DEF FetchIInv, PinsServed
  <2> QED BY <2>1, <2>2
<1>7. Verdicts'
  BY <1>3, VerdictsStay DEF FetchIInv, Verdicts, OthersFly
<1> QED BY <1>2, <1>4, <1>5, <1>6, <1>7 DEF FetchIInv

\* Who waits holds no pin.
LEMMA WaitersUnpinned ==
  ASSUME FetchIInv, NEW f \in Flight
  PROVE  flight[f].waiters \subseteq Caller /\ \A c \in flight[f].waiters : pins[c] = None
<1>1. flight[f].waiters \subseteq Caller
  BY FlightHas DEF FetchIInv
<1> QED BY <1>1 DEF FetchIInv, PinsServed, Flights, Waits

\* The body is delivered.
LEMMA DeliverStep ==
  ASSUME FetchIInv, NEW f \in Flight, Deliver(f)
  PROVE  FetchIInv'
<1>1. /\ flight[f].phase = "landed" /\ Unregister(f) /\ Answer(flight[f].waiters, "served")
      /\ flight' = [flight EXCEPT ![f] = NoFlight] /\ running' = None
      /\ UNCHANGED budgetVars /\ UNCHANGED <<disk, missed, walk>>
      /\ IF flight[f].lease = None THEN UNCHANGED arenaVars
         ELSE IF flight[f].inSlot THEN Commit(flight[f].lease, flight[f].id, flight[f].waiters)
         ELSE Abandon(flight[f].lease)
  BY DEF Deliver
<1>2. flight[f].id \in Id /\ flight[f].waiters \subseteq Caller
  BY <1>1, FlightHas DEF FetchIInv, Active
<1>3. CASE flight[f].lease = None
  <2>1. ArenaIInv' /\ leases' = leases /\ pins' = pins
    BY <1>1, <1>3, ArenaStays DEF FetchIInv
  <2> QED BY <1>1, <1>3, <2>1, WaitersUnpinned, Settles
<1>4. CASE flight[f].lease # None /\ ~flight[f].inSlot
  <2>1. ArenaIInv' /\ leases' = leases \ {flight[f].lease} /\ pins' = pins
    BY <1>1, <1>4, LeaseIn, AbandonStep DEF FetchIInv, Abandon
  <2> QED BY <1>1, <1>4, <2>1, WaitersUnpinned, Settles
<1>5. CASE flight[f].lease # None /\ flight[f].inSlot
  <2>1. Commit(flight[f].lease, flight[f].id, flight[f].waiters)
    BY <1>1, <1>5
  <2>2. ArenaIInv'
    BY <1>2, <1>5, <2>1, LeaseIn, CommitStep DEF FetchIInv, Caller
  <2>3. leases' = leases \ {flight[f].lease}
    BY <2>1 DEF Commit
  <2>4. \A c \in Caller : IF c \in flight[f].waiters THEN pins'[c].id = flight[f].id ELSE pins'[c] = pins[c]
    <3>1. pins' = [h \in Caller |-> IF h \in flight[f].waiters THEN [id |-> flight[f].id, slot |-> flight[f].lease]
                                    ELSE pins[h]]
      BY <2>1 DEF Commit, Caller
    <3> QED BY <3>1
  <2> QED BY <1>1, <1>5, <2>2, <2>3, <2>4, Settles
<1> QED BY <1>3, <1>4, <1>5

\* The flight fails.
LEMMA FlightFailsStep ==
  ASSUME FetchIInv, NEW f \in Flight, FlightFails(f)
  PROVE  FetchIInv'
<1>1. /\ flight[f].phase = "failed" /\ Unregister(f) /\ Answer(flight[f].waiters, "failed")
      /\ flight' = [flight EXCEPT ![f] = NoFlight] /\ running' = running
      /\ UNCHANGED budgetVars /\ UNCHANGED <<disk, missed, walk>>
      /\ IF flight[f].lease = None THEN UNCHANGED arenaVars ELSE Abandon(flight[f].lease)
  BY DEF FlightFails, GivesLeaseBack
<1>2. running' \in Flight \union {None}
  BY <1>1 DEF FetchIInv, Flights, FetchTypes
<1>3. ArenaIInv' /\ pins' = pins /\ IF flight[f].lease = None THEN leases' = leases
                                    ELSE leases' = leases \ {flight[f].lease}
  <2>1. CASE flight[f].lease = None
    BY <1>1, <2>1, ArenaStays DEF FetchIInv
  <2>2. CASE flight[f].lease # None
    BY <1>1, <2>2, LeaseIn, AbandonStep DEF FetchIInv, Abandon
  <2> QED BY <2>1, <2>2
<1> QED BY <1>1, <1>2, <1>3, WaitersUnpinned, Settles

--------------------------------------------------------------------------------
(* The coordinator *)

\* The tiers' own life touches no flight and no caller.
LEMMA TiersStep ==
  ASSUME FetchIInv, \/ \E m \in Id : MissExpires(m) \/ DiskEvicts(m)
                    \/ ClearCache
  PROVE  FetchIInv'
<1>1. /\ UNCHANGED budgetVars /\ UNCHANGED <<flight, inflight, running, caller, walk>>
      /\ disk' \subseteq disk /\ missed' \subseteq missed
      /\ UNCHANGED arenaVars \/ Clear
  BY DEF MissExpires, DiskEvicts, ClearCache
<1>2. ArenaIInv' /\ leases' = leases /\ pins' = pins
  BY <1>1, ArenaStays, ClearStep DEF FetchIInv, Clear
<1>3. Flights'
  BY <1>1, FlightsQuiet DEF FetchIInv, Flights, FetchTypes, Typed
<1>4. Permits'
  BY <1>1, BudgetStays DEF FetchIInv, Permits, QueueSound, PermitsOwned
<1>5. LeasesOwned' /\ PinsServed'
  BY <1>1, <1>2 DEF FetchIInv, LeasesOwned, PinsServed
<1>6. Verdicts'
  BY <1>1, VerdictsStay DEF FetchIInv, Verdicts
<1> QED BY <1>6, <1>2, <1>3, <1>4, <1>5 DEF FetchIInv

\* Nobody has asked for anything yet.
LEMMA FetchInitInv == FetchInit => FetchIInv
<1> SUFFICES ASSUME FetchInit PROVE FetchIInv
  OBVIOUS
<1>1. ArenaIInv /\ leases = {} /\ pins = [h \in Handle |-> None]
  BY ArenaInitInv DEF FetchInit, Init
<1>2. /\ flight = [f \in Flight |-> NoFlight] /\ inflight = [m \in Id |-> None] /\ running = None
      /\ caller = [c \in Caller |-> [st |-> "idle", id |-> None]] /\ disk = {} /\ missed = {}
      /\ walk = [f \in Flight |-> NoWalk]
      /\ waiters = <<>> /\ handle = [f \in Flight |-> "none"]
  BY DEF FetchInit, Download!Init
<1>3. \A f \in Flight : /\ flight[f] = NoFlight /\ flight[f].lease = None /\ flight[f].phase = "idle"
                        /\ flight[f].waiters = {} /\ ~flight[f].aborted
  BY <1>2 DEF NoFlight
<1>4. FetchTypes
  BY <1>2, PlaceFree DEF FetchTypes, CallerType
<1>5. FlightsShaped /\ SingleFlight
  BY <1>2, <1>3, PlaceFree DEF FlightsShaped, SingleFlight, Active
<1>6. Waits
  BY <1>2, <1>3 DEF Waits
<1>7. LeasesOwned
  BY <1>1, <1>3 DEF LeasesOwned
<1>8. Permits
  BY <1>2, <1>3 DEF Permits, QueueSound, PermitsOwned, Places
<1>9. PinsServed
  BY <1>1, <1>2 DEF PinsServed, Caller
<1>10. Verdicts
  <2>1. NoWalk \in WalkType
    BY DEF NoWalk, WalkType
  <2> QED BY <1>2, <1>3, <2>1 DEF Verdicts, WalkSound, MissesHonest
<1> QED BY <1>10, <1>1, <1>4, <1>5, <1>6, <1>7, <1>8, <1>9 DEF FetchIInv, Flights

\* Every stretch of the coordinator keeps its invariant.
LEMMA FetchNextInv == FetchIInv /\ [FetchNext]_fetchVars => FetchIInv'
<1> SUFFICES ASSUME FetchIInv, [FetchNext]_fetchVars PROVE FetchIInv'
  OBVIOUS
<1>1. ASSUME NEW c \in Caller, NEW m \in Id,
             RequestHit(c, m) \/ RequestMissed(c, m) \/ RequestJoin(c, m) \/ RequestNew(c, m)
      PROVE  FetchIInv'
  BY <1>1, RequestHitStep, RequestMissedStep, RequestJoinStep, RequestNewStep
<1>2. ASSUME NEW c \in Caller, Done(c) \/ AbortCaller(c) PROVE FetchIInv'
  BY <1>2, DoneStep, AbortCallerStep
<1>3. ASSUME NEW f \in Flight, FlightStep(f) PROVE FetchIInv'
  BY <1>3, DiskFoundStep, DiskHitStep, DiskMissStep, OffWireStep, DeliverStep, FlightFailsStep DEF FlightStep
<1>6. ASSUME NEW f \in Flight, NEW p \in Provider, WireStep(f, p) PROVE FetchIInv'
  BY <1>6, WireServesStep, WireServesOwnedStep, WireCorruptStep, WireAnswerStep DEF WireStep
<1>4. ASSUME \/ \E m \in Id : MissExpires(m) \/ DiskEvicts(m)
             \/ ClearCache
      PROVE  FetchIInv'
  BY <1>4, TiersStep
<1>5. CASE UNCHANGED fetchVars
  <2>1. /\ UNCHANGED arenaVars /\ UNCHANGED budgetVars
        /\ UNCHANGED <<flight, inflight, running, caller, disk, missed, walk>>
    BY <1>5 DEF fetchVars, ownVars
  <2>2. Verdicts'
    BY <2>1, VerdictsStay DEF FetchIInv, Verdicts
  <2> QED BY <2>1, <2>2, NothingElse
<1> QED BY <1>1, <1>2, <1>3, <1>4, <1>5, <1>6 DEF FetchNext

\* The coordinator's steps from the start: its invariant always holds.
THEOREM FetchInvariance == FetchSpec => []FetchIInv
BY FetchInitInv, FetchNextInv, PTL DEF FetchSpec

\* A caller waits in exactly one flight when flights share no waiter.
LEMMA AnsweredOnce ==
  ASSUME Flights
  PROVE  WaitersAnswered
<1>1. ASSUME NEW c \in Caller, caller[c].st = "waiting"
      PROVE  Cardinality({f \in Flight : c \in flight[f].waiters}) = 1
  <2>1. PICK g \in Flight : c \in flight[g].waiters
    BY <1>1 DEF Flights, Waits
  <2>2. {f \in Flight : c \in flight[f].waiters} = {g}
    BY <2>1 DEF Flights, Waits
  <2> QED BY <2>2, FS_Singleton
<1> QED BY <1>1 DEF Flights, Waits, WaitersAnswered

\* One live flight per segment, and every caller waiting is in exactly one
\* flight, for its own segment; nobody is left in a cancelled one, whatever
\* the segments, callers, flights and permits (multi-provider-pool.ts,
\* fetchSegmentShared and runShared).
THEOREM FlightsStaySound == FetchSpec => []FlightsSound
<1>1. FetchIInv => FlightsSound
  <2> SUFFICES ASSUME FetchIInv PROVE FlightsSound
    OBVIOUS
  <2>1. FetchTypeOK
    BY DEF FetchIInv, ArenaIInv, Flights, Verdicts, FetchTypes, FetchTypeOK, FlightType, CallerType, WalkType
  <2> QED BY <2>1, AnsweredOnce DEF FetchIInv, Flights, FlightsSound
<1> QED BY <1>1, FetchInvariance, PTL

\* No decode slot and no download permit outlives the flight that took it, on
\* any way out: served, owned fallback, failure or abort (runFetch's finally
\* and catch blocks).
THEOREM HoldingsStayOwned == FetchSpec => []HoldingsOwned
<1>1. FetchIInv => HoldingsOwned
  BY DEF FetchIInv, Permits, HoldingsOwned
<1> QED BY <1>1, FetchInvariance, PTL

\* Every caller reads, through its pin, the bytes of the segment it asked for,
\* for as long as it holds the pin (fetchSegmentShared with acquire and
\* commit of segment-arena.ts).
THEOREM CallersReadTheirSegments == FetchSpec => []CallerReadsItsSegment
<1>1. FetchIInv => CallerReadsItsSegment
  BY DEF FetchIInv, ArenaIInv, PinsServed, PinnedBytesIntact, CallerReadsItsSegment, Caller
<1> QED BY <1>1, FetchInvariance, PTL

\* The negative cache never holds a segment that a steady provider holds, for any
\* providers and any spread of the copies over them, whoever else lacks it, holds
\* a corrupt copy or cannot be reached (fetchBody, definitiveLossKind, recordMiss).
THEOREM MissesStayHonest == FetchSpec => []MissesHonest
<1>1. FetchIInv => MissesHonest
  BY DEF FetchIInv, Verdicts
<1> QED BY <1>1, FetchInvariance, PTL

================================================================================
