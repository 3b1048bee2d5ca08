-------------------------- MODULE ReplicaTasksProofs --------------------------
(***************************************************************************)
(* Proofs about what every replica does against the one database: the      *)
(* delivery of the playback outbox (PlaybackOutbox), for every number of   *)
(* replicas, rows, items, attempts and faults, and the claim of a          *)
(* scheduled task (TaskClaims), for every set of replicas, claim time,     *)
(* interval and number of faults.                                          *)
(*                                                                         *)
(* The outbox's invariant IInv is the table (types, order, keys), the      *)
(* lease of the pass under way, what the pass has read and what the marks  *)
(* make of it.                                                             *)
(***************************************************************************)
EXTENDS PlaybackOutbox, TaskClaims, DataLemmas

Keys == Events \X (SUBSET Item) \X (Nat \union Position)
RowType == [st : {"pending", "finished", "gone"}, kind : Events \union {None}, items : SUBSET Item,
            lane : {SingleLane, BulkLane}, key : Keys \union {None}, wait : Nat, tries : 0..MaxAttempts]
SinkType == [due : Nat \union {None}, holder : Replica \union {None}, left : Nat,
             status : {"connected", "error", "auth_expired"}, since : 0..Probe, failures : 0..MaxFailures]
Snapshot == [id : Nat, kind : Events \union {None}, items : SUBSET Item, tries : Nat]
Endings == [wait : Nat, status : {None, "connected", "error", "auth_expired"},
            failures : (0..MaxFailures) \union {None}]
Outcome == {"delivered", "retry", "permanent", "reauth", None}
PassType == [pc : {"idle", "claim", "read", "send", "wait", "mark", "release", "write"},
             left : 0..Budget, req : 0..Request, todo : Seq(Snapshot), short : BOOLEAN,
             tried : SUBSET Nat, any : BOOLEAN, out : Outcome,
             rel : Endings \union {None}, min : Nat \union {None}]

\* A pass holds what its place calls for.
Shaped(p) ==
  /\ p.todo = <<>> <=> p.pc \notin {"send", "wait", "mark"}
  /\ p.pc \in {"release", "write"} => p.rel \in Endings

Types ==
  /\ rows \in Seq(RowType) /\ order \in Seq(Nat) /\ sink \in SinkType
  /\ pass \in [Replica -> PassType] /\ \A r \in Replica : Shaped(pass[r])
  /\ linked \in BOOLEAN /\ got \subseteq [id : Rows, items : SUBSET Item]

\* The table: every pending row in its place, a later row before an earlier one
\* only once that one has been tried, one row per idempotency key.
PendingIn(rs) == {i \in 1..Len(rs) : rs[i].st = "pending"}
Sorted(rs, o) ==
  /\ Distinct(o) /\ Range(o) = PendingIn(rs)
  /\ \A x, y : Before(o, x, y) => rs[x].wait <= rs[y].wait /\ (y < x => rs[y].tries > 0)
Keyed(rs) ==
  /\ \A i \in PendingIn(rs) : rs[i].kind \in Events /\ (rs[i].wait > 0 => rs[i].tries > 0)
  /\ \A i, j \in 1..Len(rs) :
       rs[i].st # "gone" /\ rs[j].st # "gone" /\ rs[i].key = rs[j].key => i = j

\* The lease of a pass under way outlasts what the pass may still do.
Busying(p) == p.pc \notin {"idle", "claim"}
LeaseOf(s, r, p) ==
  Busying(p) => /\ s.holder = r /\ s.left > 0
                /\ p.left > 0 => s.left >= p.left + Request
                /\ p.pc = "wait" => s.left > p.req
Leased == \A r \in Replica : LeaseOf(sink, r, pass[r])

\* What a pass read is what it may still send: the rows still pending are as it
\* read them, none of them tried twice, none left behind that goes first.
Ahead(p, i, k) == \E h \in DOMAIN p.todo : h < k /\ p.todo[h].id = i
InTurn(rs, p, k) ==
  LET e == p.todo[k] IN
  /\ e.id \in 1..Len(rs)
  /\ rs[e.id].st = "pending" => rs[e.id].tries = e.tries
  /\ \A i \in PendingIn(rs) :
       i < e.id /\ rs[i].lane <= rs[e.id].lane => rs[i].tries > 0 \/ Ahead(p, i, k)
BatchOf(rs, p) ==
  /\ \A k \in DOMAIN p.todo : InTurn(rs, p, k)
  /\ \A h, k \in DOMAIN p.todo : p.todo[h].id = p.todo[k].id => h = k
  /\ \A i \in p.tried :
       i \in 1..Len(rs) /\ (i \in PendingIn(rs) => p.pc \in {"wait", "mark"} /\ i = p.todo[1].id)
Batch == \A r \in Replica : BatchOf(rows, pass[r])

\* What a mark made pointless is in no older row and in no snapshot of one.
Apart(S, T) == S \intersect T = {}
MarkedRows(rs, g) ==
  /\ \A i, j \in PendingIn(rs) : i < j /\ rs[j].kind \in Marks => Apart(rs[i].items, rs[j].items)
  /\ \A m \in g, i \in PendingIn(rs) : i < m.id => Apart(rs[i].items, m.items)
FinalFor(rs, g, p, k) ==
  LET e == p.todo[k] IN
  /\ \A i \in PendingIn(rs) : i < e.id /\ e.kind \in Marks => Apart(rs[i].items, e.items)
  /\ \A h \in DOMAIN p.todo : p.todo[h].id < e.id /\ e.kind \in Marks => Apart(p.todo[h].items, e.items)
  /\ \A m \in g : e.id < m.id => Apart(e.items, m.items)
FinalOf(rs, g, p) == \A k \in DOMAIN p.todo : FinalFor(rs, g, p, k)
Final == MarkedRows(rows, got) /\ \A r \in Replica : FinalOf(rows, got, pass[r])

IInv == Types /\ Sorted(rows, order) /\ Keyed(rows) /\ Leased /\ Batch /\ Final

--------------------------------------------------------------------------------
(* Rows that only lose items, or leave *)

\* The constants are naturals.
LEMMA Bounds ==
  /\ RowsPerSink \in Nat /\ RowsPerSink > 0 /\ MaxAttempts \in Nat /\ MaxAttempts > 0
  /\ MaxFailures \in Nat /\ MaxFailures > 0 /\ Budget \in Nat /\ Budget > 0
  /\ Request \in Nat /\ Request > 0
  /\ RowWait \in Nat /\ SinkWait \in Nat /\ Probe \in Nat
BY LimitAssumption, WaitAssumption

\* The table rt is rs after rows were cut or left, with new rows at the end.
Shrinks(rs, rt) ==
  /\ Len(rs) <= Len(rt)
  /\ \A i \in 1..Len(rs) :
       /\ rt[i].lane <= rs[i].lane
       /\ rt[i].st = "pending" =>
            /\ rs[i].st = "pending" /\ rt[i].items \subseteq rs[i].items
            /\ rt[i].kind = rs[i].kind /\ rt[i].lane = rs[i].lane /\ rt[i].tries = rs[i].tries

\* The rows of a table and the fields of a row.
LEMMA RowFields ==
  ASSUME NEW rs \in Seq(RowType)
  PROVE  /\ Len(rs) \in Nat /\ DOMAIN rs = 1..Len(rs)
         /\ \A i \in 1..Len(rs) :
              /\ rs[i] \in RowType /\ rs[i].st \in {"pending", "finished", "gone"}
              /\ rs[i].kind \in Events \union {None} /\ rs[i].items \subseteq Item
              /\ rs[i].lane \in Nat /\ rs[i].lane \in {SingleLane, BulkLane}
              /\ rs[i].key \in Keys \union {None} /\ rs[i].wait \in Nat
              /\ rs[i].tries \in Nat /\ rs[i].tries \in 0..MaxAttempts
<1>1. Len(rs) \in Nat /\ DOMAIN rs = 1..Len(rs) /\ \A i \in 1..Len(rs) : rs[i] \in RowType
  OBVIOUS
<1>2. \A e \in RowType :
        /\ e.st \in {"pending", "finished", "gone"}
        /\ e.kind \in Events \union {None} /\ e.items \subseteq Item
        /\ e.lane \in Nat /\ e.lane \in {SingleLane, BulkLane}
        /\ e.key \in Keys \union {None} /\ e.wait \in Nat
        /\ e.tries \in Nat /\ e.tries \in 0..MaxAttempts
  BY Bounds DEF RowType, SingleLane, BulkLane
<1> QED BY <1>1, <1>2

\* The fields of a pass.
LEMMA PassFields ==
  ASSUME NEW p \in PassType
  PROVE  /\ p.pc \in {"idle", "claim", "read", "send", "wait", "mark", "release", "write"}
         /\ p.left \in 0..Budget /\ p.left \in Nat /\ p.req \in 0..Request /\ p.req \in Nat
         /\ p.todo \in Seq(Snapshot) /\ p.tried \subseteq Nat /\ p.any \in BOOLEAN
         /\ p.out \in Outcome
         /\ p.rel \in Endings \union {None} /\ p.min \in Nat \union {None}
BY Bounds DEF PassType

\* The fields of what a pass has read of a row.
LEMMA SnapshotFields ==
  ASSUME NEW q \in Seq(Snapshot)
  PROVE  /\ Len(q) \in Nat /\ DOMAIN q = 1..Len(q)
         /\ \A k \in 1..Len(q) :
              /\ q[k] \in Snapshot /\ q[k].id \in Nat /\ q[k].kind \in Events \union {None}
              /\ q[k].items \subseteq Item /\ q[k].tries \in Nat
<1>1. Len(q) \in Nat /\ DOMAIN q = 1..Len(q) /\ \A k \in 1..Len(q) : q[k] \in Snapshot
  OBVIOUS
<1>2. \A e \in Snapshot : /\ e.id \in Nat /\ e.kind \in Events \union {None}
                           /\ e.items \subseteq Item /\ e.tries \in Nat
  BY DEF Snapshot
<1> QED BY <1>1, <1>2

\* A table after one of its rows was overwritten.
LEMMA RowSet ==
  ASSUME NEW rs \in Seq(RowType), NEW i \in 1..Len(rs), NEW e \in RowType, NEW rt, rt = [rs EXCEPT ![i] = e]
  PROVE  /\ rt \in Seq(RowType) /\ Len(rt) = Len(rs) /\ rt[i] = e
         /\ \A j \in 1..Len(rs) : j # i => rt[j] = rs[j]
OBVIOUS

\* The next row of a snapshot.
LEMMA HeadFacts ==
  ASSUME NEW q \in Seq(Snapshot), q # <<>>
  PROVE  1 \in DOMAIN q /\ Head(q) = q[1] /\ q[1] \in Snapshot
OBVIOUS

\* A row still pending was pending before, unless it is a new one.
LEMMA ShrunkPending ==
  ASSUME NEW rs \in Seq(RowType), NEW rt \in Seq(RowType), Shrinks(rs, rt), NEW i \in PendingIn(rt)
  PROVE  /\ i \in Nat
         /\ i > Len(rs) \/ /\ i \in PendingIn(rs) /\ rt[i].items \subseteq rs[i].items
                           /\ rt[i].kind = rs[i].kind /\ rt[i].lane = rs[i].lane
                           /\ rt[i].tries = rs[i].tries
BY RowFields DEF Shrinks, PendingIn

\* What a pass has read stays true of the rows as they are cut or leave.
LEMMA ShrunkBatch ==
  ASSUME NEW rs \in Seq(RowType), NEW rt \in Seq(RowType), NEW p \in PassType,
         Shrinks(rs, rt), BatchOf(rs, p)
  PROVE  BatchOf(rt, p)
<1>1. p.todo \in Seq(Snapshot) /\ p.tried \subseteq Nat
  BY PassFields
<1>2. ASSUME NEW k \in DOMAIN p.todo
      PROVE  InTurn(rt, p, k)
  <2> DEFINE e == p.todo[k]
  <2>1. e.id \in Nat
    BY <1>1, <1>2, SnapshotFields
  <2>2. /\ e.id \in 1..Len(rs)
        /\ rs[e.id].st = "pending" => rs[e.id].tries = e.tries
        /\ \A i \in PendingIn(rs) :
             i < e.id /\ rs[i].lane <= rs[e.id].lane => rs[i].tries > 0 \/ Ahead(p, i, k)
    BY <1>2 DEF BatchOf, InTurn
  <2> HIDE DEF e
  <2>3. e.id \in 1..Len(rt) /\ rt[e.id].lane <= rs[e.id].lane
    BY <2>2, RowFields DEF Shrinks
  <2>4. rt[e.id].st = "pending" => rt[e.id].tries = e.tries
    BY <2>2 DEF Shrinks
  <2>5. ASSUME NEW i \in PendingIn(rt), i < e.id, rt[i].lane <= rt[e.id].lane
        PROVE  rt[i].tries > 0 \/ Ahead(p, i, k)
    <3>1. i \in PendingIn(rs) /\ rt[i].lane = rs[i].lane /\ rt[i].tries = rs[i].tries
      BY <2>1, <2>2, <2>5, ShrunkPending, RowFields
    <3>2. rs[i].lane \in Nat /\ rs[e.id].lane \in Nat /\ rt[e.id].lane \in Nat
      BY <2>2, <2>3, <3>1, RowFields DEF PendingIn
    <3>3. rs[i].lane <= rs[e.id].lane
      BY <2>3, <2>5, <3>1, <3>2
    <3> QED BY <2>2, <2>5, <3>1, <3>3
  <2> QED BY <2>3, <2>4, <2>5 DEF InTurn, e
<1>3. ASSUME NEW i \in p.tried
      PROVE  i \in 1..Len(rt) /\ (i \in PendingIn(rt) => p.pc \in {"wait", "mark"} /\ i = p.todo[1].id)
  <2>1. i \in 1..Len(rs) /\ (i \in PendingIn(rs) => p.pc \in {"wait", "mark"} /\ i = p.todo[1].id)
    BY <1>3 DEF BatchOf
  <2>2. i \in 1..Len(rt)
    BY <2>1, RowFields DEF Shrinks
  <2>3. i \in PendingIn(rt) => i \in PendingIn(rs)
    BY <2>1, ShrunkPending, RowFields
  <2> QED BY <2>1, <2>2, <2>3
<1> QED BY <1>2, <1>3 DEF BatchOf

\* ... and so does what its rows have to do with the marks.
LEMMA ShrunkFinal ==
  ASSUME NEW rs \in Seq(RowType), NEW rt \in Seq(RowType), NEW p \in PassType, NEW g,
         Shrinks(rs, rt), BatchOf(rs, p), FinalOf(rs, g, p)
  PROVE  FinalOf(rt, g, p)
<1> SUFFICES ASSUME NEW k \in DOMAIN p.todo
             PROVE  FinalFor(rt, g, p, k)
  BY DEF FinalOf
<1>1. FinalFor(rs, g, p, k) /\ p.todo[k].id \in 1..Len(rs)
  BY DEF FinalOf, BatchOf, InTurn
<1>2. ASSUME NEW i \in PendingIn(rt), i < p.todo[k].id, p.todo[k].kind \in Marks
      PROVE  Apart(rt[i].items, p.todo[k].items)
  <2>1. i \in PendingIn(rs) /\ rt[i].items \subseteq rs[i].items
    BY <1>1, <1>2, ShrunkPending, RowFields
  <2>2. Apart(rs[i].items, p.todo[k].items)
    BY <1>1, <1>2, <2>1 DEF FinalFor
  <2> QED BY <2>1, <2>2 DEF Apart
<1> QED BY <1>1, <1>2 DEF FinalFor

\* A pass that has nothing left to send.
LEMMA EmptyBatch ==
  ASSUME NEW rs, NEW g, NEW p \in PassType, p.todo = <<>>, p.tried \subseteq 1..Len(rs),
         p.tried \intersect PendingIn(rs) = {}
  PROVE  BatchOf(rs, p) /\ FinalOf(rs, g, p)
<1>1. DOMAIN p.todo = {}
  OBVIOUS
<1> QED BY <1>1 DEF BatchOf, FinalOf

\* What a pass has read is all that counts, until it goes on to the next row.
LEMMA SameBatch ==
  ASSUME NEW rs, NEW g, NEW p \in PassType, NEW q \in PassType,
         q.todo = p.todo, q.tried = p.tried,
         p.pc \in {"wait", "mark"} => q.pc \in {"wait", "mark"}
  PROVE  (BatchOf(rs, p) => BatchOf(rs, q)) /\ (FinalOf(rs, g, p) => FinalOf(rs, g, q))
BY DEF BatchOf, FinalOf, FinalFor, InTurn, Ahead

\* Where a step of one replica leaves the passes.
LEMMA PassSet ==
  ASSUME Types, NEW r \in Replica, NEW p \in PassType, Shaped(p), pass' = [pass EXCEPT ![r] = p]
  PROVE  /\ pass'[r] = p /\ \A s \in Replica : s # r => pass'[s] = pass[s]
         /\ pass' \in [Replica -> PassType] /\ \A s \in Replica : Shaped(pass'[s])
BY DEF Types

\* A pass that is not under way holds nothing.
LEMMA OnlyPass ==
  ASSUME Types, Leased, NEW r \in Replica, NEW s \in Replica, Busying(pass[r]), s # r
  PROVE  ~Busying(pass[s]) /\ pass[s].todo = <<>>
<1>1. ~Busying(pass[s])
  BY DEF Leased, LeaseOf
<1> QED BY <1>1 DEF Types, Shaped, Busying

--------------------------------------------------------------------------------
(* The order of the pending rows *)

\* Rows that leave take nothing from the order of the others.
LEMMA SortedOnly ==
  ASSUME NEW rs, NEW rt, NEW o \in Seq(Nat), NEW S, Sorted(rs, o),
         PendingIn(rt) = PendingIn(rs) \intersect S,
         \A i \in PendingIn(rt) : rt[i].wait = rs[i].wait /\ rt[i].tries = rs[i].tries
  PROVE  Only(o, S) \in Seq(Nat) /\ Sorted(rt, Only(o, S))
<1>1. /\ Only(o, S) \in Seq(Nat) /\ Range(Only(o, S)) = Range(o) \intersect S
      /\ \A x, y : Before(Only(o, S), x, y) => Before(o, x, y)
      /\ Distinct(Only(o, S))
  BY OnlyFacts DEF Sorted
<1>2. Range(Only(o, S)) = PendingIn(rt)
  BY <1>1 DEF Sorted
<1>3. ASSUME NEW x, NEW y, Before(Only(o, S), x, y)
      PROVE  rt[x].wait <= rt[y].wait /\ (y < x => rt[y].tries > 0)
  <2>1. x \in PendingIn(rt) /\ y \in PendingIn(rt)
    BY <1>2, <1>3, RangeMembers DEF Before
  <2>2. rs[x].wait <= rs[y].wait /\ (y < x => rs[y].tries > 0)
    BY <1>1, <1>3 DEF Sorted
  <2> QED BY <2>1, <2>2
<1> QED BY <1>1, <1>2, <1>3 DEF Sorted

\* What the two parts and the new row of an order have in them, and before what.
LEMMA PlacedFacts ==
  ASSUME NEW rt \in Seq(RowType), NEW o \in Seq(Nat), NEW i \in Nat, NEW w \in Nat,
         Distinct(o), Range(o) \subseteq 1..Len(rt), i \notin Range(o)
  PROVE  /\ Placed(o, i, w, rt) \in Seq(Nat) /\ Range(Placed(o, i, w, rt)) = Range(o) \union {i}
         /\ Distinct(Placed(o, i, w, rt))
         /\ \A x, y : Before(Placed(o, i, w, rt), x, y) =>
              \/ Before(o, x, y) /\ x \in Range(o) /\ y \in Range(o)
              \/ x \in Range(o) /\ y = i /\ rt[x].wait <= w
              \/ x = i /\ y \in Range(o) /\ rt[y].wait > w
              \/ x \in Range(o) /\ y \in Range(o) /\ rt[x].wait <= w /\ rt[y].wait > w
<1> DEFINE L == {j \in DOMAIN rt : rt[j].wait <= w}
           H == {j \in DOMAIN rt : rt[j].wait > w}
           a == Only(o, L)
           b == Only(o, H)
           e == <<i>>
           c == a \o e
<1>1. L \intersect H = {} /\ Range(o) \subseteq L \union H
  BY RowFields
<1>2. /\ a \in Seq(Nat) /\ Range(a) = Range(o) \intersect L /\ Distinct(a)
      /\ \A x, y : Before(a, x, y) => Before(o, x, y)
  BY OnlyFacts
<1>3. /\ b \in Seq(Nat) /\ Range(b) = Range(o) \intersect H /\ Distinct(b)
      /\ \A x, y : Before(b, x, y) => Before(o, x, y)
  BY OnlyFacts
<1>4. \A x \in L : rt[x].wait <= w
  OBVIOUS
<1>5. \A x \in H : rt[x].wait > w
  OBVIOUS
<1>6. Placed(o, i, w, rt) = c \o b
  BY DEF Placed
<1> HIDE DEF L, H, a, b
<1>7. e \in Seq(Nat) /\ Range(e) = {i} /\ Distinct(e) /\ \A x, y : ~Before(e, x, y)
  BY SingleFacts
<1> HIDE DEF e
<1>8. c \in Seq(Nat) /\ Range(c) = Range(a) \union {i} /\ Distinct(c)
  <2>1. Range(a) \intersect Range(e) = {}
    BY <1>2, <1>7
  <2> QED BY <1>2, <1>7, <2>1, ConcatFacts
<1>9. \A x, y : Before(c, x, y) => Before(a, x, y) \/ (x \in Range(a) /\ y = i)
  <2>1. \A x, y : Before(c, x, y) <=>
          Before(a, x, y) \/ Before(e, x, y) \/ (x \in Range(a) /\ y \in Range(e))
    BY <1>2, <1>7, ConcatBefore
  <2> QED BY <1>7, <2>1, Zenon
<1> HIDE DEF c
<1>10. c \o b \in Seq(Nat) /\ Range(c \o b) = Range(o) \union {i} /\ Distinct(c \o b)
  <2>1. Range(c) \intersect Range(b) = {}
    BY <1>1, <1>2, <1>3, <1>8
  <2>2. Range(c) \union Range(b) = Range(o) \union {i}
    BY <1>1, <1>2, <1>3, <1>8
  <2> QED BY <1>3, <1>8, <2>1, <2>2, ConcatFacts
<1>11. ASSUME NEW x, NEW y, Before(c \o b, x, y)
       PROVE  \/ Before(o, x, y) /\ x \in Range(o) /\ y \in Range(o)
              \/ x \in Range(o) /\ y = i /\ rt[x].wait <= w
              \/ x = i /\ y \in Range(o) /\ rt[y].wait > w
              \/ x \in Range(o) /\ y \in Range(o) /\ rt[x].wait <= w /\ rt[y].wait > w
  <2>1. Before(c, x, y) \/ Before(b, x, y) \/ (x \in Range(c) /\ y \in Range(b))
    BY <1>3, <1>8, <1>11, ConcatBefore
  <2>2. Before(o, x, y) => x \in Range(o) /\ y \in Range(o)
    BY RangeMembers DEF Before
  <2>3. CASE Before(c, x, y)
    BY <1>2, <1>4, <1>9, <2>2, <2>3
  <2>4. CASE Before(b, x, y)
    BY <1>3, <2>2, <2>4
  <2>5. CASE x \in Range(c) /\ y \in Range(b)
    BY <1>2, <1>3, <1>4, <1>5, <1>8, <2>5
  <2> QED BY <2>1, <2>3, <2>4, <2>5
<1> QED BY <1>6, <1>10, <1>11

\* A row takes its place: what was tried may be overtaken, what was not may not.
LEMMA SortedPlaced ==
  ASSUME NEW rs \in Seq(RowType), NEW rt \in Seq(RowType), NEW o \in Seq(Nat),
         NEW i \in 1..Len(rt), Sorted(rs, o), i \notin PendingIn(rs),
         PendingIn(rt) = PendingIn(rs) \union {i},
         \A j \in PendingIn(rs) : rt[j].wait = rs[j].wait /\ rt[j].tries = rs[j].tries,
         \A j \in PendingIn(rs) : rs[j].wait > 0 => rs[j].tries > 0,
         rt[i].tries > 0 \/ \A j \in PendingIn(rs) : j < i
  PROVE  Placed(o, i, rt[i].wait, rt) \in Seq(Nat) /\ Sorted(rt, Placed(o, i, rt[i].wait, rt))
<1> DEFINE w == rt[i].wait
           q == Placed(o, i, w, rt)
<1>1. w \in Nat /\ i \in Nat /\ PendingIn(rt) \subseteq 1..Len(rt) /\ Range(o) = PendingIn(rs) /\ Distinct(o)
  BY RowFields DEF PendingIn, Sorted
<1> HIDE DEF w
<1>2. /\ q \in Seq(Nat) /\ Range(q) = Range(o) \union {i} /\ Distinct(q)
      /\ \A x, y : Before(q, x, y) =>
           \/ Before(o, x, y) /\ x \in Range(o) /\ y \in Range(o)
           \/ x \in Range(o) /\ y = i /\ rt[x].wait <= w
           \/ x = i /\ y \in Range(o) /\ rt[y].wait > w
           \/ x \in Range(o) /\ y \in Range(o) /\ rt[x].wait <= w /\ rt[y].wait > w
  <2>1. Range(o) \subseteq 1..Len(rt) /\ i \notin Range(o)
    BY <1>1
  <2> QED BY <1>1, <2>1, PlacedFacts
<1> HIDE DEF q
<1>3. ASSUME NEW x, NEW y, Before(q, x, y)
      PROVE  rt[x].wait <= rt[y].wait /\ (y < x => rt[y].tries > 0)
  <2>1. \A j \in PendingIn(rs) : /\ j \in Nat /\ rs[j].wait \in Nat /\ rs[j].tries \in Nat
                                 /\ rt[j].wait = rs[j].wait /\ rt[j].tries = rs[j].tries
    BY RowFields DEF PendingIn
  <2>2. CASE Before(o, x, y) /\ x \in Range(o) /\ y \in Range(o)
    BY <1>1, <2>1, <2>2 DEF Sorted
  <2>3. CASE x \in Range(o) /\ y = i /\ rt[x].wait <= w
    <3>1. rt[y].wait = w
      BY <2>3 DEF w
    <3>2. y < x => rt[y].tries > 0
      <4>1. x \in PendingIn(rs) /\ x \in Nat
        BY <1>1, <2>1, <2>3
      <4> QED BY <1>1, <2>3, <4>1
    <3> QED BY <2>3, <3>1, <3>2
  <2>4. CASE y \in Range(o) /\ rt[y].wait > w /\ (x = i \/ rt[x].wait <= w)
    <3>1. y \in PendingIn(rs) /\ rt[y].wait > 0
      BY <1>1, <2>1, <2>4
    <3>2. rt[y].tries > 0
      BY <2>1, <3>1
    <3>3. rt[x].wait <= w
      BY <1>1, <2>4 DEF w
    <3>4. x \in PendingIn(rt)
      BY <1>1, <1>2, <1>3, RangeMembers DEF Before
    <3>5. rt[y].wait \in Nat /\ rt[x].wait \in Nat
      BY <1>1, <2>1, <3>1, <3>4, RowFields
    <3> QED BY <1>1, <2>4, <3>2, <3>3, <3>5
  <2> QED BY <1>2, <1>3, <2>2, <2>3, <2>4
<1> QED BY <1>1, <1>2, <1>3 DEF Sorted, q, w

--------------------------------------------------------------------------------
(* Queueing *)

\* An event takes items out of waiting rows, and deletes those it empties.
LEMMA CutFacts ==
  ASSUME Types, NEW kinds, NEW items, NEW c, c = Cut(kinds, items)
  PROVE  /\ c \in Seq(RowType) /\ Len(c) = Len(rows) /\ Shrinks(rows, c)
         /\ \A i \in 1..Len(rows) :
              /\ c[i].st = "pending" =>
                   /\ c[i].wait = rows[i].wait
                   /\ rows[i].kind \in kinds => Apart(c[i].items, items)
              /\ c[i].st # "gone" => rows[i].st # "gone" /\ c[i].key = rows[i].key
<1> DEFINE n == Len(rows)
<1>1. /\ n \in Nat /\ DOMAIN rows = 1..n /\ Rows = 1..n
      /\ \A i \in 1..n :
           /\ rows[i] \in RowType /\ rows[i].st \in {"pending", "finished", "gone"}
           /\ rows[i].items \subseteq Item /\ rows[i].lane \in Nat
  BY RowFields DEF Types, Rows
<1>2. Gone \in RowType /\ Gone.st = "gone" /\ Gone.lane = 0
  BY Bounds DEF Gone, RowType, SingleLane
<1>3. ASSUME NEW i \in 1..n
      PROVE  /\ c[i] \in RowType /\ c[i].lane <= rows[i].lane
             /\ c[i].st = "pending" =>
                  /\ rows[i].st = "pending" /\ c[i].items \subseteq rows[i].items
                  /\ c[i].kind = rows[i].kind /\ c[i].lane = rows[i].lane
                  /\ c[i].tries = rows[i].tries /\ c[i].wait = rows[i].wait
                  /\ rows[i].kind \in kinds => Apart(c[i].items, items)
             /\ c[i].st # "gone" => rows[i].st # "gone" /\ c[i].key = rows[i].key
  <2> DEFINE kept == rows[i].items \ items
  <2>1. c[i] = IF i \notin Pending \/ rows[i].kind \notin kinds THEN rows[i]
               ELSE IF kept = {} THEN Gone ELSE [rows[i] EXCEPT !.items = kept]
    BY <1>1 DEF Cut
  <2>2. i \in Pending <=> rows[i].st = "pending"
    BY <1>1 DEF Pending
  <2>3. CASE i \notin Pending \/ rows[i].kind \notin kinds
    BY <1>1, <2>1, <2>2, <2>3
  <2>4. CASE i \in Pending /\ rows[i].kind \in kinds /\ kept = {}
    <3>1. c[i] = Gone
      BY <2>1, <2>4
    <3> QED BY <1>1, <1>2, <3>1
  <2>5. CASE i \in Pending /\ rows[i].kind \in kinds /\ kept # {}
    <3>1. c[i] = [rows[i] EXCEPT !.items = kept]
      BY <2>1, <2>5
    <3>2. kept \in SUBSET Item /\ kept \subseteq rows[i].items /\ kept \intersect items = {}
      BY <1>1
    <3> HIDE DEF kept
    <3>3. /\ c[i] \in RowType /\ c[i].items = kept /\ c[i].st = rows[i].st
          /\ c[i].kind = rows[i].kind /\ c[i].lane = rows[i].lane
          /\ c[i].tries = rows[i].tries /\ c[i].wait = rows[i].wait /\ c[i].key = rows[i].key
      BY <1>1, <3>1, <3>2 DEF RowType
    <3> QED BY <1>1, <2>2, <2>5, <3>2, <3>3 DEF Apart
  <2> QED BY <2>3, <2>4, <2>5
<1>4. c = [i \in 1..n |-> c[i]]
  BY <1>1 DEF Cut
<1>5. c \in [1..n -> RowType]
  BY <1>3, <1>4
<1>6. c \in Seq(RowType) /\ Len(c) = n
  BY <1>1, <1>5
<1>7. Shrinks(rows, c)
  BY <1>1, <1>3, <1>6 DEF Shrinks
<1> QED BY <1>3, <1>6, <1>7

\* Rows that are cut or leave stay as the marks left them.
LEMMA ShrunkMarked ==
  ASSUME NEW rs \in Seq(RowType), NEW rt \in Seq(RowType), NEW g,
         Shrinks(rs, rt), Len(rt) = Len(rs), MarkedRows(rs, g)
  PROVE  MarkedRows(rt, g)
<1>1. \A i \in PendingIn(rt) :
        i \in Nat /\ i \in PendingIn(rs) /\ rt[i].items \subseteq rs[i].items /\ rt[i].kind = rs[i].kind
  BY ShrunkPending, RowFields DEF PendingIn
<1> QED BY <1>1 DEF MarkedRows, Apart

\* What a change to the rows alone leaves of the passes.
LEMMA PassesKept ==
  ASSUME IInv, rows' \in Seq(RowType), Shrinks(rows, rows'), pass' = pass, got' = got
  PROVE  /\ \A r \in Replica : BatchOf(rows', pass'[r])
         /\ \A r \in Replica : FinalOf(rows', got', pass'[r])
<1> SUFFICES ASSUME NEW r \in Replica
             PROVE  BatchOf(rows', pass[r]) /\ FinalOf(rows', got, pass[r])
  OBVIOUS
<1>1. rows \in Seq(RowType) /\ pass[r] \in PassType /\ BatchOf(rows, pass[r]) /\ FinalOf(rows, got, pass[r])
  BY DEF IInv, Types, Batch, Final
<1> QED BY <1>1, ShrunkBatch, ShrunkFinal

\* What Next is made of, one part of the invariant at a time.
LEMMA IInvNext ==
  ASSUME Types', Sorted(rows', order'), Keyed(rows'),
         \A r \in Replica : LeaseOf(sink', r, pass'[r]),
         \A r \in Replica : BatchOf(rows', pass'[r]),
         \A r \in Replica : FinalOf(rows', got', pass'[r]), MarkedRows(rows', got')
  PROVE  IInv'
<1>1. Leased' <=> \A r \in Replica : LeaseOf(sink', r, pass'[r])
  BY DEF Leased
<1>2. Batch' <=> \A r \in Replica : BatchOf(rows', pass'[r])
  BY DEF Batch
<1>3. Final' <=> MarkedRows(rows', got') /\ \A r \in Replica : FinalOf(rows', got', pass'[r])
  BY DEF Final
<1>4. IInv' <=> Types' /\ Sorted(rows', order') /\ Keyed(rows') /\ Leased' /\ Batch' /\ Final'
  BY DEF IInv
<1> QED BY <1>1, <1>2, <1>3, <1>4

\* The pointer set to now is no business of the lease.
LEMMA LeasesKept ==
  ASSUME IInv, sink'.holder = sink.holder, sink'.left = sink.left, pass' = pass
  PROVE  \A r \in Replica : LeaseOf(sink', r, pass'[r])
BY DEF IInv, Leased, LeaseOf

\* The sink's row and the fields of it.
LEMMA SinkFields ==
  ASSUME Types
  PROVE  /\ sink.due \in Nat \union {None} /\ sink.holder \in Replica \union {None} /\ sink.left \in Nat
         /\ sink.status \in {"connected", "error", "auth_expired"}
         /\ sink.since \in 0..Probe /\ sink.failures \in 0..MaxFailures
BY DEF Types, SinkType

\* A key that is in the table already: only what it replaces changes.
LEMMA EnqueueConflict ==
  ASSUME IInv, NEW kinds, NEW items, rows' = Cut(kinds, items),
         order' = Only(order, {i \in Rows : Cut(kinds, items)[i].st = "pending"}),
         UNCHANGED <<sink, pass, linked, got>>
  PROVE  IInv'
<1> DEFINE c == Cut(kinds, items)
<1>1. /\ c \in Seq(RowType) /\ Len(c) = Len(rows) /\ Shrinks(rows, c)
      /\ \A i \in 1..Len(rows) :
           /\ c[i].st = "pending" =>
                /\ c[i].wait = rows[i].wait
                /\ rows[i].kind \in kinds => Apart(c[i].items, items)
           /\ c[i].st # "gone" => rows[i].st # "gone" /\ c[i].key = rows[i].key
  <2>1. Types
    BY DEF IInv
  <2> QED BY <2>1, CutFacts
<1>2. rows' = c /\ order' = Only(order, {i \in Rows : c[i].st = "pending"})
  OBVIOUS
<1> HIDE DEF c
<1>3. Types'
  <2>1. Rows' = Rows
    BY <1>1, <1>2 DEF Rows
  <2>2. order' \in Seq(Nat)
    BY <1>2, OnlyFacts DEF IInv, Types
  <2> QED BY <1>1, <1>2, <2>1, <2>2 DEF IInv, Types
<1>4. /\ PendingIn(c) = PendingIn(rows) \intersect {i \in Rows : c[i].st = "pending"}
      /\ \A i \in PendingIn(c) : /\ c[i].wait = rows[i].wait /\ c[i].tries = rows[i].tries
                                 /\ c[i].kind = rows[i].kind
  BY <1>1 DEF PendingIn, Rows, Shrinks
<1>5. Sorted(rows', order')
  <2>1. order \in Seq(Nat) /\ Sorted(rows, order)
    BY DEF IInv, Types
  <2> QED BY <1>2, <1>4, <2>1, SortedOnly
<1>6. Keyed(rows')
  <2>1. Keyed(rows)
    BY DEF IInv
  <2>2. \A i \in PendingIn(c) : c[i].kind \in Events /\ (c[i].wait > 0 => c[i].tries > 0)
    BY <1>4, <2>1 DEF Keyed
  <2>3. \A i, j \in 1..Len(c) : c[i].st # "gone" /\ c[j].st # "gone" /\ c[i].key = c[j].key => i = j
    BY <1>1, <2>1 DEF Keyed
  <2> QED BY <1>2, <2>2, <2>3 DEF Keyed
<1>7. MarkedRows(rows', got')
  BY <1>1, <1>2, ShrunkMarked DEF IInv, Types, Final
<1>8. /\ \A r \in Replica : BatchOf(rows', pass'[r])
      /\ \A r \in Replica : FinalOf(rows', got', pass'[r])
  BY <1>1, <1>2, PassesKept
<1>9. \A r \in Replica : LeaseOf(sink', r, pass'[r])
  BY LeasesKept
<1> QED BY <1>3, <1>5, <1>6, <1>7, <1>8, <1>9, IInvNext

\* A new row, last of those that are due: what it marks as final was cut out of
\* all that waits.
LEMMA EnqueueNew ==
  ASSUME IInv, NEW kinds, NEW items \in SUBSET Item, NEW kind \in Events, NEW lane \in {SingleLane, BulkLane},
         NEW key \in Keys, NEW new,
         new = [st |-> "pending", kind |-> kind, items |-> items, lane |-> lane, key |-> key,
                wait |-> 0, tries |-> 0],
         kind \in Marks => kinds = Events,
         ~\E i \in Rows : Cut(kinds, items)[i].st # "gone" /\ Cut(kinds, items)[i].key = key,
         rows' = Append(Cut(kinds, items), new),
         order' = Placed(Only(order, {i \in Rows : Cut(kinds, items)[i].st = "pending"}), Len(rows) + 1, 0, rows'),
         sink' = [sink EXCEPT !.due = 0],
         UNCHANGED <<pass, linked, got>>
  PROVE  IInv'
<1> DEFINE c == Cut(kinds, items)
           n == Len(rows)
           o == Only(order, {i \in Rows : c[i].st = "pending"})
<1>1. /\ c \in Seq(RowType) /\ Len(c) = n /\ Shrinks(rows, c)
      /\ \A i \in 1..n :
           /\ c[i].st = "pending" =>
                /\ c[i].wait = rows[i].wait
                /\ rows[i].kind \in kinds => Apart(c[i].items, items)
           /\ c[i].st # "gone" => rows[i].st # "gone" /\ c[i].key = rows[i].key
  <2>1. Types
    BY DEF IInv
  <2> QED BY <2>1, CutFacts
<1>2. rows' = Append(c, new) /\ order' = Placed(o, n + 1, 0, rows')
  OBVIOUS
<1>3. \A i \in Rows : c[i].st # "gone" => c[i].key # key
  OBVIOUS
<1>4. rows \in Seq(RowType) /\ order \in Seq(Nat) /\ Sorted(rows, order) /\ Keyed(rows) /\ n \in Nat
  BY RowFields DEF IInv, Types
<1>5. new \in RowType
  BY Bounds DEF RowType
<1> DEFINE d == rows'
<1>6. /\ d \in Seq(RowType) /\ Len(d) = n + 1
      /\ \A i \in 1..n : d[i] = c[i]
      /\ d[n + 1] = new
  <2>1. d = Append(c, new)
    BY <1>2
  <2> HIDE DEF c, d
  <2>2. c \in Seq(RowType) /\ Len(c) = n /\ DOMAIN c = 1..n /\ n \in Nat
    BY <1>1, <1>4
  <2> HIDE DEF n
  <2> QED BY <1>5, <2>1, <2>2
<1>7. /\ PendingIn(c) = PendingIn(rows) \intersect {i \in Rows : c[i].st = "pending"}
      /\ \A i \in PendingIn(c) : /\ c[i].wait = rows[i].wait /\ c[i].tries = rows[i].tries
                                 /\ c[i].kind = rows[i].kind
  <2> HIDE DEF c
  <2> QED BY <1>1 DEF PendingIn, Rows, Shrinks
<1>8. o \in Seq(Nat) /\ Sorted(c, o)
  <2> HIDE DEF c
  <2> QED BY <1>4, <1>7, SortedOnly
<1> HIDE DEF c, o, d
<1>9. PendingIn(d) = PendingIn(c) \union {n + 1} /\ n + 1 \notin PendingIn(c) /\ PendingIn(c) \subseteq 1..n
  <2>1. 1..(n + 1) = (1..n) \union {n + 1} /\ n + 1 \notin 1..n
    BY <1>4
  <2> QED BY <1>1, <1>6, <2>1 DEF PendingIn
<1>10. Keyed(d)
  <2>1. \A i \in PendingIn(d) : d[i].kind \in Events /\ (d[i].wait > 0 => d[i].tries > 0)
    <3>1. \A i \in PendingIn(c) : c[i].kind \in Events /\ (c[i].wait > 0 => c[i].tries > 0)
      BY <1>4, <1>7 DEF Keyed
    <3> QED BY <1>6, <1>9, <3>1
  <2>2. ASSUME NEW i \in 1..Len(d), NEW j \in 1..Len(d),
               d[i].st # "gone", d[j].st # "gone", d[i].key = d[j].key
        PROVE  i = j
    <3>1. (i \in 1..n \/ i = n + 1) /\ (j \in 1..n \/ j = n + 1)
      BY <1>4, <1>6
    <3>2. \A k \in 1..n : d[k].st # "gone" => d[k].key # key /\ rows[k].st # "gone" /\ d[k].key = rows[k].key
      <4> TAKE k \in 1..n
      <4>1. d[k] = c[k] /\ k \in Rows
        BY <1>6 DEF Rows
      <4> QED BY <1>1, <1>3, <4>1, Zenon
    <3>3. d[n + 1].key = key
      BY <1>6
    <3>4. CASE i \in 1..n /\ j \in 1..n
      <4>1. rows[i].st # "gone" /\ rows[j].st # "gone" /\ rows[i].key = rows[j].key
        BY <2>2, <3>2, <3>4, Zenon
      <4> QED BY <1>4, <3>4, <4>1 DEF Keyed
    <3>5. CASE i = n + 1 \/ j = n + 1
      BY <2>2, <3>1, <3>2, <3>3, <3>5, Zenon
    <3> QED BY <3>1, <3>4, <3>5
  <2> QED BY <2>1, <2>2 DEF Keyed
<1>11. Sorted(d, order') /\ order' \in Seq(Nat)
  <2>1. \A j \in PendingIn(c) : d[j].wait = c[j].wait /\ d[j].tries = c[j].tries
    BY <1>6, <1>9
  <2>2. \A j \in PendingIn(c) : c[j].wait > 0 => c[j].tries > 0
    BY <1>4, <1>7 DEF Keyed
  <2>3. \A j \in PendingIn(c) : j < n + 1
    BY <1>4, <1>9
  <2>4. d[n + 1].wait = 0 /\ n + 1 \in 1..Len(d)
    BY <1>4, <1>6
  <2>5. Placed(o, n + 1, d[n + 1].wait, d) \in Seq(Nat) /\ Sorted(d, Placed(o, n + 1, d[n + 1].wait, d))
    BY <1>1, <1>6, <1>8, <1>9, <2>1, <2>2, <2>3, <2>4, SortedPlaced
  <2> QED BY <1>2, <2>4, <2>5 DEF d
<1>12. Shrinks(rows, d)
  BY <1>1, <1>4, <1>6 DEF Shrinks
<1>13. Types'
  <2>1. Rows' = 1..(n + 1) /\ Rows \subseteq 1..(n + 1)
    BY <1>4, <1>6 DEF Rows, d
  <2>2. got' \subseteq [id : Rows', items : SUBSET Item]
    BY <2>1 DEF IInv, Types
  <2>3. sink' \in SinkType
    <3>1. [sink EXCEPT !.due = 0] \in SinkType
      BY DEF IInv, Types, SinkType
    <3> QED BY <3>1
  <2> QED BY <1>6, <1>11, <2>2, <2>3 DEF IInv, Types, d
<1>14. MarkedRows(d, got')
  <2>1. MarkedRows(c, got)
    BY <1>1, <1>4, ShrunkMarked DEF IInv, Final
  <2>2. \A i \in PendingIn(d) : (i \in PendingIn(c) /\ d[i] = c[i] /\ i \in 1..n) \/ i = n + 1
    BY <1>6, <1>9
  <2>3. ASSUME NEW i \in PendingIn(d), NEW j \in PendingIn(d), i < j, d[j].kind \in Marks
        PROVE  Apart(d[i].items, d[j].items)
    <3>1. CASE j = n + 1
      <4>1. i \in PendingIn(c) /\ d[i] = c[i] /\ i \in 1..n
        BY <1>4, <2>2, <2>3, <3>1
      <4>2. d[j].items = items /\ kinds = Events
        BY <1>6, <2>3, <3>1
      <4>3. c[i].st = "pending" /\ rows[i].kind \in Events
        BY <1>4, <1>7, <4>1 DEF Keyed, PendingIn
      <4> QED BY <1>1, <4>1, <4>2, <4>3
    <3>2. CASE j # n + 1
      <4>1. i \in PendingIn(c) /\ j \in PendingIn(c) /\ d[i] = c[i] /\ d[j] = c[j]
        BY <1>4, <2>2, <2>3, <3>2
      <4> QED BY <2>1, <2>3, <4>1 DEF MarkedRows
    <3> QED BY <3>1, <3>2
  <2>4. ASSUME NEW m \in got, NEW i \in PendingIn(d), i < m.id
        PROVE  Apart(d[i].items, m.items)
    <3>1. m.id \in 1..n
      BY DEF IInv, Types, Rows
    <3>2. i \in PendingIn(c) /\ d[i] = c[i]
      BY <1>4, <2>2, <2>4, <3>1
    <3> QED BY <2>1, <2>4, <3>2 DEF MarkedRows
  <2> QED BY <2>3, <2>4 DEF MarkedRows
<1>15. /\ \A r \in Replica : BatchOf(rows', pass'[r])
       /\ \A r \in Replica : FinalOf(rows', got', pass'[r])
  BY <1>6, <1>12, PassesKept DEF d
<1>16. \A r \in Replica : LeaseOf(sink', r, pass'[r])
  <2>1. sink'.holder = sink.holder /\ sink'.left = sink.left
    BY DEF IInv, Types, SinkType
  <2> QED BY <2>1, LeasesKept
<1> QED BY <1>10, <1>11, <1>13, <1>14, <1>15, <1>16, IInvNext DEF d

\* What is queued leaves the invariant as it was.
LEMMA EnqueueStep ==
  ASSUME IInv, NEW kind \in Events, NEW items \in SUBSET Item, NEW lane \in {SingleLane, BulkLane},
         NEW pos, kind \in Marks \/ pos \in Position, NEW finished, Enqueue(kind, items, lane, pos, finished)
  PROVE  IInv'
<1> DEFINE kinds == Replaces(kind, finished)
           key == KeyFor(kind, items, pos)
           new == [st |-> "pending", kind |-> kind, items |-> items, lane |-> lane, key |-> key,
                   wait |-> 0, tries |-> 0]
           c == Cut(kinds, items)
           conflict == \E i \in Rows : c[i].st # "gone" /\ c[i].key = key
<1>1. key \in Keys
  <2>1. Len(rows) + 1 \in Nat
    BY RowFields DEF IInv, Types
  <2> QED BY <2>1 DEF KeyFor, Keys
<1>2. kind \in Marks => kinds = Events
  BY DEF Replaces, Marks
<1>3. /\ IF conflict
         THEN /\ rows' = c /\ order' = Only(order, {i \in Rows : c[i].st = "pending"})
              /\ UNCHANGED sink
         ELSE /\ rows' = Append(c, new)
              /\ order' = Placed(Only(order, {i \in Rows : c[i].st = "pending"}), Len(rows) + 1, 0, rows')
              /\ sink' = [sink EXCEPT !.due = 0]
      /\ UNCHANGED <<pass, linked, got>>
  BY DEF Enqueue
<1> HIDE DEF kinds, key
<1>4. CASE conflict
  <2>1. rows' = c /\ order' = Only(order, {i \in Rows : c[i].st = "pending"})
        /\ UNCHANGED <<sink, pass, linked, got>>
    BY <1>3, <1>4
  <2> QED BY <2>1, EnqueueConflict
<1>5. CASE ~conflict
  <2>1. /\ rows' = Append(c, new)
        /\ order' = Placed(Only(order, {i \in Rows : c[i].st = "pending"}), Len(rows) + 1, 0, rows')
        /\ sink' = [sink EXCEPT !.due = 0] /\ UNCHANGED <<pass, linked, got>>
    BY <1>3, <1>5
  <2> QED BY <1>1, <1>2, <1>5, <2>1, EnqueueNew
<1> QED BY <1>4, <1>5

\* ... whichever way it comes about.
LEMMA DispatchStep ==
  ASSUME IInv, Dispatch
  PROVE  IInv'
<1>1. ASSUME NEW item \in Item, NEW pos \in Position, NEW finished \in BOOLEAN, Play(item, pos, finished)
      PROVE  IInv'
  <2>1. PICK kind \in Kind \intersect Transitions : Enqueue(kind, {item}, SingleLane, pos, finished)
    BY <1>1 DEF Play
  <2>2. kind \in Events /\ {item} \in SUBSET Item
    BY <1>1 DEF Events
  <2> QED BY <1>1, <2>1, <2>2, EnqueueStep
<1>2. ASSUME NEW items \in SUBSET Item, NEW lane \in {SingleLane, BulkLane}, Mark(items, lane)
      PROVE  IInv'
  <2>1. PICK kind \in Kind \intersect Marks : Enqueue(kind, items, lane, 0, FALSE)
    BY <1>2 DEF Mark
  <2>2. kind \in Events /\ kind \in Marks
    BY DEF Events
  <2> QED BY <1>2, <2>1, <2>2, EnqueueStep
<1>3. CASE \E item \in Item : Mark({item}, SingleLane)
  <2>1. PICK item \in Item : Mark({item}, SingleLane)
    BY <1>3
  <2>2. {item} \in SUBSET Item
    OBVIOUS
  <2> QED BY <1>2, <2>1, <2>2
<1>4. CASE \E items \in SUBSET Item \ {{}} : Mark(items, BulkLane)
  BY <1>2, <1>4
<1> QED BY <1>1, <1>3, <1>4 DEF Dispatch

\* A finished row whose key is forgotten.
LEMMA PruneStep ==
  ASSUME IInv, NEW i \in Rows, Prune(i)
  PROVE  IInv'
<1> DEFINE n == Len(rows)
<1>1. rows \in Seq(RowType) /\ n \in Nat /\ i \in 1..n /\ rows[i].st = "finished" /\ rows[i].lane \in Nat
  BY RowFields DEF IInv, Types, Rows, Prune
<1>2. Gone \in RowType /\ Gone.st = "gone" /\ Gone.lane = 0
  BY Bounds DEF Gone, RowType, SingleLane
<1>3. rows' = [rows EXCEPT ![i] = Gone] /\ UNCHANGED <<order, sink, pass, linked, got>>
  BY DEF Prune
<1>4. /\ rows' \in Seq(RowType) /\ Len(rows') = n /\ rows'[i] = Gone
      /\ \A j \in 1..n : j # i => rows'[j] = rows[j]
  <2> HIDE DEF n
  <2>1. Len(rows) = n
    BY DEF n
  <2> QED BY <1>1, <1>2, <1>3, <2>1
<1>5. PendingIn(rows') = PendingIn(rows)
  BY <1>1, <1>2, <1>4 DEF PendingIn
<1>6. \A j \in PendingIn(rows) : rows'[j] = rows[j]
  BY <1>1, <1>4 DEF PendingIn
<1>7. Shrinks(rows, rows')
  <2>1. \A j \in 1..n : rows[j].lane \in Nat
    BY RowFields DEF IInv, Types
  <2> QED BY <1>1, <1>2, <1>4, <2>1 DEF Shrinks
<1>8. Sorted(rows', order')
  <2>1. Range(order) = PendingIn(rows) /\ Sorted(rows, order)
    BY DEF IInv, Sorted
  <2>2. ASSUME NEW x, NEW y, Before(order, x, y)
        PROVE  rows'[x].wait <= rows'[y].wait /\ (y < x => rows'[y].tries > 0)
    <3>1. x \in PendingIn(rows) /\ y \in PendingIn(rows)
      BY <2>1, <2>2, RangeMembers DEF Before
    <3> QED BY <1>6, <2>1, <2>2, <3>1 DEF Sorted
  <2> QED BY <1>3, <1>5, <2>1, <2>2 DEF Sorted
<1>9. Keyed(rows')
  <2>1. Keyed(rows)
    BY DEF IInv
  <2>2. \A j, k \in 1..n : rows'[j].st # "gone" /\ rows'[k].st # "gone" /\ rows'[j].key = rows'[k].key => j = k
    BY <1>2, <1>4, <2>1 DEF Keyed
  <2> QED BY <1>4, <1>5, <1>6, <2>1, <2>2 DEF Keyed
<1>10. Types'
  <2>1. Rows' = Rows
    BY <1>4 DEF Rows
  <2> QED BY <1>3, <1>4, <2>1 DEF IInv, Types
<1>11. MarkedRows(rows', got')
  BY <1>1, <1>3, <1>4, <1>7, ShrunkMarked DEF IInv, Final
<1>12. /\ \A r \in Replica : BatchOf(rows', pass'[r])
       /\ \A r \in Replica : FinalOf(rows', got', pass'[r])
  BY <1>3, <1>4, <1>7, PassesKept
<1>13. \A r \in Replica : LeaseOf(sink', r, pass'[r])
  BY <1>3, LeasesKept
<1> QED BY <1>8, <1>9, <1>10, <1>11, <1>12, <1>13, IInvNext

--------------------------------------------------------------------------------
(* A pass *)

\* A step of one replica that leaves the rows, and the leases of the others.
LEMMA PassStep ==
  ASSUME IInv, NEW r \in Replica, NEW p \in PassType, Shaped(p), pass' = [pass EXCEPT ![r] = p],
         UNCHANGED <<rows, order, linked, got>>, sink' \in SinkType,
         LeaseOf(sink', r, p), \A s \in Replica : s # r => LeaseOf(sink', s, pass[s]),
         BatchOf(rows, p), FinalOf(rows, got, p)
  PROVE  IInv'
<1>1. Types
  BY DEF IInv
<1>2. /\ pass'[r] = p /\ \A s \in Replica : s # r => pass'[s] = pass[s]
      /\ pass' \in [Replica -> PassType] /\ \A s \in Replica : Shaped(pass'[s])
  BY <1>1, PassSet
<1>3. Types'
  <2>1. Rows' = Rows
    BY DEF Rows
  <2> QED BY <1>1, <1>2, <2>1 DEF Types
<1>4. Sorted(rows', order') /\ Keyed(rows') /\ MarkedRows(rows', got')
  BY DEF IInv, Final
<1>5. \A s \in Replica : LeaseOf(sink', s, pass'[s])
  BY <1>2
<1>6. \A s \in Replica : BatchOf(rows', pass'[s])
  BY <1>2 DEF IInv, Batch
<1>7. \A s \in Replica : FinalOf(rows', got', pass'[s])
  BY <1>2 DEF IInv, Final
<1> QED BY <1>3, <1>4, <1>5, <1>6, <1>7, IInvNext

\* ... and of the sink.
LEMMA OwnStep ==
  ASSUME IInv, NEW r \in Replica, NEW p \in PassType, Shaped(p), pass' = [pass EXCEPT ![r] = p],
         UNCHANGED <<rows, order, sink, linked, got>>,
         LeaseOf(sink, r, p), BatchOf(rows, p), FinalOf(rows, got, p)
  PROVE  IInv'
<1>1. sink \in SinkType /\ \A s \in Replica : LeaseOf(sink, s, pass[s])
  BY DEF IInv, Types, Leased
<1> QED BY <1>1, PassStep

\* A pass that has read nothing yet.
IdleAt(pc, left) ==
  [pc |-> pc, left |-> left, req |-> 0, todo |-> <<>>, short |-> FALSE, tried |-> {}, any |-> FALSE,
   out |-> None, rel |-> None, min |-> None]

\* A pass that is not under way.
LEMMA IdleFacts ==
  ASSUME NEW pc \in {"idle", "claim", "read"}, NEW left \in 0..Budget, NEW p, p = IdleAt(pc, left)
  PROVE  /\ p \in PassType /\ Shaped(p) /\ p.pc = pc /\ p.left = left /\ p.todo = <<>> /\ p.tried = {}
         /\ \A rs, g : BatchOf(rs, p) /\ FinalOf(rs, g, p)
<1>1. p.pc = pc /\ p.left = left /\ p.todo = <<>> /\ p.tried = {}
  BY DEF IdleAt
<1>2. p \in PassType
  <2>1. 0 \in 0..Request /\ <<>> \in Seq(Snapshot)
    BY Bounds
  <2> QED BY <2>1 DEF PassType, Outcome, IdleAt
<1>3. \A rs, g : BatchOf(rs, p) /\ FinalOf(rs, g, p)
  BY <1>1, <1>2, EmptyBatch
<1> QED BY <1>1, <1>2, <1>3 DEF Shaped

\* A pass that ends.
LEMMA EndsFacts ==
  ASSUME NEW q, NEW rel \in Endings, NEW p, p = Ends(q, rel)
  PROVE  /\ p \in PassType /\ Shaped(p) /\ p.pc = "release" /\ p.left = 0 /\ p.todo = <<>> /\ p.tried = {}
         /\ \A rs, g : BatchOf(rs, p) /\ FinalOf(rs, g, p)
<1>1. /\ p.pc = "release" /\ p.left = 0 /\ p.req = 0 /\ p.todo = <<>> /\ p.short = FALSE /\ p.tried = {}
      /\ p.any = FALSE /\ p.out = None /\ p.rel = rel /\ p.min = None
  BY DEF Ends, Idle
<1>2. p = [pc |-> "release", left |-> 0, req |-> 0, todo |-> <<>>, short |-> FALSE, tried |-> {}, any |-> FALSE,
           out |-> None, rel |-> rel, min |-> None]
  BY DEF Ends, Idle
<1>3. p \in PassType
  <2>1. 0 \in 0..Request /\ 0 \in 0..Budget /\ <<>> \in Seq(Snapshot)
    BY Bounds
  <2> QED BY <1>2, <2>1 DEF PassType, Outcome
<1>4. \A rs, g : BatchOf(rs, p) /\ FinalOf(rs, g, p)
  BY <1>1, <1>3, EmptyBatch
<1> QED BY <1>1, <1>3, <1>4 DEF Shaped

\* The ends a pass may come to are within bounds.
LEMMA ServedFacts ==
  ASSUME NEW q, NEW p, p = Served(q)
  PROVE  /\ p \in PassType /\ Shaped(p) /\ p.pc = "release" /\ p.left = 0 /\ p.todo = <<>> /\ p.tried = {}
         /\ \A rs, g : BatchOf(rs, p) /\ FinalOf(rs, g, p)
<1>1. /\ [wait |-> 0, status |-> None, failures |-> None] \in Endings
      /\ [wait |-> 0, status |-> "connected", failures |-> 0] \in Endings
  BY Bounds DEF Endings
<1>2. \E rel \in Endings : p = Ends(q, rel)
  BY <1>1 DEF Served
<1> QED BY <1>2, EndsFacts

\* A pass that goes on to release keeps its lease.
LEMMA ReleaseLease ==
  ASSUME NEW s, NEW r, NEW p, NEW q, LeaseOf(s, r, p), Busying(p), q.pc \in {"release", "write", "read", "send", "mark"},
         q.left = 0 \/ q.left = p.left
  PROVE  LeaseOf(s, r, q)
BY DEF LeaseOf, Busying

\* Idle, as it is written in the actions.
LEMMA IdlePass ==
  /\ Idle \in PassType /\ Shaped(Idle) /\ Idle.pc = "idle" /\ \A rs, g : BatchOf(rs, Idle) /\ FinalOf(rs, g, Idle)
  /\ \A pc \in {"idle", "claim"} :
       LET p == [Idle EXCEPT !.pc = pc] IN
       p \in PassType /\ Shaped(p) /\ ~Busying(p) /\ \A rs, g : BatchOf(rs, p) /\ FinalOf(rs, g, p)
<1>1. 0 \in 0..Budget
  BY Bounds
<1>2. /\ Idle \in PassType /\ Shaped(Idle) /\ Idle.pc = "idle"
      /\ \A rs, g : BatchOf(rs, Idle) /\ FinalOf(rs, g, Idle)
  <2>1. Idle = IdleAt("idle", 0)
    BY DEF Idle, IdleAt
  <2> QED BY <1>1, <2>1, IdleFacts
<1>3. ASSUME NEW pc \in {"idle", "claim"}, NEW p, p = [Idle EXCEPT !.pc = pc]
      PROVE  p \in PassType /\ Shaped(p) /\ ~Busying(p) /\ \A rs, g : BatchOf(rs, p) /\ FinalOf(rs, g, p)
  <2>1. p = IdleAt(pc, 0)
    BY <1>3 DEF Idle, IdleAt
  <2> HIDE <1>3
  <2>2. /\ p \in PassType /\ Shaped(p) /\ p.pc = pc
        /\ \A rs, g : BatchOf(rs, p) /\ FinalOf(rs, g, p)
    BY <1>1, <2>1, IdleFacts
  <2> QED BY <2>2 DEF Busying
<1> QED BY <1>2, <1>3

\* A pass that starts.
LEMMA ReadPass == \A left : [Idle EXCEPT !.pc = "read", !.left = left] = IdleAt("read", left)
<1> SUFFICES ASSUME NEW left, NEW p, p = [Idle EXCEPT !.pc = "read", !.left = left]
             PROVE  p = IdleAt("read", left)
  OBVIOUS
<1> QED BY DEF Idle, IdleAt

\* A sink is claimed only when nobody is at work on it: whoever is holds a
\* lease with time left.
LEMMA ClaimedStep ==
  ASSUME IInv, NEW r \in Replica, ~Busying(pass[r]), NEW s \in SinkType,
         s.holder = sink.holder, s.left = sink.left, Claimed(r, s), UNCHANGED <<rows, order, linked, got>>
  PROVE  IInv'
<1>1. Types /\ \A t \in Replica : LeaseOf(sink, t, pass[t])
  BY DEF IInv, Leased
<1>2. CASE s.due = 0 /\ s.left = 0
  <2> DEFINE p == [Idle EXCEPT !.pc = "read", !.left = Budget]
  <2>1. pass' = [pass EXCEPT ![r] = p] /\ sink' = [s EXCEPT !.holder = r, !.left = Lease]
    BY <1>2 DEF Claimed
  <2>2. Budget \in 0..Budget /\ Lease \in Nat /\ Lease = Budget + Request /\ Budget \in Nat /\ Request \in Nat
        /\ Lease > 0
    BY Bounds DEF Lease
  <2>3. p = IdleAt("read", Budget)
    BY ReadPass
  <2> HIDE DEF p
  <2>8. /\ p \in PassType /\ Shaped(p) /\ p.pc = "read" /\ p.left = Budget
        /\ BatchOf(rows, p) /\ FinalOf(rows, got, p)
    BY <2>2, <2>3, IdleFacts
  <2>4. sink' \in SinkType /\ sink'.holder = r /\ sink'.left = Lease
    <3>1. s.holder \in Replica \union {None} /\ s.left \in Nat
      BY DEF SinkType
    <3>2. sink' \in SinkType
      BY <2>1, <2>2 DEF SinkType
    <3> QED BY <2>1, <3>2 DEF SinkType
  <2>5. LeaseOf(sink', r, p)
    BY <2>2, <2>4, <2>8 DEF LeaseOf
  <2>6. \A t \in Replica : ~Busying(pass[t])
    BY <1>1, <1>2 DEF LeaseOf
  <2>7. \A t \in Replica : t # r => LeaseOf(sink', t, pass[t])
    BY <2>6 DEF LeaseOf
  <2> QED BY <2>1, <2>4, <2>5, <2>7, <2>8, PassStep
<1>3. CASE ~(s.due = 0 /\ s.left = 0)
  <2>1. pass' = [pass EXCEPT ![r] = Idle] /\ sink' = s
    BY <1>3 DEF Claimed
  <2>2. \A t \in Replica : LeaseOf(sink', t, pass[t])
    BY <1>1, <2>1 DEF LeaseOf
  <2>3. LeaseOf(sink', r, Idle)
    BY IdlePass DEF LeaseOf, Busying
  <2> QED BY <2>1, <2>2, <2>3, IdlePass, PassStep
<1> QED BY <1>2, <1>3

\* A run of the task, or its next batch.
LEMMA ClaimStep ==
  ASSUME IInv, NEW r \in Replica, RunStarts(r) \/ NextBatch(r)
  PROVE  IInv'
<1>1. sink \in SinkType
  BY DEF IInv, Types
<1>2. CASE RunStarts(r)
  <2>1. Reconciled(sink) \in SinkType
        /\ Reconciled(sink).holder = sink.holder /\ Reconciled(sink).left = sink.left
    BY <1>1 DEF Reconciled, SinkType
  <2>2. ~Busying(pass[r]) /\ Claimed(r, Reconciled(sink)) /\ UNCHANGED <<rows, order, linked, got>>
    BY <1>2 DEF RunStarts, Busying
  <2> QED BY <2>1, <2>2, ClaimedStep
<1>3. CASE NextBatch(r)
  <2>1. ~Busying(pass[r]) /\ Claimed(r, sink) /\ UNCHANGED <<rows, order, linked, got>>
    BY <1>3 DEF NextBatch, Busying
  <2> QED BY <1>1, <2>1, ClaimedStep
<1> QED BY <1>2, <1>3

\* What a read returns: due rows, each once, and before each of them whatever
\* goes first.
LEMMA DueFacts ==
  ASSUME IInv, NEW due, due = Due
  PROVE  /\ due \in Seq(Nat) /\ Distinct(due) /\ Range(due) \subseteq PendingIn(rows)
         /\ \A k \in DOMAIN due, i \in PendingIn(rows) :
              i < due[k] /\ rows[i].lane <= rows[due[k]].lane =>
                rows[i].tries > 0 \/ \E h \in DOMAIN due : h < k /\ due[h] = i
<1> DEFINE D == {i \in Rows : rows[i].wait = 0}
           L0 == {i \in Rows : rows[i].lane = SingleLane}
           L1 == {i \in Rows : rows[i].lane = BulkLane}
           d == Only(order, D)
           a == Only(d, L0)
           b == Only(d, L1)
           all == a \o b
           m == IF Len(all) < RowsPerSink THEN Len(all) ELSE RowsPerSink
<1>1. /\ rows \in Seq(RowType) /\ order \in Seq(Nat) /\ Rows = 1..Len(rows)
      /\ Distinct(order) /\ Range(order) = PendingIn(rows)
      /\ \A x, y : Before(order, x, y) => rows[x].wait <= rows[y].wait /\ (y < x => rows[y].tries > 0)
  BY DEF IInv, Types, Sorted, Rows
<1>2. \A i \in PendingIn(rows) : /\ i \in Rows /\ i \in Nat /\ rows[i].wait \in Nat /\ rows[i].tries \in Nat
                                 /\ rows[i].lane \in {SingleLane, BulkLane}
  BY <1>1, RowFields DEF PendingIn
<1>3. /\ \A i \in PendingIn(rows) : (i \in D <=> rows[i].wait = 0)
      /\ \A i \in PendingIn(rows) : (i \in L0 <=> rows[i].lane = 0)
      /\ \A i \in PendingIn(rows) : (i \in L1 <=> rows[i].lane = 1)
      /\ L0 \intersect L1 = {}
  BY <1>2 DEF SingleLane, BulkLane
<1>4. due = SubSeq(all, 1, m)
  BY DEF Due, InLane
<1> HIDE DEF D, L0, L1
<1>5. /\ d \in Seq(Nat) /\ Range(d) = PendingIn(rows) \intersect D /\ Distinct(d)
      /\ \A x, y : Before(d, x, y) => Before(order, x, y)
  BY <1>1, OnlyFacts
<1>6. \A x \in D, y \in D : Before(order, x, y) => Before(d, x, y)
  BY <1>1, OnlyBefore
<1> HIDE DEF d
<1>7. /\ a \in Seq(Nat) /\ Range(a) = Range(d) \intersect L0 /\ Distinct(a)
      /\ \A x \in L0, y \in L0 : Before(d, x, y) => Before(a, x, y)
  BY <1>5, OnlyFacts, OnlyBefore
<1>8. /\ b \in Seq(Nat) /\ Range(b) = Range(d) \intersect L1 /\ Distinct(b)
      /\ \A x \in L1, y \in L1 : Before(d, x, y) => Before(b, x, y)
  BY <1>5, OnlyFacts, OnlyBefore
<1> HIDE DEF a, b
<1>9. /\ all \in Seq(Nat) /\ Distinct(all)
      /\ Range(all) = PendingIn(rows) \intersect D
  <2>1. Range(a) \intersect Range(b) = {}
    BY <1>3, <1>7, <1>8
  <2>2. Range(a) \union Range(b) = PendingIn(rows) \intersect D
    <3>1. \A i \in PendingIn(rows) : i \in L0 \/ i \in L1
      BY <1>2, <1>3 DEF SingleLane, BulkLane
    <3> QED BY <1>5, <1>7, <1>8, <3>1
  <2> QED BY <1>7, <1>8, <2>1, <2>2, ConcatFacts
<1>10. \A x, y : Before(all, x, y) <=> Before(a, x, y) \/ Before(b, x, y) \/ (x \in Range(a) /\ y \in Range(b))
  BY <1>7, <1>8, ConcatBefore
<1> HIDE DEF all
<1>11. m \in Nat /\ m <= Len(all) /\ Len(all) \in Nat /\ DOMAIN all = 1..Len(all)
  BY <1>9, Bounds
<1> HIDE DEF m
<1>12. due \in Seq(Nat) /\ DOMAIN due = 1..m /\ \A k \in 1..m : k \in DOMAIN all /\ due[k] = all[k]
  BY <1>4, <1>9, <1>11
<1>13. Distinct(due)
  BY <1>9, <1>12 DEF Distinct
<1>14. Range(due) \subseteq PendingIn(rows) \intersect D
  BY <1>9, <1>12, RangeMembers
<1>15. ASSUME NEW k \in DOMAIN due, NEW i \in PendingIn(rows), i < due[k], rows[i].lane <= rows[due[k]].lane,
              ~(rows[i].tries > 0)
       PROVE  \E h \in DOMAIN due : h < k /\ due[h] = i
  <2> DEFINE e == due[k]
  <2>1. e \in PendingIn(rows) /\ e \in D /\ e \in Nat
    BY <1>2, <1>14, RangeMembers
  <2> HIDE DEF e
  <2>2. i < e /\ rows[i].lane <= rows[e].lane
    BY <1>15 DEF e
  <2>3. Before(order, i, e) \/ Before(order, e, i)
    <3>1. PICK x \in DOMAIN order : order[x] = i
      BY <1>1, RangeMembers
    <3>2. PICK y \in DOMAIN order : order[y] = e
      BY <1>1, <2>1, RangeMembers
    <3>3. x \in Nat /\ y \in Nat /\ x # y
      BY <1>1, <1>2, <2>1, <2>2, <3>1, <3>2
    <3> QED BY <3>1, <3>2, <3>3 DEF Before
  <2>4. Before(order, i, e)
    BY <1>1, <1>15, <2>2, <2>3
  <2>5. i \in D
    <3>1. rows[i].wait <= rows[e].wait /\ rows[e].wait = 0 /\ rows[i].wait \in Nat
      BY <1>1, <1>2, <1>3, <2>1, <2>4
    <3> QED BY <1>3, <3>1
  <2>6. Before(d, i, e) /\ i \in Range(d) /\ e \in Range(d)
    BY <1>5, <1>6, <2>1, <2>4, <2>5
  <2>7. Before(all, i, e)
    <3>1. rows[i].lane \in {0, 1} /\ rows[e].lane \in {0, 1}
      BY <1>2, <2>1 DEF SingleLane, BulkLane
    <3>2. CASE rows[e].lane = 0
      <4>1. rows[i].lane = 0
        BY <2>2, <3>1, <3>2
      <4>2. i \in L0 /\ e \in L0
        BY <1>3, <2>1, <3>2, <4>1
      <4> QED BY <1>7, <1>10, <2>6, <4>2
    <3>3. CASE rows[e].lane = 1 /\ rows[i].lane = 0
      <4>1. i \in L0 /\ e \in L1
        BY <1>3, <2>1, <3>3
      <4> QED BY <1>7, <1>8, <1>10, <2>6, <4>1
    <3>4. CASE rows[e].lane = 1 /\ rows[i].lane = 1
      <4>1. i \in L1 /\ e \in L1
        BY <1>3, <2>1, <3>4
      <4> QED BY <1>8, <1>10, <2>6, <4>1
    <3> QED BY <3>1, <3>2, <3>3, <3>4
  <2>8. PICK x, y \in DOMAIN all : x < y /\ all[x] = i /\ all[y] = e
    BY <2>7 DEF Before
  <2>9. y = k
    <3>1. k \in DOMAIN all /\ all[k] = e
      BY <1>12 DEF e
    <3> QED BY <1>9, <2>8, <3>1 DEF Distinct
  <2>10. x \in 1..m /\ x < k
    BY <1>11, <1>12, <2>8, <2>9
  <2> QED BY <1>12, <2>8, <2>10
<1> QED BY <1>12, <1>13, <1>14, <1>15

\* A pass under way and what goes with it.
LEMMA PassHere ==
  ASSUME IInv, NEW r \in Replica
  PROVE  /\ Types /\ rows \in Seq(RowType) /\ pass[r] \in PassType /\ Shaped(pass[r]) /\ LeaseOf(sink, r, pass[r])
         /\ BatchOf(rows, pass[r]) /\ FinalOf(rows, got, pass[r]) /\ MarkedRows(rows, got)
         /\ PendingIn(rows) = Pending
BY DEF IInv, Types, Leased, Batch, Final, PendingIn, Pending, Rows

\* A pass that ends, as the last that a step does.
LEMMA EndStep ==
  ASSUME IInv, NEW r \in Replica, NEW p \in PassType, Shaped(p), p.pc = "release", p.left = 0,
         \A rs, g : BatchOf(rs, p) /\ FinalOf(rs, g, p), Busying(pass[r]),
         pass' = [pass EXCEPT ![r] = p], UNCHANGED <<rows, order, sink, linked, got>>
  PROVE  IInv'
<1>1. LeaseOf(sink, r, p)
  BY PassHere, ReleaseLease
<1> QED BY <1>1, OwnStep

\* A pass that was served.
LEMMA ServedStep ==
  ASSUME IInv, NEW r \in Replica, Busying(pass[r]), NEW q, pass' = [pass EXCEPT ![r] = Served(q)],
         UNCHANGED <<rows, order, sink, linked, got>>
  PROVE  IInv'
<1>1. PICK p : p = Served(q)
  OBVIOUS
<1>2. /\ p \in PassType /\ Shaped(p) /\ p.pc = "release" /\ p.left = 0
      /\ \A rs, g : BatchOf(rs, p) /\ FinalOf(rs, g, p)
  BY <1>1, ServedFacts
<1>3. pass' = [pass EXCEPT ![r] = p]
  BY <1>1
<1> QED BY <1>2, <1>3, EndStep

\* A read: the snapshot is in turn as the rows are in order.
LEMMA ReadStep ==
  ASSUME IInv, NEW r \in Replica, Read(r)
  PROVE  IInv'
<1> DEFINE p == pass[r]
           due == Due
           sn == [k \in DOMAIN due |->
                    [id |-> due[k], kind |-> rows[due[k]].kind, items |-> rows[due[k]].items,
                     tries |-> rows[due[k]].tries]]
           q == [p EXCEPT !.pc = "send", !.todo = sn, !.short = Len(due) < RowsPerSink]
<1>1. /\ p.pc = "read" /\ UNCHANGED <<rows, order, sink, linked, got>>
      /\ pass' = [pass EXCEPT ![r] = IF p.left = 0 \/ due = <<>> THEN Served(p) ELSE q]
  BY DEF Read
<1>2. /\ Types /\ rows \in Seq(RowType) /\ p \in PassType /\ Shaped(p) /\ LeaseOf(sink, r, p)
      /\ BatchOf(rows, p) /\ FinalOf(rows, got, p) /\ MarkedRows(rows, got)
  BY PassHere
<1>3. CASE p.left = 0 \/ due = <<>>
  <2>1. pass' = [pass EXCEPT ![r] = Served(p)] /\ Busying(p)
    BY <1>1, <1>3 DEF Busying
  <2> QED BY <1>1, <2>1, ServedStep
<1>4. CASE ~(p.left = 0 \/ due = <<>>)
  <2>1. /\ due \in Seq(Nat) /\ Distinct(due) /\ Range(due) \subseteq PendingIn(rows)
        /\ \A k \in DOMAIN due, i \in PendingIn(rows) :
             i < due[k] /\ rows[i].lane <= rows[due[k]].lane =>
               rows[i].tries > 0 \/ \E h \in DOMAIN due : h < k /\ due[h] = i
    BY DueFacts
  <2>2. due # <<>> /\ pass' = [pass EXCEPT ![r] = q]
    BY <1>1, <1>4
  <2> HIDE DEF due
  <2>3. \A k \in DOMAIN due :
          /\ due[k] \in PendingIn(rows) /\ due[k] \in 1..Len(rows) /\ due[k] \in Nat
          /\ rows[due[k]].kind \in Events \union {None} /\ rows[due[k]].items \in SUBSET Item
          /\ rows[due[k]].tries \in Nat
    <3>1. \A k \in DOMAIN due : due[k] \in PendingIn(rows)
      BY <2>1, RangeMembers
    <3> QED BY <1>2, <3>1, RowFields DEF PendingIn
  <2>4. /\ DOMAIN sn = DOMAIN due /\ DOMAIN due = 1..Len(due) /\ Len(due) \in Nat
        /\ \A k \in DOMAIN due :
             /\ sn[k] \in Snapshot
             /\ sn[k].id = due[k] /\ sn[k].kind = rows[due[k]].kind
             /\ sn[k].items = rows[due[k]].items /\ sn[k].tries = rows[due[k]].tries
    BY <2>1, <2>3 DEF Snapshot
  <2>5. sn = [k \in 1..Len(due) |-> sn[k]]
    BY <2>4
  <2> HIDE DEF sn
  <2>6. sn \in Seq(Snapshot) /\ sn # <<>>
    <3>1. sn \in [1..Len(due) -> Snapshot]
      BY <2>4, <2>5
    <3>2. sn \in Seq(Snapshot) /\ Len(sn) = Len(due)
      BY <2>4, <3>1
    <3> QED BY <2>1, <2>2, <3>2
  <2>7. (Len(due) < RowsPerSink) \in BOOLEAN
    OBVIOUS
  <2>8. q \in PassType
    BY <1>2, <2>6, <2>7 DEF PassType
  <2>9. q.pc = "send" /\ q.todo = sn /\ q.left = p.left /\ q.tried = p.tried
    BY <1>2 DEF PassType
  <2> HIDE DEF q
  <2>10. Shaped(q)
    BY <2>6, <2>9 DEF Shaped
  <2>11. LeaseOf(sink, r, q)
    <3>1. Busying(p)
      BY <1>1 DEF Busying
    <3> QED BY <1>2, <2>9, <3>1, ReleaseLease
  <2>12. BatchOf(rows, q)
    <3>1. \A k \in DOMAIN sn : InTurn(rows, q, k)
      <4> SUFFICES ASSUME NEW k \in DOMAIN sn
                   PROVE  InTurn(rows, q, k)
        OBVIOUS
      <4>1. q.todo[k].id = due[k] /\ q.todo[k].tries = rows[due[k]].tries
        BY <2>4, <2>9
      <4>2. \A i \in PendingIn(rows) :
              i < due[k] /\ rows[i].lane <= rows[due[k]].lane => rows[i].tries > 0 \/ Ahead(q, i, k)
        BY <2>1, <2>4, <2>9 DEF Ahead
      <4> QED BY <2>3, <2>4, <4>1, <4>2 DEF InTurn
    <3>2. \A h, k \in DOMAIN sn : sn[h].id = sn[k].id => h = k
      BY <2>1, <2>4 DEF Distinct
    <3>3. \A i \in p.tried : i \in 1..Len(rows) /\ i \notin PendingIn(rows)
      BY <1>1, <1>2 DEF BatchOf
    <3> QED BY <2>9, <3>1, <3>2, <3>3 DEF BatchOf
  <2>13. FinalOf(rows, got, q)
    <3> SUFFICES ASSUME NEW k \in DOMAIN sn
                 PROVE  FinalFor(rows, got, q, k)
      BY <2>9 DEF FinalOf
    <3>1. \A h \in DOMAIN sn :
            /\ q.todo[h].id = due[h] /\ due[h] \in PendingIn(rows)
            /\ q.todo[h].kind = rows[due[h]].kind /\ q.todo[h].items = rows[due[h]].items
      BY <2>3, <2>4, <2>9
    <3> QED BY <1>2, <2>9, <3>1 DEF FinalFor, MarkedRows
  <2> QED BY <1>1, <2>2, <2>8, <2>10, <2>11, <2>12, <2>13, OwnStep
<1> QED BY <1>3, <1>4

\* A request: the lease lasts as long as the pass and one request.
LEMMA SendStep ==
  ASSUME IInv, NEW r \in Replica, Send(r)
  PROVE  IInv'
<1> DEFINE p == pass[r]
           i == Head(p.todo).id
           q == [p EXCEPT !.pc = "wait", !.req = Request, !.tried = @ \union {i}]
<1>1. /\ p.pc = "send" /\ UNCHANGED <<rows, order, sink, linked, got>>
      /\ pass' = [pass EXCEPT ![r] = IF p.left = 0 THEN Served(p) ELSE q]
  BY DEF Send
<1>2. /\ p \in PassType /\ Shaped(p) /\ LeaseOf(sink, r, p)
      /\ BatchOf(rows, p) /\ FinalOf(rows, got, p) /\ Types
  BY PassHere
<1>3. CASE p.left = 0
  <2>1. pass' = [pass EXCEPT ![r] = Served(p)] /\ Busying(p)
    BY <1>1, <1>3 DEF Busying
  <2> QED BY <1>1, <2>1, ServedStep
<1>4. CASE p.left # 0
  <2>1. pass' = [pass EXCEPT ![r] = q]
    BY <1>1, <1>4
  <2>2. p.todo # <<>> /\ p.todo \in Seq(Snapshot)
    BY <1>1, <1>2, PassFields DEF Shaped
  <2>3. 1 \in DOMAIN p.todo /\ i = p.todo[1].id
    BY <2>2
  <2>4. i \in Nat /\ i \in 1..Len(rows)
    <3>1. i \in 1..Len(rows) /\ Len(rows) \in Nat
      BY <1>2, <2>3, RowFields DEF BatchOf, InTurn, Types
    <3> QED BY <3>1
  <2> HIDE DEF i
  <2>5. Request \in 0..Request /\ Request \in Nat
    BY Bounds
  <2>6. q \in PassType
    BY <1>2, <2>4, <2>5 DEF PassType
  <2>7. q.pc = "wait" /\ q.todo = p.todo /\ q.left = p.left /\ q.req = Request /\ q.tried = p.tried \union {i}
    BY <1>2 DEF PassType
  <2> HIDE DEF q
  <2>8. Shaped(q)
    BY <2>2, <2>7 DEF Shaped
  <2>9. LeaseOf(sink, r, q)
    <3>1. Busying(p) /\ p.left \in Nat /\ p.left > 0 /\ sink.left \in Nat
      BY <1>1, <1>2, <1>4, PassFields, SinkFields DEF Busying
    <3>2. sink.holder = r /\ sink.left > 0 /\ sink.left >= p.left + Request
      BY <1>2, <3>1 DEF LeaseOf
    <3> QED BY <2>5, <2>7, <3>1, <3>2 DEF LeaseOf
  <2>10. BatchOf(rows, q)
    <3>1. \A j \in p.tried : j \in 1..Len(rows) /\ j \notin PendingIn(rows)
      BY <1>1, <1>2 DEF BatchOf
    <3>2. \A j \in q.tried : j \in 1..Len(rows) /\ (j \in PendingIn(rows) => j = q.todo[1].id)
      BY <2>3, <2>4, <2>7, <3>1
    <3>3. \A k \in DOMAIN q.todo : InTurn(rows, q, k)
      BY <1>2, <2>7 DEF BatchOf, InTurn, Ahead
    <3>4. \A h, k \in DOMAIN q.todo : q.todo[h].id = q.todo[k].id => h = k
      BY <1>2, <2>7 DEF BatchOf
    <3> QED BY <2>7, <3>2, <3>3, <3>4 DEF BatchOf
  <2>11. FinalOf(rows, got, q)
    BY <1>2, <2>7 DEF FinalOf, FinalFor
  <2> QED BY <1>1, <2>1, <2>6, <2>8, <2>9, <2>10, <2>11, OwnStep
<1> QED BY <1>3, <1>4

\* What the addon accepts: nothing pending or read has anything of it but
\* what came later.
LEMMA AcceptsFacts ==
  ASSUME IInv, NEW r \in Replica, pass[r].pc = "wait", Accepts(r) \/ got' = got
  PROVE  /\ got' \subseteq [id : Rows, items : SUBSET Item]
         /\ MarkedRows(rows, got') /\ \A s \in Replica : FinalOf(rows, got', pass[s])
<1> DEFINE p == pass[r]
           e == Head(p.todo)
           m == [id |-> e.id, items |-> e.items]
<1>1. /\ p \in PassType /\ Shaped(p) /\ LeaseOf(sink, r, p) /\ MarkedRows(rows, got)
      /\ BatchOf(rows, p) /\ FinalOf(rows, got, p) /\ Types
  BY PassHere
<1>2. got' = got \/ (e.kind \in Marks /\ got' = got \union {m})
  BY DEF Accepts
<1>3. p.todo # <<>> /\ p.todo \in Seq(Snapshot)
  BY <1>1, PassFields DEF Shaped
<1>4. 1 \in DOMAIN p.todo /\ e = p.todo[1]
  BY <1>3
<1>5. e.id \in Rows /\ e.items \in SUBSET Item
  <2>1. e \in Snapshot
    BY <1>3, <1>4
  <2> QED BY <1>1, <1>4, <2>1 DEF BatchOf, InTurn, Rows, Snapshot
<1>6. m.id = e.id /\ m.items = e.items /\ m \in [id : Rows, items : SUBSET Item]
  BY <1>5
<1>7. FinalFor(rows, got, p, 1)
  BY <1>1, <1>4 DEF FinalOf
<1>8. \A s \in Replica : s # r => pass[s].todo = <<>>
  <2>1. Busying(pass[r]) /\ Leased
    BY DEF Busying, IInv
  <2> QED BY <1>1, <2>1, OnlyPass
<1> HIDE DEF e, m, p
<1>9. got' \subseteq [id : Rows, items : SUBSET Item]
  BY <1>1, <1>2, <1>6 DEF Types
<1>10. MarkedRows(rows, got')
  BY <1>1, <1>2, <1>4, <1>6, <1>7 DEF MarkedRows, FinalFor
<1>11. FinalOf(rows, got', p)
  BY <1>1, <1>2, <1>4, <1>6, <1>7 DEF FinalOf, FinalFor
<1>12. \A s \in Replica : FinalOf(rows, got', pass[s])
  <2> SUFFICES ASSUME NEW s \in Replica, s # r
               PROVE  FinalOf(rows, got', pass[s])
    BY <1>11 DEF p
  <2>1. DOMAIN pass[s].todo = {}
    BY <1>8
  <2> QED BY <2>1 DEF FinalOf
<1> QED BY <1>9, <1>10, <1>12

\* A step of one replica that may have reached the addon.
LEMMA ReachStep ==
  ASSUME IInv, NEW r \in Replica, NEW p \in PassType, Shaped(p), pass' = [pass EXCEPT ![r] = p],
         UNCHANGED <<rows, order, sink, linked>>,
         got' \subseteq [id : Rows, items : SUBSET Item], MarkedRows(rows, got'),
         \A s \in Replica : FinalOf(rows, got', pass[s]),
         LeaseOf(sink, r, p), BatchOf(rows, p), FinalOf(rows, got', p)
  PROVE  IInv'
<1>1. Types
  BY DEF IInv
<1>2. /\ pass'[r] = p /\ \A s \in Replica : s # r => pass'[s] = pass[s]
      /\ pass' \in [Replica -> PassType] /\ \A s \in Replica : Shaped(pass'[s])
  BY <1>1, PassSet
<1>3. Types'
  <2>1. Rows' = Rows
    BY DEF Rows
  <2> QED BY <1>1, <1>2, <2>1 DEF Types
<1>4. Sorted(rows', order') /\ Keyed(rows') /\ MarkedRows(rows', got')
  BY DEF IInv
<1>5. \A s \in Replica : LeaseOf(sink', s, pass'[s])
  BY <1>2 DEF IInv, Leased
<1>6. \A s \in Replica : BatchOf(rows', pass'[s])
  BY <1>2 DEF IInv, Batch
<1>7. \A s \in Replica : FinalOf(rows', got', pass'[s])
  BY <1>2
<1> QED BY <1>3, <1>4, <1>5, <1>6, <1>7, IInvNext

\* An answer, or none.
LEMMA AnswerStep ==
  ASSUME IInv, NEW r \in Replica, NEW out \in {"delivered", "retry", "permanent", "reauth"}, Answer(r, out)
  PROVE  IInv'
<1> DEFINE p == pass[r]
           q == [p EXCEPT !.pc = "mark", !.req = 0, !.out = out]
<1>1. p.pc = "wait" /\ UNCHANGED <<rows, order, sink, linked>> /\ (Accepts(r) \/ got' = got)
  BY DEF Answer
<1>2. /\ p \in PassType /\ Shaped(p) /\ LeaseOf(sink, r, p)
      /\ BatchOf(rows, p) /\ FinalOf(rows, got, p) /\ Types
  BY PassHere
<1>3. pass' = [pass EXCEPT ![r] = q]
  BY <1>2 DEF Answer, Types
<1>4. q \in PassType
  <2>1. 0 \in 0..Request
    BY Bounds
  <2> QED BY <1>2, <2>1 DEF PassType, Outcome
<1>5. q.pc = "mark" /\ q.todo = p.todo /\ q.left = p.left /\ q.tried = p.tried
  BY <1>2 DEF PassType
<1> HIDE DEF q
<1>6. Shaped(q)
  BY <1>1, <1>2, <1>5 DEF Shaped
<1>7. LeaseOf(sink, r, q)
  <2>1. Busying(p)
    BY <1>1 DEF Busying
  <2> QED BY <1>2, <1>5, <2>1, ReleaseLease
<1>8. /\ got' \subseteq [id : Rows, items : SUBSET Item] /\ MarkedRows(rows, got')
      /\ \A s \in Replica : FinalOf(rows, got', pass[s])
  BY <1>1, AcceptsFacts
<1>9. BatchOf(rows, q) /\ FinalOf(rows, got', q)
  BY <1>2, <1>4, <1>5, <1>8, SameBatch
<1> QED BY <1>1, <1>3, <1>4, <1>6, <1>7, <1>8, <1>9, ReachStep

\* The rest of the snapshot, once the row at its head is settled.
LEMMA TailFacts ==
  ASSUME NEW rs, NEW rt, NEW g, NEW p \in PassType, NEW q \in PassType, p.todo # <<>>,
         q.todo = Tail(p.todo), q.tried = p.tried, p.pc = "mark", Shrinks(rs, rt),
         rs \in Seq(RowType), rt \in Seq(RowType),
         p.todo[1].id \notin PendingIn(rt), BatchOf(rs, p), FinalOf(rs, g, p)
  PROVE  BatchOf(rt, q) /\ FinalOf(rt, g, q)
<1> DEFINE n == Len(p.todo)
<1>1. p.todo \in Seq(Snapshot)
  BY PassFields
<1>2. /\ n \in Nat /\ DOMAIN p.todo = 1..n /\ 1 \in 1..n
      /\ \A k \in DOMAIN q.todo : k \in Nat /\ k > 0 /\ k + 1 \in 1..n /\ q.todo[k] = p.todo[k + 1]
      /\ \A k \in 1..n : k # 1 => k - 1 \in DOMAIN q.todo /\ q.todo[k - 1] = p.todo[k]
  BY <1>1
<1> HIDE DEF n
<1>3. BatchOf(rt, p) /\ FinalOf(rt, g, p)
  BY ShrunkBatch, ShrunkFinal
<1>4. ASSUME NEW k \in DOMAIN q.todo
      PROVE  InTurn(rt, q, k) /\ FinalFor(rt, g, q, k)
  <2>1. k + 1 \in DOMAIN p.todo /\ q.todo[k] = p.todo[k + 1] /\ k \in Nat
    BY <1>2, <1>4
  <2>2. InTurn(rt, p, k + 1) /\ FinalFor(rt, g, p, k + 1)
    BY <1>3, <2>1 DEF BatchOf, FinalOf
  <2>3. \A i \in PendingIn(rt) : Ahead(p, i, k + 1) => Ahead(q, i, k)
    <3> SUFFICES ASSUME NEW i \in PendingIn(rt), NEW h \in DOMAIN p.todo, h < k + 1, p.todo[h].id = i
                 PROVE  Ahead(q, i, k)
      BY DEF Ahead
    <3>4. h \in 1..n /\ h \in Nat
      BY <1>2
    <3>5. h # 1
      OBVIOUS
    <3>1. h # 1 /\ h \in 1..n /\ h \in Nat
      BY <3>4, <3>5
    <3>2. h - 1 \in DOMAIN q.todo /\ q.todo[h - 1] = p.todo[h]
      BY <1>2, <3>1
    <3>3. h - 1 < k
      BY <2>1, <3>1
    <3> QED BY <3>2, <3>3 DEF Ahead
  <2>4. InTurn(rt, q, k)
    BY <2>1, <2>2, <2>3 DEF InTurn
  <2>5. \A h \in DOMAIN q.todo : h + 1 \in DOMAIN p.todo /\ q.todo[h] = p.todo[h + 1]
    BY <1>2
  <2>6. FinalFor(rt, g, q, k)
    BY <2>1, <2>2, <2>5 DEF FinalFor
  <2> QED BY <2>4, <2>6
<1>5. \A h, k \in DOMAIN q.todo : q.todo[h].id = q.todo[k].id => h = k
  <2> SUFFICES ASSUME NEW h \in DOMAIN q.todo, NEW k \in DOMAIN q.todo, q.todo[h].id = q.todo[k].id
               PROVE  h = k
    OBVIOUS
  <2>1. /\ h + 1 \in DOMAIN p.todo /\ q.todo[h] = p.todo[h + 1]
        /\ k + 1 \in DOMAIN p.todo /\ q.todo[k] = p.todo[k + 1] /\ h \in Nat /\ k \in Nat
    BY <1>2
  <2>2. p.todo[h + 1].id = p.todo[k + 1].id
    BY <2>1
  <2>3. h + 1 = k + 1
    BY <1>3, <2>1, <2>2 DEF BatchOf
  <2> QED BY <2>1, <2>3
<1>6. \A i \in q.tried : i \in 1..Len(rt) /\ i \notin PendingIn(rt)
  BY <1>3 DEF BatchOf
<1> QED BY <1>4, <1>5, <1>6 DEF BatchOf, FinalOf

\* ... and the pass that goes on with it, or ends.
LEMMA ProceedsFacts ==
  ASSUME IInv, NEW r \in Replica, pass[r].pc = "mark", NEW rt \in Seq(RowType), Shrinks(rows, rt),
         Head(pass[r].todo).id \notin PendingIn(rt), NEW p, p = Proceeds(pass[r])
  PROVE  p \in PassType /\ Shaped(p) /\ LeaseOf(sink, r, p) /\ BatchOf(rt, p) /\ FinalOf(rt, got, p)
<1> DEFINE o == pass[r]
           rest == [o EXCEPT !.todo = Tail(@), !.out = None, !.any = @ \/ o.out = "delivered"]
           send == [rest EXCEPT !.pc = "send"]
           read == [rest EXCEPT !.pc = "read"]
<1>1. /\ o \in PassType /\ Shaped(o) /\ LeaseOf(sink, r, o) /\ Busying(o)
      /\ BatchOf(rows, o) /\ FinalOf(rows, got, o) /\ rows \in Seq(RowType)
  BY PassHere DEF Busying
<1>2. o.todo # <<>> /\ o.todo \in Seq(Snapshot)
  BY <1>1, PassFields DEF Shaped
<1>3. Tail(o.todo) \in Seq(Snapshot) /\ Head(o.todo) = o.todo[1]
  BY <1>2
<1>4. /\ rest \in PassType /\ rest.todo = Tail(o.todo) /\ rest.tried = o.tried /\ rest.left = o.left
  <2>1. rest \in PassType
    BY <1>1, <1>3 DEF PassType, Outcome
  <2> QED BY <1>1, <2>1 DEF PassType
<1> HIDE DEF rest
<1>5. BatchOf(rt, rest) /\ FinalOf(rt, got, rest)
  BY <1>1, <1>2, <1>3, <1>4, TailFacts
<1>6. p = IF rest.todo # <<>> THEN send ELSE IF o.short THEN Served(rest) ELSE read
  BY DEF Proceeds, rest
<1>7. CASE p = Served(rest)
  <2>1. /\ p \in PassType /\ Shaped(p) /\ p.pc = "release" /\ p.left = 0
        /\ BatchOf(rt, p) /\ FinalOf(rt, got, p)
    BY <1>7, ServedFacts
  <2> QED BY <1>1, <2>1, ReleaseLease
<1>8. CASE p = send /\ rest.todo # <<>>
  <2>1. p \in PassType
    BY <1>4, <1>8 DEF PassType
  <2>2. p.pc = "send" /\ p.todo = rest.todo /\ p.tried = rest.tried /\ p.left = o.left
    BY <1>4, <1>8 DEF PassType
  <2>3. Shaped(p)
    BY <1>8, <2>2 DEF Shaped
  <2>4. \A i \in rest.tried : i \in 1..Len(rt) /\ i \notin PendingIn(rt)
    <3>1. BatchOf(rt, o)
      BY <1>1, ShrunkBatch
    <3> QED BY <1>3, <1>4, <3>1 DEF BatchOf
  <2>5. BatchOf(rt, p) /\ FinalOf(rt, got, p)
    BY <1>5, <2>2, <2>4 DEF BatchOf, FinalOf, FinalFor, InTurn, Ahead
  <2>6. LeaseOf(sink, r, p)
    BY <1>1, <2>2, ReleaseLease
  <2> QED BY <2>1, <2>3, <2>5, <2>6
<1>9. CASE p = read /\ rest.todo = <<>>
  <2>1. p \in PassType
    BY <1>4, <1>9 DEF PassType
  <2>2. p.pc = "read" /\ p.todo = rest.todo /\ p.tried = rest.tried /\ p.left = o.left
    BY <1>4, <1>9 DEF PassType
  <2>3. Shaped(p)
    BY <1>9, <2>2 DEF Shaped
  <2>4. \A i \in rest.tried : i \in 1..Len(rt) /\ i \notin PendingIn(rt)
    <3>1. BatchOf(rt, o)
      BY <1>1, ShrunkBatch
    <3> QED BY <1>3, <1>4, <3>1 DEF BatchOf
  <2>5. p.tried \subseteq 1..Len(rt) /\ p.tried \intersect PendingIn(rt) = {} /\ p.todo = <<>>
    BY <1>9, <2>2, <2>4
  <2>6. BatchOf(rt, p) /\ FinalOf(rt, got, p)
    BY <2>1, <2>5, EmptyBatch
  <2>7. LeaseOf(sink, r, p)
    BY <1>1, <2>2, ReleaseLease
  <2> QED BY <2>1, <2>3, <2>6, <2>7
<1> QED BY <1>6, <1>7, <1>8, <1>9

\* A row settled for good leaves the rows.
LEMMA SettledFacts ==
  ASSUME IInv, NEW i \in Rows, NEW rt, rt = Settled(i)
  PROVE  /\ rt \in Seq(RowType) /\ Len(rt) = Len(rows) /\ Shrinks(rows, rt) /\ i \notin PendingIn(rt)
         /\ Without(i) \in Seq(Nat) /\ Sorted(rt, Without(i)) /\ Keyed(rt) /\ MarkedRows(rt, got)
<1> DEFINE n == Len(rows)
           e == [rows[i] EXCEPT !.st = "finished", !.items = {}, !.wait = 0, !.tries = 0]
<1>1. /\ rows \in Seq(RowType) /\ order \in Seq(Nat) /\ n \in Nat /\ i \in 1..n /\ Rows = 1..n
      /\ rows[i] \in RowType /\ Sorted(rows, order) /\ Keyed(rows) /\ MarkedRows(rows, got)
      /\ \A j \in 1..n : rows[j].lane \in Nat
  BY RowFields DEF IInv, Types, Rows, Final
<1>2. e \in RowType /\ e.st = "finished" /\ e.lane = rows[i].lane /\ e.key = rows[i].key
  <2>1. 0 \in 0..MaxAttempts
    BY Bounds
  <2> QED BY <1>1, <2>1 DEF RowType
<1>3. (rt = rows /\ rows[i].st = "gone") \/ (rt = [rows EXCEPT ![i] = e] /\ rows[i].st # "gone")
  BY <1>1 DEF Settled
<1> HIDE DEF e
<1>4. /\ rt \in Seq(RowType) /\ Len(rt) = n /\ rt[i].st # "pending" /\ rt[i].lane = rows[i].lane
      /\ rt[i].st # "gone" => rows[i].st # "gone" /\ rt[i].key = rows[i].key
      /\ \A j \in 1..n : j # i => rt[j] = rows[j]
  <2>1. CASE rt = rows /\ rows[i].st = "gone"
    BY <1>1, <2>1
  <2>2. CASE rt = [rows EXCEPT ![i] = e] /\ rows[i].st # "gone"
    <3>1. rt \in Seq(RowType) /\ Len(rt) = Len(rows)
      BY <1>1, <1>2, <2>2
    <3>2. rt[i] = e /\ \A j \in 1..n : j # i => rt[j] = rows[j]
      BY <1>1, <2>2
    <3> QED BY <1>2, <2>2, <3>1, <3>2
  <2> QED BY <1>3, <2>1, <2>2
<1>5. PendingIn(rt) = PendingIn(rows) \intersect (Rows \ {i}) /\ i \notin PendingIn(rt)
  BY <1>1, <1>4 DEF PendingIn
<1>6. \A j \in PendingIn(rt) : rt[j] = rows[j] /\ j \in PendingIn(rows)
  BY <1>4, <1>5 DEF PendingIn
<1>7. Shrinks(rows, rt)
  BY <1>1, <1>4 DEF Shrinks
<1>8. Without(i) \in Seq(Nat) /\ Sorted(rt, Without(i))
  BY <1>1, <1>5, <1>6, SortedOnly DEF Without
<1>9. Keyed(rt)
  <2>1. \A j, k \in 1..n : rt[j].st # "gone" /\ rt[k].st # "gone" /\ rt[j].key = rt[k].key => j = k
    <3>1. \A j \in 1..n : rt[j].st # "gone" => rows[j].st # "gone" /\ rt[j].key = rows[j].key
      BY <1>4
    <3> QED BY <1>1, <3>1 DEF Keyed
  <2> QED BY <1>1, <1>4, <1>6, <2>1 DEF Keyed
<1>10. MarkedRows(rt, got)
  BY <1>1, <1>4, <1>7, ShrunkMarked
<1> QED BY <1>4, <1>5, <1>7, <1>8, <1>9, <1>10

\* An event the addon took, refused or was sent for the last time.
LEMMA SettleStep ==
  ASSUME IInv, NEW r \in Replica, pass[r].pc = "mark",
         NEW i, i = Head(pass[r].todo).id, rows' = Settled(i), order' = Without(i),
         UNCHANGED <<sink, linked, got>>,
         NEW p \in PassType, Shaped(p), LeaseOf(sink, r, p), pass' = [pass EXCEPT ![r] = p],
         BatchOf(rows', p), FinalOf(rows', got, p)
  PROVE  IInv'
<1>1. /\ Types /\ pass[r] \in PassType /\ Shaped(pass[r]) /\ Busying(pass[r]) /\ BatchOf(rows, pass[r])
      /\ rows \in Seq(RowType)
  BY PassHere DEF Busying
<1>2. pass[r].todo # <<>> /\ pass[r].todo \in Seq(Snapshot)
  BY <1>1, PassFields DEF Shaped
<1>3. i \in Rows
  <2>1. 1 \in DOMAIN pass[r].todo /\ i = pass[r].todo[1].id
    BY <1>2
  <2> QED BY <1>1, <2>1 DEF BatchOf, InTurn, Rows
<1>4. /\ rows' \in Seq(RowType) /\ Len(rows') = Len(rows) /\ Shrinks(rows, rows')
      /\ order' \in Seq(Nat) /\ Sorted(rows', order') /\ Keyed(rows') /\ MarkedRows(rows', got')
  BY <1>3, SettledFacts
<1>5. /\ pass'[r] = p /\ \A s \in Replica : s # r => pass'[s] = pass[s]
      /\ pass' \in [Replica -> PassType] /\ \A s \in Replica : Shaped(pass'[s])
  BY <1>1, PassSet
<1>6. Types'
  <2>1. Rows' = Rows
    BY <1>4 DEF Rows
  <2> QED BY <1>1, <1>4, <1>5, <2>1 DEF Types
<1>7. \A s \in Replica : LeaseOf(sink', s, pass'[s])
  BY <1>5 DEF IInv, Leased
<1>8. \A s \in Replica : BatchOf(rows', pass'[s]) /\ FinalOf(rows', got', pass'[s])
  <2> SUFFICES ASSUME NEW s \in Replica, s # r
               PROVE  BatchOf(rows', pass[s]) /\ FinalOf(rows', got, pass[s])
    BY <1>5
  <2>1. pass[s] \in PassType /\ BatchOf(rows, pass[s]) /\ FinalOf(rows, got, pass[s])
    BY PassHere
  <2> QED BY <1>1, <1>4, <2>1, ShrunkBatch, ShrunkFinal
<1> QED BY <1>4, <1>6, <1>7, <1>8, IInvNext

\* A pass that failed ends in one of the ways a pass can.
LEMMA FailedEnds ==
  ASSUME Types, NEW p
  PROVE  FailedPass(p) \in Endings
<1> DEFINE failures == IF sink.failures < MaxFailures THEN sink.failures + 1 ELSE MaxFailures
<1>1. failures \in 0..MaxFailures
  BY SinkFields, Bounds
<1> HIDE DEF failures
<1>2. /\ [wait |-> 0, status |-> "connected", failures |-> 0] \in Endings
      /\ [wait |-> Probe, status |-> "error", failures |-> failures] \in Endings
      /\ [wait |-> SinkWait, status |-> None, failures |-> failures] \in Endings
  BY <1>1, Bounds DEF Endings
<1>3. FailedPass(p) = IF p.any THEN [wait |-> 0, status |-> "connected", failures |-> 0]
                      ELSE IF failures >= MaxFailures
                           THEN [wait |-> Probe, status |-> "error", failures |-> failures]
                           ELSE [wait |-> SinkWait, status |-> None, failures |-> failures]
  BY DEF FailedPass, failures
<1> QED BY <1>2, <1>3

\* The end of a pass that failed.
LEMMA RetryEnds ==
  ASSUME Types, NEW q, NEW p, p = AfterRetry(q)
  PROVE  /\ p \in PassType /\ Shaped(p) /\ p.pc = "release" /\ p.left = 0
         /\ \A rs, g : BatchOf(rs, p) /\ FinalOf(rs, g, p)
<1>1. FailedPass(q) \in Endings
  BY FailedEnds
<1>2. p = Ends(q, FailedPass(q))
  BY DEF AfterRetry
<1> QED BY <1>1, <1>2, EndsFacts

\* A row, one try further.
LEMMA RetriedRow ==
  ASSUME IInv, NEW i \in PendingIn(rows), rows[i].tries + 1 < MaxAttempts
  PROVE  \E e \in RowType :
           /\ e.st = "pending" /\ e.key = rows[i].key /\ e.items = rows[i].items /\ e.kind = rows[i].kind
           /\ e.wait = RowWait /\ e.tries = rows[i].tries + 1
           /\ [rows EXCEPT ![i].wait = RowWait, ![i].tries = @ + 1] = [rows EXCEPT ![i] = e]
<1> DEFINE e == [rows[i] EXCEPT !.wait = RowWait, !.tries = @ + 1]
<1>1. rows \in Seq(RowType) /\ i \in 1..Len(rows) /\ DOMAIN rows = 1..Len(rows)
      /\ rows[i] \in RowType /\ rows[i].tries \in Nat /\ rows[i].st = "pending"
  BY RowFields DEF IInv, Types, PendingIn
<1>2. rows[i].tries + 1 \in 0..MaxAttempts
  BY <1>1, Bounds
<1>3. /\ e \in RowType /\ e.st = "pending" /\ e.key = rows[i].key /\ e.items = rows[i].items
      /\ e.kind = rows[i].kind /\ e.wait = RowWait /\ e.tries = rows[i].tries + 1
  BY <1>1, <1>2, Bounds DEF RowType
<1>4. [rows EXCEPT ![i].wait = RowWait, ![i].tries = @ + 1] = [rows EXCEPT ![i] = e]
  BY <1>1
<1> QED BY <1>3, <1>4

\* A row whose attempt failed goes back among the others, one try further.
LEMMA RetriedFacts ==
  ASSUME IInv, NEW i \in PendingIn(rows), rows[i].tries + 1 < MaxAttempts,
         NEW e \in RowType, e.st = "pending", e.key = rows[i].key, e.items = rows[i].items, e.kind = rows[i].kind,
         e.wait = RowWait, e.tries = rows[i].tries + 1,
         NEW rt, rt = [rows EXCEPT ![i] = e]
  PROVE  /\ rt \in Seq(RowType) /\ Len(rt) = Len(rows) /\ PendingIn(rt) = PendingIn(rows)
         /\ Placed(Without(i), i, RowWait, rt) \in Seq(Nat)
         /\ Sorted(rt, Placed(Without(i), i, RowWait, rt)) /\ Keyed(rt) /\ MarkedRows(rt, got)
<1> DEFINE n == Len(rows)
           rs == Settled(i)
<1>1. /\ rows \in Seq(RowType) /\ n \in Nat /\ i \in 1..n /\ Rows = 1..n /\ rows[i] \in RowType
      /\ rows[i].tries \in Nat /\ Keyed(rows) /\ MarkedRows(rows, got) /\ rows[i].st = "pending"
  BY RowFields DEF IInv, Types, Rows, Final, PendingIn
<1>2. rows[i].tries + 1 \in Nat /\ RowWait \in Nat
  BY <1>1, Bounds
<1>4. rt \in Seq(RowType) /\ Len(rt) = n /\ rt[i] = e /\ \A j \in 1..n : j # i => rt[j] = rows[j]
  BY <1>1, RowSet
<1>5. PendingIn(rt) = PendingIn(rows)
  BY <1>1, <1>2, <1>4 DEF PendingIn
<1>6. /\ rs \in Seq(RowType) /\ Len(rs) = n /\ i \notin PendingIn(rs)
      /\ Without(i) \in Seq(Nat) /\ Sorted(rs, Without(i)) /\ Keyed(rs)
  BY <1>1, SettledFacts
<1>7. /\ \A j \in 1..n : j # i => rs[j] = rows[j]
  BY <1>1 DEF Settled
<1> HIDE DEF rs
<1>8. PendingIn(rt) = PendingIn(rs) \union {i}
  BY <1>1, <1>4, <1>5, <1>6, <1>7 DEF PendingIn
<1>9. \A j \in PendingIn(rs) : rt[j] = rs[j]
  BY <1>4, <1>6, <1>7 DEF PendingIn
<1>10. rt[i].wait = RowWait /\ rt[i].tries > 0
  BY <1>1, <1>2, <1>4
<1>11. Placed(Without(i), i, RowWait, rt) \in Seq(Nat) /\ Sorted(rt, Placed(Without(i), i, RowWait, rt))
  <2>1. \A j \in PendingIn(rs) : rs[j].wait > 0 => rs[j].tries > 0
    BY <1>6 DEF Keyed
  <2>2. i \in 1..Len(rt)
    BY <1>1, <1>4
  <2>3. \A j \in PendingIn(rs) : rt[j].wait = rs[j].wait /\ rt[j].tries = rs[j].tries
    BY <1>9
  <2>4. /\ Placed(Without(i), i, rt[i].wait, rt) \in Seq(Nat)
        /\ Sorted(rt, Placed(Without(i), i, rt[i].wait, rt))
    <3>1. rt \in Seq(RowType)
      BY <1>4
    <3> QED BY <1>6, <1>8, <1>10, <2>1, <2>2, <2>3, <3>1, SortedPlaced
  <2> QED BY <1>10, <2>4
<1>12. Keyed(rt)
  <2>1. \A j \in PendingIn(rt) : rt[j].kind \in Events /\ (rt[j].wait > 0 => rt[j].tries > 0)
    BY <1>1, <1>2, <1>4, <1>5, <1>10 DEF Keyed, PendingIn
  <2>2. \A j, k \in 1..n : rt[j].st # "gone" /\ rt[k].st # "gone" /\ rt[j].key = rt[k].key => j = k
    <3>1. \A j \in 1..n : rt[j].key = rows[j].key /\ rt[j].st = rows[j].st
      BY <1>1, <1>2, <1>4
    <3> QED BY <1>1, <3>1 DEF Keyed
  <2>3. Len(rt) = n
    BY <1>4
  <2> HIDE DEF n
  <2> QED BY <2>1, <2>2, <2>3, Zenon DEF Keyed
<1>13. MarkedRows(rt, got)
  <2>1. \A j \in PendingIn(rt) : rt[j].items = rows[j].items /\ rt[j].kind = rows[j].kind
    BY <1>2, <1>4, <1>5 DEF PendingIn
  <2> QED BY <1>1, <1>5, <2>1 DEF MarkedRows
<1> QED BY <1>4, <1>5, <1>11, <1>12, <1>13

\* An attempt that failed ends the pass.
LEMMA RetryStep ==
  ASSUME IInv, NEW r \in Replica, pass[r].pc = "mark", NEW i, i = Head(pass[r].todo).id,
         Head(pass[r].todo).tries + 1 < MaxAttempts, rows[i].st = "pending",
         rows' = [rows EXCEPT ![i].wait = RowWait, ![i].tries = @ + 1],
         order' = Placed(Without(i), i, RowWait, rows'),
         pass' = [pass EXCEPT ![r] = AfterRetry(pass[r])], UNCHANGED <<sink, linked, got>>
  PROVE  IInv'
<1>1. /\ Types /\ pass[r] \in PassType /\ Shaped(pass[r]) /\ Busying(pass[r]) /\ BatchOf(rows, pass[r])
      /\ rows \in Seq(RowType) /\ LeaseOf(sink, r, pass[r])
  BY PassHere DEF Busying
<1>2. pass[r].todo # <<>> /\ pass[r].todo \in Seq(Snapshot)
  BY <1>1, PassFields DEF Shaped
<1>3. i \in PendingIn(rows) /\ rows[i].tries + 1 < MaxAttempts
  <2>1. 1 \in DOMAIN pass[r].todo /\ Head(pass[r].todo) = pass[r].todo[1]
    BY <1>2, HeadFacts
  <2> QED BY <1>1, <2>1 DEF BatchOf, InTurn, PendingIn
<1>4. /\ rows' \in Seq(RowType) /\ Len(rows') = Len(rows) /\ PendingIn(rows') = PendingIn(rows)
      /\ order' \in Seq(Nat) /\ Sorted(rows', order') /\ Keyed(rows') /\ MarkedRows(rows', got')
  <2>1. PICK e \in RowType :
          /\ e.st = "pending" /\ e.key = rows[i].key /\ e.items = rows[i].items /\ e.kind = rows[i].kind
          /\ e.wait = RowWait /\ e.tries = rows[i].tries + 1
          /\ [rows EXCEPT ![i].wait = RowWait, ![i].tries = @ + 1] = [rows EXCEPT ![i] = e]
    BY <1>3, RetriedRow, Zenon
  <2>2. rows' = [rows EXCEPT ![i] = e]
    BY <2>1, Zenon
  <2>3. /\ rows' \in Seq(RowType) /\ Len(rows') = Len(rows) /\ PendingIn(rows') = PendingIn(rows)
        /\ Placed(Without(i), i, RowWait, rows') \in Seq(Nat)
        /\ Sorted(rows', Placed(Without(i), i, RowWait, rows')) /\ Keyed(rows') /\ MarkedRows(rows', got)
    BY <1>3, <2>1, <2>2, RetriedFacts, Zenon
  <2>4. order' = Placed(Without(i), i, RowWait, rows') /\ got' = got
    OBVIOUS
  <2> QED BY <2>3, <2>4, Zenon
<1>5. PICK p : p = AfterRetry(pass[r])
  OBVIOUS
<1>6. /\ p \in PassType /\ Shaped(p) /\ p.pc = "release" /\ p.left = 0
      /\ \A rs, g : BatchOf(rs, p) /\ FinalOf(rs, g, p)
  BY <1>1, <1>5, RetryEnds
<1>7. /\ pass'[r] = p /\ \A s \in Replica : s # r => pass'[s] = pass[s]
      /\ pass' \in [Replica -> PassType] /\ \A s \in Replica : Shaped(pass'[s])
  BY <1>1, <1>5, <1>6, PassSet
<1>8. Types'
  <2>1. Rows' = Rows
    BY <1>4 DEF Rows
  <2> QED BY <1>1, <1>4, <1>7, <2>1 DEF Types
<1>9. \A s \in Replica : LeaseOf(sink', s, pass'[s])
  <2>1. LeaseOf(sink, r, p)
    BY <1>1, <1>6, ReleaseLease
  <2> QED BY <1>7, <2>1 DEF IInv, Leased
<1>10. \A s \in Replica : BatchOf(rows', pass'[s]) /\ FinalOf(rows', got', pass'[s])
  <2> SUFFICES ASSUME NEW s \in Replica, s # r
               PROVE  BatchOf(rows', pass[s]) /\ FinalOf(rows', got, pass[s])
    BY <1>6, <1>7
  <2>1. pass[s] \in PassType /\ BatchOf(rows, pass[s])
    BY PassHere
  <2>2. ~Busying(pass[s]) /\ pass[s].todo = <<>>
    <3>1. Leased
      BY DEF IInv
    <3> QED BY <1>1, <3>1, OnlyPass
  <2>3. pass[s].tried \subseteq 1..Len(rows') /\ pass[s].tried \intersect PendingIn(rows') = {}
    BY <1>4, <2>1, <2>2 DEF BatchOf, Busying
  <2> QED BY <2>1, <2>2, <2>3, EmptyBatch
<1> QED BY <1>4, <1>8, <1>9, <1>10, IInvNext

\* What comes of an answer.
LEMMA MarkOutcomeStep ==
  ASSUME IInv, NEW r \in Replica, MarkOutcome(r)
  PROVE  IInv'
<1> DEFINE p == pass[r]
           i == Head(p.todo).id
           tries == Head(p.todo).tries + 1
<1>1. p.pc = "mark" /\ UNCHANGED <<sink, linked, got>>
  BY DEF MarkOutcome
<1>2. /\ Types /\ p \in PassType /\ Shaped(p) /\ Busying(p) /\ BatchOf(rows, p)
      /\ rows \in Seq(RowType) /\ LeaseOf(sink, r, p)
  BY <1>1, PassHere DEF Busying
<1>3. p.todo # <<>> /\ p.todo \in Seq(Snapshot)
  BY <1>1, <1>2, PassFields DEF Shaped
<1>4. i \in Rows
  <2>1. 1 \in DOMAIN p.todo /\ i = p.todo[1].id
    BY <1>3
  <2> QED BY <1>2, <2>1 DEF BatchOf, InTurn, Rows
<1>5. CASE rows' = Settled(i) /\ order' = Without(i) /\ pass' = [pass EXCEPT ![r] = Proceeds(p)]
  <2>1. rows' \in Seq(RowType) /\ Shrinks(rows, rows') /\ i \notin PendingIn(rows')
    BY <1>4, <1>5, SettledFacts
  <2>2. PICK q : q = Proceeds(p)
    OBVIOUS
  <2>3. q \in PassType /\ Shaped(q) /\ LeaseOf(sink, r, q) /\ BatchOf(rows', q) /\ FinalOf(rows', got, q)
    BY <1>1, <2>1, <2>2, ProceedsFacts
  <2> QED BY <1>1, <1>5, <2>2, <2>3, SettleStep
<1>6. CASE rows' = Settled(i) /\ order' = Without(i) /\ pass' = [pass EXCEPT ![r] = Ends(p, FailedPass(p))]
  <2>1. PICK q : q = Ends(p, FailedPass(p))
    OBVIOUS
  <2>2. /\ q \in PassType /\ Shaped(q) /\ q.pc = "release" /\ q.left = 0
        /\ BatchOf(rows', q) /\ FinalOf(rows', got, q)
    <3>1. FailedPass(p) \in Endings
      BY <1>2, FailedEnds
    <3> QED BY <2>1, <3>1, EndsFacts
  <2>3. LeaseOf(sink, r, q)
    BY <1>2, <2>2, ReleaseLease
  <2> QED BY <1>1, <1>6, <2>1, <2>2, <2>3, SettleStep
<1>7. CASE /\ pass' = [pass EXCEPT ![r] = Ends(p, [wait |-> Probe, status |-> "auth_expired", failures |-> None])]
           /\ UNCHANGED <<rows, order>>
  <2>1. PICK rel : rel = [wait |-> Probe, status |-> "auth_expired", failures |-> None]
    OBVIOUS
  <2>2. rel \in Endings
    BY <2>1, Bounds DEF Endings
  <2>3. PICK q : q = Ends(p, rel)
    OBVIOUS
  <2>4. /\ q \in PassType /\ Shaped(q) /\ q.pc = "release" /\ q.left = 0
        /\ \A rs, g : BatchOf(rs, q) /\ FinalOf(rs, g, q)
    BY <2>2, <2>3, EndsFacts
  <2> QED BY <1>1, <1>2, <1>7, <2>1, <2>3, <2>4, EndStep
<1>8. CASE /\ tries < MaxAttempts
           /\ IF rows[i].st = "pending"
              THEN /\ rows' = [rows EXCEPT ![i].wait = RowWait, ![i].tries = @ + 1]
                   /\ order' = Placed(Without(i), i, RowWait, rows')
              ELSE UNCHANGED <<rows, order>>
           /\ pass' = [pass EXCEPT ![r] = AfterRetry(p)]
  <2>1. CASE rows[i].st = "pending"
    BY <1>1, <1>8, <2>1, RetryStep
  <2>2. CASE rows[i].st # "pending"
    <3>1. PICK q : q = AfterRetry(p)
      OBVIOUS
    <3>2. /\ q \in PassType /\ Shaped(q) /\ q.pc = "release" /\ q.left = 0
          /\ \A rs, g : BatchOf(rs, q) /\ FinalOf(rs, g, q)
      BY <1>2, <3>1, RetryEnds
    <3> QED BY <1>1, <1>2, <1>8, <2>2, <3>1, <3>2, EndStep
  <2> QED BY <2>1, <2>2
<1> QED BY <1>5, <1>6, <1>7, <1>8 DEF MarkOutcome

--------------------------------------------------------------------------------
(* The end of a pass, faults and time *)

\* The earliest pending row is the first in the order.
LEMMA EarliestFacts ==
  ASSUME IInv, Pending # {}
  PROVE  MinOf({rows[i].wait : i \in Pending}) \in Nat
<1> DEFINE S == {rows[i].wait : i \in Pending}
<1>1. /\ Types /\ rows \in Seq(RowType) /\ Pending = Range(order) /\ order \in Seq(Nat)
      /\ \A x, y : Before(order, x, y) => rows[x].wait <= rows[y].wait
  BY PassHere DEF IInv, Types, Sorted, Pending, PendingIn, Rows
<1>2. \A i \in Pending : rows[i].wait \in Nat
  BY <1>1, RowFields DEF Pending, Rows
<1>3. PICK k \in DOMAIN order : TRUE
  BY <1>1, RangeMembers
<1>4. DOMAIN order = 1..Len(order) /\ Len(order) \in Nat /\ 1 \in DOMAIN order
  BY <1>1, <1>3
<1>5. order[1] \in Pending
  BY <1>1, <1>4, RangeMembers
<1>6. \A i \in Pending : rows[order[1]].wait <= rows[i].wait
  <2> SUFFICES ASSUME NEW i \in Pending
               PROVE  rows[order[1]].wait <= rows[i].wait
    OBVIOUS
  <2>1. PICK x \in DOMAIN order : order[x] = i
    BY <1>1, RangeMembers
  <2>2. CASE x = 1
    BY <1>2, <2>1, <2>2
  <2>3. CASE x # 1
    <3>1. 1 < x
      BY <1>4, <2>3
    <3>2. Before(order, order[1], i)
      BY <1>4, <2>1, <3>1 DEF Before
    <3> QED BY <1>1, <3>2
  <2> QED BY <2>2, <2>3
<1>7. \E x \in S : \A y \in S : x <= y
  BY <1>5, <1>6
<1> HIDE DEF S
<1>8. MinOf(S) \in S
  BY <1>7 DEF MinOf
<1> QED BY <1>2, <1>8 DEF S

\* The release reads the rows ...
LEMMA ReleaseReadsStep ==
  ASSUME IInv, NEW r \in Replica, ReleaseReads(r)
  PROVE  IInv'
<1> DEFINE p == pass[r]
           min == IF Pending = {} THEN None ELSE MinOf({rows[i].wait : i \in Pending})
           q == [p EXCEPT !.pc = "write", !.min = min]
<1>1. /\ p.pc = "release" /\ UNCHANGED <<rows, order, sink, linked, got>>
  BY DEF ReleaseReads
<1>2. /\ p \in PassType /\ Shaped(p) /\ LeaseOf(sink, r, p) /\ Busying(p)
      /\ BatchOf(rows, p) /\ FinalOf(rows, got, p) /\ Types
  BY <1>1, PassHere DEF Busying
<1>3. min \in Nat \union {None}
  BY EarliestFacts
<1>4. pass' = [pass EXCEPT ![r] = q]
  BY <1>2 DEF ReleaseReads, Types
<1> HIDE DEF min
<1>5. q \in PassType
  BY <1>2, <1>3 DEF PassType
<1>6. q.pc = "write" /\ q.todo = p.todo /\ q.tried = p.tried /\ q.left = p.left /\ q.rel = p.rel
  BY <1>2 DEF PassType
<1> HIDE DEF q
<1>7. Shaped(q)
  BY <1>1, <1>2, <1>6 DEF Shaped
<1>8. LeaseOf(sink, r, q)
  BY <1>2, <1>6, ReleaseLease
<1>9. BatchOf(rows, q) /\ FinalOf(rows, got, q)
  BY <1>1, <1>2, <1>5, <1>6, SameBatch
<1> QED BY <1>1, <1>4, <1>5, <1>7, <1>8, <1>9, OwnStep

\* ... and writes the sink: the lease is the pass's own to give back.
LEMMA ReleaseWritesStep ==
  ASSUME IInv, NEW r \in Replica, ReleaseWrites(r)
  PROVE  IInv'
<1> DEFINE p == pass[r]
           rel == p.rel
           status == IF rel.status = None THEN sink.status ELSE rel.status
           due == IF p.min = None THEN None ELSE IF p.min < rel.wait THEN rel.wait ELSE p.min
           since == IF status # "error" THEN Probe ELSE IF status # sink.status THEN 0 ELSE sink.since
           failures == IF rel.failures = None THEN sink.failures ELSE rel.failures
           released == [due |-> due, holder |-> None, left |-> 0, status |-> status,
                        since |-> since, failures |-> failures]
<1>1. /\ p.pc = "write" /\ UNCHANGED <<rows, order, linked, got>>
      /\ IF sink.holder = r THEN sink' = released ELSE UNCHANGED sink
      /\ \E pc \in {"idle", "claim"} : pass' = [pass EXCEPT ![r] = [Idle EXCEPT !.pc = pc]]
  BY DEF ReleaseWrites
<1>2. /\ p \in PassType /\ Shaped(p) /\ LeaseOf(sink, r, p) /\ Busying(p) /\ Types
  BY <1>1, PassHere DEF Busying
<1>3. /\ p.min \in Nat \union {None} /\ rel \in Endings
  BY <1>1, <1>2, PassFields DEF Shaped
<1>4. /\ rel.wait \in Nat /\ rel.status \in {None, "connected", "error", "auth_expired"}
      /\ rel.failures \in (0..MaxFailures) \union {None}
  BY <1>3 DEF Endings
<1>5. released \in SinkType
  <2>1. due \in Nat \union {None}
    BY <1>3, <1>4
  <2>2. status \in {"connected", "error", "auth_expired"}
    BY <1>2, <1>4, SinkFields
  <2>3. since \in 0..Probe
    BY <1>2, SinkFields, Bounds
  <2>4. failures \in 0..MaxFailures
    BY <1>2, <1>4, SinkFields
  <2> HIDE DEF due, status, since, failures
  <2> QED BY <2>1, <2>2, <2>3, <2>4 DEF SinkType
<1>6. sink.holder = r
  BY <1>2 DEF LeaseOf
<1>7. sink' \in SinkType
  BY <1>1, <1>5, <1>6
<1>8. \A s \in Replica : s # r => ~Busying(pass[s])
  BY <1>2, OnlyPass DEF IInv
<1>9. \A s \in Replica : s # r => LeaseOf(sink', s, pass[s])
  BY <1>8 DEF LeaseOf
<1>10. PICK pc \in {"idle", "claim"} : pass' = [pass EXCEPT ![r] = [Idle EXCEPT !.pc = pc]]
  BY <1>1
<1>11. PICK q : q = [Idle EXCEPT !.pc = pc]
  OBVIOUS
<1>12. q \in PassType /\ Shaped(q) /\ ~Busying(q) /\ BatchOf(rows, q) /\ FinalOf(rows, got, q)
  BY <1>11, IdlePass
<1>13. LeaseOf(sink', r, q)
  BY <1>12 DEF LeaseOf
<1>14. pass' = [pass EXCEPT ![r] = q]
  BY <1>10, <1>11
<1> QED BY <1>1, <1>7, <1>9, <1>12, <1>13, <1>14, PassStep

\* A statement that fails gives the pass, or its release, up.
LEMMA StatementFailsStep ==
  ASSUME IInv, NEW r \in Replica, StatementFails(r)
  PROVE  IInv'
<1>1. /\ Busying(pass[r]) /\ UNCHANGED <<rows, order, sink, linked, got>>
      /\ pass' = [pass EXCEPT ![r] =
           IF pass[r].pc = "release" THEN Idle
           ELSE Ends(pass[r], [wait |-> 1, status |-> None, failures |-> None])]
  BY DEF StatementFails, Busying
<1>2. CASE pass[r].pc = "release"
  <2>1. pass' = [pass EXCEPT ![r] = Idle]
    BY <1>1, <1>2
  <2>2. LeaseOf(sink, r, Idle)
    BY IdlePass DEF LeaseOf, Busying
  <2> QED BY <1>1, <2>1, <2>2, IdlePass, OwnStep
<1>3. CASE pass[r].pc # "release"
  <2>1. PICK rel : rel = [wait |-> 1, status |-> None, failures |-> None]
    OBVIOUS
  <2>2. rel \in Endings
    BY <2>1 DEF Endings
  <2>3. PICK q : q = Ends(pass[r], rel)
    OBVIOUS
  <2>4. /\ q \in PassType /\ Shaped(q) /\ q.pc = "release" /\ q.left = 0
        /\ \A rs, g : BatchOf(rs, q) /\ FinalOf(rs, g, q)
    BY <2>2, <2>3, EndsFacts
  <2> QED BY <1>1, <1>3, <2>1, <2>3, <2>4, EndStep
<1> QED BY <1>2, <1>3

\* A crash leaves the lease; the request may have arrived.
LEMMA CrashStep ==
  ASSUME IInv, NEW r \in Replica, Crash(r)
  PROVE  IInv'
<1>1. /\ pass' = [pass EXCEPT ![r] = Idle] /\ UNCHANGED <<rows, order, sink, linked>>
      /\ (pass[r].pc = "wait" /\ Accepts(r)) \/ got' = got
  BY DEF Crash
<1>2. /\ got' \subseteq [id : Rows, items : SUBSET Item] /\ MarkedRows(rows, got')
      /\ \A s \in Replica : FinalOf(rows, got', pass[s])
  <2>1. CASE pass[r].pc = "wait" /\ Accepts(r)
    BY <2>1, AcceptsFacts
  <2>2. CASE got' = got
    BY <2>2 DEF IInv, Types, Final
  <2> QED BY <1>1, <2>1, <2>2
<1>3. LeaseOf(sink, r, Idle)
  BY IdlePass DEF LeaseOf, Busying
<1> QED BY <1>1, <1>2, <1>3, IdlePass, ReachStep

\* Time passes: every deadline is as much nearer as every other.
LEMMA TickStep ==
  ASSUME IInv, Tick
  PROVE  IInv'
<1> DEFINE n == Len(rows)
<1>1. \A k \in Nat : Less(k) \in Nat /\ (k > 0 => Less(k) = k - 1) /\ (k = 0 => Less(k) = 0)
  BY DEF Less
<1>2. /\ rows' = [i \in Rows |-> [rows[i] EXCEPT !.wait = Less(@)]]
      /\ sink' = [sink EXCEPT !.due = IF @ = None THEN None ELSE Less(@), !.left = Less(@),
                              !.since = IF @ < Probe THEN @ + 1 ELSE Probe]
      /\ pass' = [r \in Replica |-> [pass[r] EXCEPT !.left = Less(@), !.req = Less(@)]]
      /\ UNCHANGED <<order, linked, got>>
      /\ \A r \in Replica : Busying(pass[r]) => pass[r].pc = "wait" /\ pass[r].req > 0
  BY DEF Tick, Busying
<1>3. Types /\ rows \in Seq(RowType) /\ Rows = 1..n /\ n \in Nat /\ \A i \in 1..n : rows[i] \in RowType
  BY RowFields DEF IInv, Types, Rows
<1>4. /\ \A e \in RowType :
           /\ [e EXCEPT !.wait = Less(@)] \in RowType /\ e.wait \in Nat
           /\ [e EXCEPT !.wait = Less(@)].st = e.st /\ [e EXCEPT !.wait = Less(@)].kind = e.kind
           /\ [e EXCEPT !.wait = Less(@)].items = e.items /\ [e EXCEPT !.wait = Less(@)].lane = e.lane
           /\ [e EXCEPT !.wait = Less(@)].key = e.key /\ [e EXCEPT !.wait = Less(@)].tries = e.tries
           /\ [e EXCEPT !.wait = Less(@)].wait = Less(e.wait)
  <2> SUFFICES ASSUME NEW e \in RowType, NEW f, f = [e EXCEPT !.wait = Less(@)]
               PROVE  /\ f \in RowType /\ e.wait \in Nat /\ f.st = e.st /\ f.kind = e.kind
                      /\ f.items = e.items /\ f.lane = e.lane /\ f.key = e.key
                      /\ f.tries = e.tries /\ f.wait = Less(e.wait)
    OBVIOUS
  <2>1. e.wait \in Nat /\ Less(e.wait) \in Nat
    BY <1>1 DEF RowType
  <2> QED BY <2>1 DEF RowType
<1>5. /\ rows' \in Seq(RowType) /\ Len(rows') = n
      /\ \A i \in 1..n :
           /\ rows'[i].st = rows[i].st /\ rows'[i].kind = rows[i].kind /\ rows'[i].items = rows[i].items
           /\ rows'[i].lane = rows[i].lane /\ rows'[i].key = rows[i].key /\ rows'[i].tries = rows[i].tries
           /\ rows[i].wait \in Nat /\ rows'[i].wait = Less(rows[i].wait)
  <2>1. \A i \in 1..n : rows'[i] = [rows[i] EXCEPT !.wait = Less(@)]
    BY <1>2, <1>3
  <2>2. rows' = [i \in 1..n |-> rows'[i]]
    BY <1>2, <1>3
  <2>3. \A i \in 1..n : rows'[i] \in RowType
    BY <1>3, <1>4, <2>1
  <2>4. \A i \in 1..n :
           /\ rows'[i].st = rows[i].st /\ rows'[i].kind = rows[i].kind /\ rows'[i].items = rows[i].items
           /\ rows'[i].lane = rows[i].lane /\ rows'[i].key = rows[i].key /\ rows'[i].tries = rows[i].tries
           /\ rows[i].wait \in Nat /\ rows'[i].wait = Less(rows[i].wait)
    <3> TAKE i \in 1..n
    <3>1. rows[i] \in RowType
      BY <1>3
    <3> QED BY <1>4, <2>1, <3>1, Zenon
  <2>5. rows' \in [1..n -> RowType]
    BY <2>2, <2>3
  <2> HIDE DEF n
  <2>6. rows' \in Seq(RowType) /\ Len(rows') = n
    BY <1>3, <2>5
  <2> QED BY <2>4, <2>6
<1>6. PendingIn(rows') = PendingIn(rows) /\ PendingIn(rows) \subseteq 1..n
  BY <1>5 DEF PendingIn
<1>7. Sorted(rows', order')
  <2>1. Sorted(rows, order)
    BY DEF IInv
  <2>2. ASSUME NEW x, NEW y, Before(order, x, y)
        PROVE  rows'[x].wait <= rows'[y].wait /\ (y < x => rows'[y].tries > 0)
    <3>1. x \in 1..n /\ y \in 1..n
      BY <1>6, <2>1, <2>2, RangeMembers DEF Before, Sorted
    <3>2. rows[x].wait <= rows[y].wait /\ (y < x => rows[y].tries > 0)
      BY <2>1, <2>2 DEF Sorted
    <3>3. \A j, k \in Nat : j <= k => Less(j) <= Less(k)
      BY DEF Less
    <3> QED BY <1>5, <3>1, <3>2, <3>3
  <2> QED BY <1>2, <1>6, <2>1, <2>2 DEF Sorted
<1>8. Keyed(rows')
  <2>1. Keyed(rows)
    BY DEF IInv
  <2>2. \A i \in PendingIn(rows') : rows'[i].kind \in Events /\ (rows'[i].wait > 0 => rows'[i].tries > 0)
    <3>1. \A k \in Nat : Less(k) > 0 => k > 0
      BY DEF Less
    <3> QED BY <1>5, <1>6, <2>1, <3>1 DEF Keyed
  <2>3. \A i, j \in 1..n : rows'[i].st # "gone" /\ rows'[j].st # "gone" /\ rows'[i].key = rows'[j].key => i = j
    BY <1>5, <2>1 DEF Keyed
  <2> QED BY <1>5, <2>2, <2>3 DEF Keyed
<1>9. MarkedRows(rows', got')
  <2>1. MarkedRows(rows, got)
    BY DEF IInv, Final
  <2>2. \A i \in PendingIn(rows) : rows'[i].items = rows[i].items /\ rows'[i].kind = rows[i].kind
    BY <1>5, <1>6
  <2>3. MarkedRows(rows', got)
    BY <1>6, <2>1, <2>2 DEF MarkedRows
  <2> QED BY <1>2, <2>3
<1>10. Shrinks(rows, rows')
  <2>1. \A i \in 1..n : rows[i].lane \in Nat
    BY <1>3, RowFields
  <2> QED BY <1>3, <1>5, <2>1 DEF Shrinks
<1>11. ASSUME NEW r \in Replica
       PROVE  /\ pass'[r] \in PassType /\ pass'[r].pc = pass[r].pc /\ pass'[r].todo = pass[r].todo
              /\ pass'[r].tried = pass[r].tried /\ pass'[r].rel = pass[r].rel
              /\ pass'[r].left = Less(pass[r].left) /\ pass'[r].req = Less(pass[r].req)
  <2>1. pass'[r] = [pass[r] EXCEPT !.left = Less(@), !.req = Less(@)]
    BY <1>2
  <2>2. pass[r] \in PassType
    BY <1>3 DEF Types
  <2>3. Less(pass[r].left) \in 0..Budget /\ Less(pass[r].req) \in 0..Request
    BY <2>2, PassFields, Bounds DEF Less
  <2> QED BY <2>1, <2>2, <2>3 DEF PassType
<1>12. sink' \in SinkType /\ sink'.holder = sink.holder /\ sink'.left = Less(sink.left) /\ sink.left \in Nat
  <2> DEFINE due == IF sink.due = None THEN None ELSE Less(sink.due)
             since == IF sink.since < Probe THEN sink.since + 1 ELSE Probe
  <2>1. due \in Nat \union {None} /\ since \in 0..Probe /\ Less(sink.left) \in Nat /\ sink.left \in Nat
    <3>1. sink.due \in Nat \union {None} /\ sink.left \in Nat /\ sink.since \in 0..Probe
      BY <1>3, SinkFields
    <3>2. due \in Nat \union {None}
      BY <1>1, <3>1
    <3>3. since \in 0..Probe
      BY <3>1, Bounds
    <3> QED BY <1>1, <3>1, <3>2, <3>3
  <2>2. sink' = [sink EXCEPT !.due = due, !.left = Less(@), !.since = since]
    BY <1>2
  <2> HIDE DEF due, since
  <2>3. sink \in SinkType
    BY <1>3 DEF Types
  <2> QED BY <2>1, <2>2, <2>3 DEF SinkType
<1>13. Types'
  <2>1. Rows' = Rows
    BY <1>3, <1>5 DEF Rows
  <2>2. pass' \in [Replica -> PassType]
    BY <1>2, <1>11
  <2>3. \A r \in Replica : Shaped(pass'[r])
    BY <1>3, <1>11 DEF Types, Shaped
  <2> QED BY <1>2, <1>3, <1>5, <1>12, <2>1, <2>2, <2>3 DEF Types
<1>14. ASSUME NEW r \in Replica
       PROVE  LeaseOf(sink', r, pass'[r])
  <2> SUFFICES ASSUME Busying(pass'[r])
               PROVE  LeaseOf(sink', r, pass'[r])
    BY DEF LeaseOf
  <2>1. Busying(pass[r]) /\ pass[r].pc = "wait" /\ pass[r].req > 0
    BY <1>2, <1>11 DEF Busying
  <2>2. /\ LeaseOf(sink, r, pass[r]) /\ pass[r].left \in Nat /\ pass[r].req \in Nat
    BY PassHere, PassFields
  <2>3. /\ sink.holder = r /\ sink.left > pass[r].req
        /\ pass[r].left > 0 => sink.left >= pass[r].left + Request
    BY <2>1, <2>2 DEF LeaseOf
  <2>4. sink'.left > pass'[r].req /\ sink'.left > 0
    BY <1>11, <1>12, <2>1, <2>2, <2>3 DEF Less
  <2>5. pass'[r].left > 0 => sink'.left >= pass'[r].left + Request
    BY <1>11, <1>12, <2>1, <2>2, <2>3, Bounds DEF Less
  <2> QED BY <1>12, <2>3, <2>4, <2>5 DEF LeaseOf
<1>15. ASSUME NEW r \in Replica
       PROVE  BatchOf(rows', pass'[r]) /\ FinalOf(rows', got', pass'[r])
  <2>1. pass[r] \in PassType /\ BatchOf(rows, pass[r]) /\ FinalOf(rows, got, pass[r])
    BY PassHere
  <2>2. BatchOf(rows', pass[r]) /\ FinalOf(rows', got, pass[r])
    BY <1>3, <1>5, <1>10, <2>1, ShrunkBatch, ShrunkFinal
  <2> QED BY <1>2, <1>11, <2>1, <2>2, SameBatch
<1> QED BY <1>7, <1>8, <1>9, <1>13, <1>14, <1>15, IInvNext

--------------------------------------------------------------------------------
(* The outbox *)

\* An empty table, an idle task.
LEMMA IInvInit == Init => IInv
<1> SUFFICES ASSUME Init
             PROVE  IInv
  OBVIOUS
<1>1. /\ rows = <<>> /\ order = <<>> /\ got = {} /\ linked = TRUE
      /\ sink = [due |-> None, holder |-> None, left |-> 0, status |-> "connected", since |-> Probe, failures |-> 0]
      /\ \A r \in Replica : pass[r] = Idle
      /\ pass = [r \in Replica |-> Idle]
  BY DEF Init
<1>2. PendingIn(rows) = {} /\ Len(rows) = 0 /\ rows \in Seq(RowType) /\ order \in Seq(Nat)
  BY <1>1 DEF PendingIn
<1>3. Types
  <2>1. sink \in SinkType
    BY <1>1, Bounds DEF SinkType
  <2>2. pass \in [Replica -> PassType] /\ \A r \in Replica : Shaped(pass[r])
    BY <1>1, IdlePass
  <2> QED BY <1>1, <1>2, <2>1, <2>2 DEF Types
<1>4. Sorted(rows, order)
  <2>1. DOMAIN order = {}
    BY <1>1
  <2>2. Range(order) = {}
    BY <2>1, RangeMembers
  <2> QED BY <1>2, <2>1, <2>2 DEF Sorted, Distinct, Before
<1>5. Keyed(rows)
  BY <1>2 DEF Keyed
<1>6. Leased
  BY <1>1, IdlePass DEF Leased, LeaseOf, Busying
<1>7. Batch
  BY <1>1, IdlePass DEF Batch
<1>8. Final
  <2>1. MarkedRows(rows, got)
    BY <1>2 DEF MarkedRows
  <2> QED BY <1>1, <2>1, IdlePass DEF Final
<1> QED BY <1>3, <1>4, <1>5, <1>6, <1>7, <1>8 DEF IInv

\* A step that leaves rows, order, sink, passes and deliveries alone.
LEMMA OutsideStep ==
  ASSUME IInv, UNCHANGED <<rows, order, sink, pass, got>>, linked' \in BOOLEAN
  PROVE  IInv'
<1>1. Types'
  BY DEF IInv, Types, Rows
<1> QED BY <1>1, IInvNext DEF IInv, Leased, Batch, Final

\* Every step keeps the invariant.
LEMMA IInvStep == IInv /\ [Next]_vars => IInv'
<1> SUFFICES ASSUME IInv, [Next]_vars
             PROVE  IInv'
  OBVIOUS
<1>1. CASE Dispatch
  BY <1>1, DispatchStep
<1>2. CASE \E i \in Rows : Prune(i)
  BY <1>2, PruneStep
<1>3. ASSUME NEW r \in Replica, RunStep(r)
      PROVE  IInv'
  <2>1. CASE RunStarts(r) \/ NextBatch(r)
    BY <2>1, ClaimStep
  <2>2. CASE Read(r)
    BY <2>2, ReadStep
  <2>3. CASE Send(r)
    BY <2>3, SendStep
  <2>4. CASE \E out \in {"delivered", "retry", "permanent", "reauth"} : Answer(r, out)
    BY <2>4, AnswerStep
  <2>5. CASE MarkOutcome(r)
    BY <2>5, MarkOutcomeStep
  <2>6. CASE ReleaseReads(r)
    BY <2>6, ReleaseReadsStep
  <2>7. CASE ReleaseWrites(r)
    BY <2>7, ReleaseWritesStep
  <2> QED BY <1>3, <2>1, <2>2, <2>3, <2>4, <2>5, <2>6, <2>7 DEF RunStep
<1>4. ASSUME NEW r \in Replica, StatementFails(r) \/ Crash(r)
      PROVE  IInv'
  BY <1>4, StatementFailsStep, CrashStep
<1>5. CASE Unlink \/ Relink
  BY <1>5, OutsideStep DEF Unlink, Relink
<1>6. CASE Tick
  BY <1>6, TickStep
<1>7. CASE UNCHANGED vars
  <2>1. UNCHANGED <<rows, order, sink, pass, got>> /\ linked' = linked
    BY <1>7 DEF vars
  <2> QED BY <2>1, OutsideStep DEF IInv, Types
<1> QED BY <1>1, <1>2, <1>3, <1>4, <1>5, <1>6, <1>7 DEF Next

\* The inductive invariant holds.
LEMMA IInvHolds == Spec => []IInv
BY IInvInit, IInvStep, PTL DEF Spec

\* The table stays sound under the deliveries, events, retries, crashes and
\* lost leases: rows in order, one per idempotency key, no two passes over the
\* addon at a time (playback-handoff.ts:506).
THEOREM OutboxIsSound == Spec => []OutboxSound
<1>1. IInv => TypeOK
  <2> SUFFICES ASSUME IInv
               PROVE  TypeOK
    OBVIOUS
  <2>1. Types /\ Rows = 1..Len(rows) /\ Pending = PendingIn(rows) /\ Sorted(rows, order) /\ Keyed(rows)
        /\ rows \in Seq(RowType) /\ order \in Seq(Nat)
    BY DEF IInv, Types, Rows, Pending, PendingIn
  <2>2. \A i \in Rows :
          rows[i] \in [st : {"pending", "finished", "gone"}, kind : Events \union {None}, items : SUBSET Item,
                       lane : {SingleLane, BulkLane}, key : {rows[i].key}, wait : Nat, tries : 0..MaxAttempts]
    <3>1. \A e \in RowType :
            e \in [st : {"pending", "finished", "gone"}, kind : Events \union {None}, items : SUBSET Item,
                   lane : {SingleLane, BulkLane}, key : {e.key}, wait : Nat, tries : 0..MaxAttempts]
      BY DEF RowType
    <3> QED BY <2>1, <3>1, RowFields
  <2>3. IsInjective(order) /\ ToSet(order) = Pending
    BY <2>1, RangeMembers DEF Sorted, Distinct, IsInjective, ToSet
  <2>4. \A a, b \in DOMAIN order : a < b => rows[order[a]].wait <= rows[order[b]].wait
    BY <2>1 DEF Sorted, Before
  <2>5. \A i, j \in Rows \ {k \in Rows : rows[k].st = "gone"} : rows[i].key = rows[j].key => i = j
    BY <2>1 DEF Keyed
  <2>6. sink \in [due : Nat \union {None}, holder : Replica \union {None}, left : Nat,
                  status : {"connected", "error", "auth_expired"}, since : 0..Probe, failures : 0..MaxFailures]
    BY <2>1 DEF Types, SinkType
  <2>7. \A r \in Replica :
          /\ pass[r].pc \in {"idle", "claim", "read", "send", "wait", "mark", "release", "write"}
          /\ pass[r].left \in 0..Budget /\ pass[r].req \in 0..Request
          /\ pass[r].rel \in Releases \union {None}
          /\ pass[r].pc \in {"send", "wait", "mark"} => pass[r].todo # <<>>
    <3>1. Endings \subseteq Releases
      BY Bounds DEF Endings, Releases
    <3> QED BY <2>1, <3>1, PassFields DEF Types, Shaped
  <2> QED BY <2>1, <2>2, <2>3, <2>4, <2>5, <2>6, <2>7 DEF TypeOK, Types
<1>2. IInv => OnePass
  BY DEF IInv, Leased, LeaseOf, OnePass, Busy, Busying
<1> QED BY <1>1, <1>2, IInvHolds, PTL DEF OutboxSound

\* A row is sent before an earlier one of its lane or a faster one only once
\* that one was tried and failed in a pass before (dueDeliveries, recordRetry).
THEOREM OrderIsKept == Spec => OrderKept
<1> DEFINE Kept2 ==
      \A r \in Replica : Posts(r) =>
        \A i \in Pending :
          i < Posted(r).id /\ rows[i].lane <= rows[Posted(r).id].lane =>
            rows[i].tries > 0 /\ i \notin pass[r].tried
<1>1. IInv => Kept2
  <2> SUFFICES ASSUME IInv, NEW r \in Replica, Posts(r), NEW i \in Pending,
                      i < Posted(r).id, rows[i].lane <= rows[Posted(r).id].lane
               PROVE  rows[i].tries > 0 /\ i \notin pass[r].tried
    OBVIOUS
  <2>1. /\ pass[r] \in PassType /\ Shaped(pass[r]) /\ BatchOf(rows, pass[r]) /\ i \in PendingIn(rows)
        /\ pass[r].pc = "send"
    BY PassHere DEF Posts
  <2>2. pass[r].todo # <<>> /\ pass[r].todo \in Seq(Snapshot)
    BY <2>1, PassFields DEF Shaped
  <2>3. 1 \in DOMAIN pass[r].todo /\ Posted(r) = pass[r].todo[1] /\ DOMAIN pass[r].todo \subseteq Nat \ {0}
    BY <2>2, HeadFacts DEF Posted
  <2>4. InTurn(rows, pass[r], 1) /\ ~Ahead(pass[r], i, 1)
    BY <2>1, <2>3 DEF BatchOf, Ahead
  <2> QED BY <2>1, <2>3, <2>4 DEF InTurn, BatchOf
<1> HIDE DEF Kept2
<1>2. Spec => [][Kept2]_vars
  BY <1>1, IInvHolds, PTL
<1> QED BY <1>2 DEF OrderKept, Kept2

\* A mark is the final word on an item (dispatch.ts:313): what was queued for
\* the item before the mark is not sent once the addon has taken the mark.
THEOREM MarkIsFinal == Spec => FinalWord
<1> DEFINE Word ==
      \A r \in Replica : Posts(r) =>
        \A m \in got : m.items \intersect Posted(r).items # {} => Posted(r).id >= m.id
<1>1. IInv => Word
  <2> SUFFICES ASSUME IInv, NEW r \in Replica, Posts(r), NEW m \in got,
                      m.items \intersect Posted(r).items # {}
               PROVE  Posted(r).id >= m.id
    OBVIOUS
  <2>1. /\ pass[r] \in PassType /\ Shaped(pass[r]) /\ FinalOf(rows, got, pass[r])
        /\ pass[r].pc = "send" /\ Types
    BY PassHere DEF Posts
  <2>2. pass[r].todo # <<>> /\ pass[r].todo \in Seq(Snapshot)
    BY <2>1, PassFields DEF Shaped
  <2>3. 1 \in DOMAIN pass[r].todo /\ Posted(r) = pass[r].todo[1] /\ Posted(r) \in Snapshot
    BY <2>2, HeadFacts DEF Posted
  <2>4. FinalFor(rows, got, pass[r], 1)
    BY <2>1, <2>3 DEF FinalOf
  <2>5. ~(Posted(r).id < m.id)
    BY <2>3, <2>4 DEF FinalFor, Apart
  <2>6. Posted(r).id \in Nat /\ m.id \in Nat
    <3>1. m.id \in 1..Len(rows) /\ Len(rows) \in Nat
      BY <2>1, RowFields DEF Types, Rows
    <3> QED BY <2>3, <3>1 DEF Snapshot
  <2> QED BY <2>5, <2>6
<1> HIDE DEF Word
<1>2. Spec => [][Word]_vars
  BY <1>1, IInvHolds, PTL
<1> QED BY <1>2 DEF FinalWord, Word

--------------------------------------------------------------------------------
(* The claim of a scheduled task *)

\* A call that believes the claim is its own: what Holding says of it.
Owns(c) == call[c] \in {"claimed", "runs", "records", "releases"}

\* `running` is what the calls say, and lets one call of a replica run.
RunningMatches ==
    /\ \A r \in Instance : r \in running <=> \E s \in Source : call[r, s] = "runs"
    /\ \A r \in Instance, s, t \in Source :
          call[r, s] = "runs" /\ call[r, t] = "runs" => s = t

\* Until a claim lapses one call owns it, and the row says so.
OneOwner ==
    ~lapsed => \A r \in Instance, s \in Source :
        Owns(<<r, s>>) =>
            /\ row.holder = r /\ row.left > 0
            /\ \A q \in Instance, t \in Source : Owns(<<q, t>>) => q = r /\ t = s

ClaimIInv == ClaimTypeOK /\ RunningMatches /\ OneOwner

\* The constants are naturals.
LEMMA TaskBounds ==
  /\ Ttl \in Nat /\ Ttl > 0 /\ Interval \in Nat /\ RetryAfter \in Nat
  /\ FaultLimit \in Nat
BY TicksAssumption

\* A task that is due and that nobody runs.
LEMMA ClaimIInvInit ==
  ASSUME ClaimInit
  PROVE  ClaimIInv
<1>1. \A r \in Instance, s \in Source : call[r, s] = "idle"
  BY DEF ClaimInit, Call
<1>2. ClaimTypeOK
  <2>1. row \in [next : 0 .. Interval, holder : Instance \cup {Unset}, left : 0 .. Ttl]
    BY TaskBounds DEF ClaimInit
  <2>2. retry \in [Instance -> (0 .. RetryAfter) \cup {Unset}]
    BY DEF ClaimInit
  <2>3. failed \in 0 .. FaultLimit
    BY TaskBounds DEF ClaimInit
  <2> QED BY <2>1, <2>2, <2>3 DEF ClaimInit, ClaimTypeOK
<1>3. RunningMatches
  BY <1>1 DEF ClaimInit, RunningMatches
<1>4. OneOwner
  BY <1>1 DEF OneOwner, Owns
<1> QED BY <1>2, <1>3, <1>4 DEF ClaimIInv

CallPcs == {"idle", "claims", "claimed", "runs", "records", "releases"}

\* What a step of one call leaves of the others.
LEMMA GoesElsewhere ==
  ASSUME ClaimTypeOK, NEW r \in Instance, NEW s \in Source, NEW pc, Goes(<<r, s>>, pc)
  PROVE  /\ call'[r, s] = pc
         /\ \A q \in Instance, t \in Source :
               (q = r /\ t = s) \/ call'[q, t] = call[q, t]
<1>1. call \in [Call -> CallPcs]
  BY DEF ClaimTypeOK, CallPcs
<1>2. call' = [call EXCEPT ![<<r, s>>] = pc]
  BY DEF Goes
<1>3. \A q \in Instance, t \in Source : <<q, t>> \in Call
  BY DEF Call
<1> QED BY <1>1, <1>2, <1>3

\* A call's step leads to one of its places.
LEMMA GoesType ==
  ASSUME ClaimTypeOK, NEW r \in Instance, NEW s \in Source, NEW pc \in CallPcs, Goes(<<r, s>>, pc)
  PROVE  call' \in [Call -> CallPcs]
<1>1. call \in [Call -> CallPcs]
  BY DEF ClaimTypeOK, CallPcs
<1>2. call' = [call EXCEPT ![<<r, s>>] = pc]
  BY DEF Goes
<1> QED BY <1>1, <1>2

ScheduleRows == [next : 0 .. Interval, holder : Instance \cup {Unset}, left : 0 .. Ttl]

\* How a claim row is made.
LEMMA ScheduleRow ==
  ASSUME NEW n \in 0 .. Interval, NEW h \in Instance \cup {Unset}, NEW l \in 0 .. Ttl
  PROVE  [next |-> n, holder |-> h, left |-> l] \in ScheduleRows
BY DEF ScheduleRows

\* The parts of the type invariant a step counts with.
LEMMA ClaimCounters ==
  ASSUME ClaimTypeOK
  PROVE  /\ row \in ScheduleRows
         /\ row.next \in 0 .. Interval /\ row.holder \in Instance \cup {Unset}
         /\ row.left \in 0 .. Ttl
         /\ failed \in 0 .. FaultLimit
BY DEF ClaimTypeOK, ScheduleRows

\* Every step keeps the types.
LEMMA ClaimTypes ==
  ASSUME ClaimTypeOK, [ClaimNext]_claimVars
  PROVE  ClaimTypeOK'
<1> USE DEF CallPcs
<1>0. /\ 0 \in 0 .. Ttl /\ Ttl \in 0 .. Ttl
      /\ Interval \in 0 .. Interval
  BY TaskBounds
<1>1. ASSUME NEW r \in Instance, Poll(r) PROVE ClaimTypeOK'
  <2>1. call' \in [Call -> CallPcs]
    BY <1>1, GoesType DEF Poll, Source
  <2> QED BY <1>1, <2>1 DEF Poll, ClaimTypeOK, ScheduleRows
<1>2. ASSUME NEW r \in Instance, RunNow(r) PROVE ClaimTypeOK'
  <2>1. call' \in [Call -> CallPcs]
    BY <1>2, GoesType DEF RunNow, Source
  <2> QED BY <1>2, <2>1 DEF RunNow, ClaimTypeOK, ScheduleRows
<1>3. ASSUME NEW r \in Instance, RetryFires(r) PROVE ClaimTypeOK'
  <2>1. call' \in [Call -> CallPcs]
    BY <1>3, GoesType DEF RetryFires, Source
  <2> QED BY <1>3, <2>1 DEF RetryFires, ClaimTypeOK, ScheduleRows
<1>4. ASSUME NEW r \in Instance, NEW s \in Source, Claim(r, s) PROVE ClaimTypeOK'
  <2>1. call' \in [Call -> CallPcs]
    BY <1>4, GoesType DEF Claim
  <2>2. row' \in ScheduleRows
    BY <1>0, <1>4, ClaimCounters, ScheduleRow DEF Claim
  <2> QED BY <1>4, <2>1, <2>2 DEF Claim, ClaimTypeOK, ScheduleRows
<1>5. ASSUME NEW r \in Instance, NEW s \in Source, Starts(r, s) PROVE ClaimTypeOK'
  <2>1. call' \in [Call -> CallPcs]
    BY <1>5, GoesType DEF Starts
  <2> QED BY <1>5, <2>1 DEF Starts, ClaimTypeOK, ScheduleRows
<1>6. ASSUME NEW r \in Instance, NEW s \in Source, RunEnds(r, s) PROVE ClaimTypeOK'
  <2>1. call' \in [Call -> CallPcs]
    BY <1>6, GoesType DEF RunEnds
  <2> QED BY <1>6, <2>1 DEF RunEnds, ClaimTypeOK, ScheduleRows
<1>7. ASSUME NEW r \in Instance, NEW s \in Source, Records(r, s) PROVE ClaimTypeOK'
  <2>1. call' \in [Call -> CallPcs]
    BY <1>7, GoesType DEF Records
  <2>2. retry' \in [Instance -> (0 .. RetryAfter) \cup {Unset}]
    <3>1. PICK after \in {Unset, RetryAfter} : retry' = [retry EXCEPT ![r] = after]
      BY <1>7 DEF Records
    <3>2. after \in (0 .. RetryAfter) \cup {Unset}
      BY TaskBounds
    <3> QED BY <3>1, <3>2 DEF ClaimTypeOK
  <2> QED BY <1>7, <2>1, <2>2 DEF Records, ClaimTypeOK, ScheduleRows
<1>8. ASSUME NEW r \in Instance, NEW s \in Source, ReleaseClaim(r, s) PROVE ClaimTypeOK'
  <2>1. call' \in [Call -> CallPcs]
    BY <1>8, GoesType DEF ReleaseClaim
  <2>2. row' \in ScheduleRows
    BY <1>0, <1>8, ClaimCounters, ScheduleRow DEF ReleaseClaim
  <2> QED BY <1>8, <2>1, <2>2 DEF ReleaseClaim, ClaimTypeOK, ScheduleRows
<1>9. ASSUME NEW r \in Instance, NEW s \in Source, Renew(r, s) PROVE ClaimTypeOK'
  <2>1. row' \in ScheduleRows
    <3>1. [row EXCEPT !.left = Ttl] \in ScheduleRows
      BY <1>0, ClaimCounters DEF ScheduleRows
    <3> QED BY <1>9, <3>1, ClaimCounters DEF Renew
  <2> QED BY <1>9, <2>1 DEF Renew, ClaimTypeOK, ScheduleRows
<1>10. ASSUME NEW r \in Instance, NEW s \in Source, CallFails(r, s) PROVE ClaimTypeOK'
  <2>1. call' \in [Call -> CallPcs]
    BY <1>10, GoesType DEF CallFails, ClaimTypeOK
  <2>2. failed' \in 0 .. FaultLimit
    <3>1. failed < FaultLimit /\ failed' = failed + 1
      BY <1>10 DEF CallFails
    <3> QED BY <3>1, TaskBounds, ClaimCounters
  <2> QED BY <1>10, <2>1, <2>2 DEF CallFails, ClaimTypeOK, ScheduleRows
<1>11. ASSUME NEW r \in Instance, Dies(r) PROVE ClaimTypeOK'
  <2>1. failed' \in 0 .. FaultLimit
    <3>1. failed < FaultLimit /\ failed' = failed + 1
      BY <1>11 DEF Dies
    <3> QED BY <3>1, TaskBounds, ClaimCounters
  <2>2. call' \in [Call -> CallPcs]
    BY <1>11 DEF Dies, ClaimTypeOK
  <2>3. retry' \in [Instance -> (0 .. RetryAfter) \cup {Unset}]
    BY <1>11 DEF Dies, ClaimTypeOK
  <2> QED BY <1>11, <2>1, <2>2, <2>3 DEF Dies, ClaimTypeOK, ScheduleRows
<1>12. ASSUME RenewalTick PROVE ClaimTypeOK'
  <2>1. row' \in ScheduleRows
    <3>1. Down(row.next) \in 0 .. Interval /\ Down(row.left) \in 0 .. Ttl
      BY TaskBounds, ClaimCounters DEF Down
    <3> QED BY <1>12, <3>1, ClaimCounters, ScheduleRow DEF RenewalTick
  <2>2. retry' \in [Instance -> (0 .. RetryAfter) \cup {Unset}]
    <3>1. ASSUME NEW r \in Instance
          PROVE  (IF retry[r] = Unset THEN Unset ELSE retry[r] - 1) \in (0 .. RetryAfter) \cup {Unset}
      <4>1. retry[r] \in (0 .. RetryAfter) \cup {Unset} /\ retry[r] # 0
        BY <1>12 DEF RenewalTick, ClaimTypeOK
      <4> QED BY <4>1, TaskBounds
    <3> QED BY <1>12, <3>1 DEF RenewalTick
  <2>3. lapsed' \in BOOLEAN /\ renews' \subseteq Call /\ asked' = {}
    BY <1>12 DEF RenewalTick, ClaimTypeOK
  <2>4. failed' \in 0 .. FaultLimit
    <3>1. failed' \in {failed, failed + 1} /\ failed' <= FaultLimit
      BY <1>12 DEF RenewalTick
    <3> QED BY <3>1, TaskBounds, ClaimCounters
  <2> QED BY <1>12, <2>1, <2>2, <2>3, <2>4 DEF RenewalTick, ClaimTypeOK, ScheduleRows
<1>13. CASE UNCHANGED claimVars
  BY <1>13 DEF claimVars, ClaimTypeOK
<1> QED
  BY <1>1, <1>2, <1>3, <1>4, <1>5, <1>6, <1>7, <1>8, <1>9, <1>10, <1>11, <1>12, <1>13
  DEF ClaimNext, CallStep

--------------------------------------------------------------------------------
(* Who runs *)

\* A step of a call that neither ends a run nor starts one.
LEMMA QuietGoes ==
  ASSUME ClaimTypeOK, RunningMatches, NEW r \in Instance, NEW s \in Source, NEW pc \in CallPcs \ {"runs"},
         Goes(<<r, s>>, pc), call[r, s] # "runs", running' = running
  PROVE  RunningMatches'
<1>1. /\ call'[r, s] = pc
      /\ \A q \in Instance, t \in Source :
            (q = r /\ t = s) \/ call'[q, t] = call[q, t]
  BY GoesElsewhere
<1>2. ASSUME NEW q \in Instance, NEW t \in Source
      PROVE  call'[q, t] = "runs" <=> call[q, t] = "runs"
  <2>1. CASE q = r /\ t = s
    BY <1>1, <2>1
  <2>2. CASE ~(q = r /\ t = s)
    BY <1>1, <2>2
  <2> QED BY <2>1, <2>2
<1> QED BY <1>2, ZenonT(30) DEF RunningMatches

\* Every step keeps `running` in step with the calls.
LEMMA RunningStep ==
  ASSUME ClaimTypeOK, RunningMatches, [ClaimNext]_claimVars
  PROVE  RunningMatches'
<1> USE DEF CallPcs, RunningMatches
<1>1. ASSUME NEW r \in Instance, Poll(r) PROVE RunningMatches'
  BY <1>1, QuietGoes DEF Poll, Source
<1>2. ASSUME NEW r \in Instance, RunNow(r) PROVE RunningMatches'
  BY <1>2, QuietGoes DEF RunNow, Source
<1>3. ASSUME NEW r \in Instance, RetryFires(r) PROVE RunningMatches'
  BY <1>3, QuietGoes DEF RetryFires, Source
<1>4. ASSUME NEW r \in Instance, NEW s \in Source, Claim(r, s) PROVE RunningMatches'
  BY <1>4, QuietGoes DEF Claim
<1>5. ASSUME NEW r \in Instance, NEW s \in Source, Starts(r, s) PROVE RunningMatches'
  <2>1. CASE r \in running
    BY <1>5, <2>1, QuietGoes DEF Starts
  <2>2. CASE r \notin running
    <3>1. \A t \in Source : call[r, t] # "runs"
      BY <2>2
    <3>2. /\ call'[r, s] = "runs"
          /\ \A q \in Instance, t \in Source :
                (q = r /\ t = s) \/ call'[q, t] = call[q, t]
      BY <1>5, <2>2, GoesElsewhere DEF Starts
    <3>3. running' = running \cup {r}
      BY <1>5, <2>2 DEF Starts
    <3>4. ASSUME NEW q \in Instance
          PROVE  q \in running' <=> \E t \in Source : call'[q, t] = "runs"
      <4>1. CASE q = r
        BY <3>2, <3>3, <4>1
      <4>2. CASE q # r
        <5>1. \A t \in Source : call'[q, t] = call[q, t]
          BY <3>2, <4>2, Zenon
        <5>2. q \in running' <=> q \in running
          BY <3>3, <4>2
        <5> QED BY <5>1, <5>2, Zenon
      <4> QED BY <4>1, <4>2
    <3>5. ASSUME NEW q \in Instance, NEW t \in Source, NEW u \in Source,
                 call'[q, t] = "runs", call'[q, u] = "runs"
          PROVE  t = u
      <4>1. q = r => t = s /\ u = s
        BY <3>1, <3>2, <3>5
      <4>2. q # r => call[q, t] = "runs" /\ call[q, u] = "runs"
        BY <3>2, <3>5
      <4> QED BY <4>1, <4>2
    <3> QED BY <3>4, <3>5
  <2> QED BY <2>1, <2>2
<1>6. ASSUME NEW r \in Instance, NEW s \in Source, RunEnds(r, s) PROVE RunningMatches'
  <2>1. /\ call'[r, s] = "records"
        /\ \A q \in Instance, t \in Source :
              (q = r /\ t = s) \/ call'[q, t] = call[q, t]
    BY <1>6, GoesElsewhere DEF RunEnds
  <2>2. \A t \in Source : call[r, t] = "runs" => t = s
    BY <1>6 DEF RunEnds
  <2>3. running' = running \ {r}
    BY <1>6 DEF RunEnds
  <2>4. ASSUME NEW q \in Instance
        PROVE  q \in running' <=> \E t \in Source : call'[q, t] = "runs"
    <3>1. CASE q = r
      <4>1. \A t \in Source : call'[r, t] # "runs"
        BY <2>1, <2>2
      <4> QED BY <2>3, <3>1, <4>1
    <3>2. CASE q # r
      <4>1. \A t \in Source : call'[q, t] = call[q, t]
        BY <2>1, <3>2, Zenon
      <4>2. q \in running' <=> q \in running
        BY <2>3, <3>2
      <4> QED BY <4>1, <4>2, Zenon
    <3> QED BY <3>1, <3>2
  <2>5. ASSUME NEW q \in Instance, NEW t \in Source, NEW u \in Source,
               call'[q, t] = "runs", call'[q, u] = "runs"
        PROVE  t = u
    <3>1. call[q, t] = "runs" \/ (q = r /\ t = s)
      BY <2>1, <2>5, Zenon
    <3>2. call[q, u] = "runs" \/ (q = r /\ u = s)
      BY <2>1, <2>5, Zenon
    <3>3. call'[r, s] # "runs"
      BY <2>1
    <3> QED BY <2>2, <2>5, <3>1, <3>2, <3>3, Zenon
  <2> QED BY <2>4, <2>5
<1>7. ASSUME NEW r \in Instance, NEW s \in Source, Records(r, s) PROVE RunningMatches'
  BY <1>7, QuietGoes DEF Records
<1>8. ASSUME NEW r \in Instance, NEW s \in Source, ReleaseClaim(r, s) PROVE RunningMatches'
  BY <1>8, QuietGoes DEF ReleaseClaim
<1>9. ASSUME NEW r \in Instance, NEW s \in Source, CallFails(r, s) PROVE RunningMatches'
  <2>1. CASE Goes(<<r, s>>, "idle") /\ call[r, s] # "runs"
    BY <1>9, <2>1, QuietGoes DEF CallFails
  <2>2. CASE UNCHANGED call
    BY <1>9, <2>2 DEF CallFails
  <2>3. \/ call[r, s] \in {"claims", "releases"} /\ Goes(<<r, s>>, "idle")
        \/ UNCHANGED call
    BY <1>9 DEF CallFails
  <2> QED BY <2>1, <2>2, <2>3
<1>10. ASSUME NEW r \in Instance, Dies(r) PROVE RunningMatches'
  <2>1. \A q \in Instance, t \in Source :
           call'[q, t] = IF q = r THEN "idle" ELSE call[q, t]
    BY <1>10 DEF Dies, Call
  <2>2. running' = running \ {r}
    BY <1>10 DEF Dies
  <2>3. ASSUME NEW q \in Instance
        PROVE  q \in running' <=> \E t \in Source : call'[q, t] = "runs"
    BY <2>1, <2>2
  <2>4. ASSUME NEW q \in Instance, NEW t \in Source, NEW u \in Source,
               call'[q, t] = "runs", call'[q, u] = "runs"
        PROVE  t = u
    <3>1. q # r
      BY <2>1, <2>4
    <3>2. call[q, t] = "runs" /\ call[q, u] = "runs"
      BY <2>1, <2>4, <3>1, Zenon
    <3> QED BY <3>2, Zenon
  <2> QED BY <2>3, <2>4
<1>11. CASE UNCHANGED <<call, running>>
  BY <1>11
<1>12. ASSUME NEW r \in Instance, NEW s \in Source, Renew(r, s) PROVE UNCHANGED <<call, running>>
  BY <1>12 DEF Renew
<1>13. RenewalTick \/ UNCHANGED claimVars => UNCHANGED <<call, running>>
  BY DEF RenewalTick, claimVars
<1> QED
  BY <1>1, <1>2, <1>3, <1>4, <1>5, <1>6, <1>7, <1>8, <1>9, <1>10, <1>11, <1>12, <1>13
  DEF ClaimNext, CallStep

--------------------------------------------------------------------------------
(* Who owns the claim *)

\* No call becomes an owner, and the claim stays.
LEMMA ShrinkOwns ==
  ASSUME OneOwner, lapsed' = lapsed,
         \A q \in Instance, t \in Source : Owns(<<q, t>>)' => Owns(<<q, t>>),
         row'.holder = row.holder, row.left > 0 => row'.left > 0
  PROVE  OneOwner'
<1>1. ASSUME ~lapsed, NEW q \in Instance, NEW t \in Source, Owns(<<q, t>>)'
      PROVE  /\ row'.holder = q /\ row'.left > 0
             /\ \A p \in Instance, u \in Source : Owns(<<p, u>>)' => p = q /\ u = t
  <2>1. Owns(<<q, t>>)
    BY <1>1
  <2>2. row.holder = q /\ row.left > 0
    BY <1>1, <2>1 DEF OneOwner
  <2>3. \A p \in Instance, u \in Source : Owns(<<p, u>>) => p = q /\ u = t
    BY <1>1, <2>1 DEF OneOwner
  <2> QED BY <2>2, <2>3
<1> QED BY <1>1 DEF OneOwner

\* A step of one call that makes it no owner.
LEMMA StepOwns ==
  ASSUME ClaimTypeOK, NEW r \in Instance, NEW s \in Source, NEW pc, Goes(<<r, s>>, pc),
         Owns(<<r, s>>) \/ pc \in {"idle", "claims"},
         NEW q \in Instance, NEW t \in Source, Owns(<<q, t>>)'
  PROVE  Owns(<<q, t>>)
<1>1. /\ call'[r, s] = pc
      /\ \A p \in Instance, u \in Source :
            (p = r /\ u = s) \/ call'[p, u] = call[p, u]
  BY GoesElsewhere
<1>2. call'[r, s] = pc /\ ((q = r /\ t = s) \/ call'[q, t] = call[q, t])
  BY <1>1
<1>3. call'[q, t] \in {"claimed", "runs", "records", "releases"}
  BY DEF Owns
<1>4. CASE q = r /\ t = s
  BY <1>2, <1>3, <1>4 DEF Owns
<1>5. CASE ~(q = r /\ t = s)
  BY <1>2, <1>3, <1>5 DEF Owns
<1> QED BY <1>4, <1>5

\* Every step keeps at most one call believing that it holds the claim.
LEMMA OwnerStep ==
  ASSUME ClaimTypeOK, RunningMatches, OneOwner, [ClaimNext]_claimVars
  PROVE  OneOwner'
<1> USE DEF CallPcs
<1>1. ASSUME NEW r \in Instance, Poll(r) PROVE OneOwner'
  <2>1. Goes(<<r, "poll">>, "claims") /\ UNCHANGED <<row, lapsed>>
    BY <1>1 DEF Poll
  <2> QED BY <2>1, StepOwns, ShrinkOwns DEF Source
<1>2. ASSUME NEW r \in Instance, RunNow(r) PROVE OneOwner'
  <2>1. Goes(<<r, "now">>, "claims") /\ UNCHANGED <<row, lapsed>>
    BY <1>2 DEF RunNow
  <2> QED BY <2>1, StepOwns, ShrinkOwns DEF Source
<1>3. ASSUME NEW r \in Instance, RetryFires(r) PROVE OneOwner'
  <2>1. Goes(<<r, "retry">>, "claims") /\ UNCHANGED <<row, lapsed>>
    BY <1>3 DEF RetryFires
  <2> QED BY <2>1, StepOwns, ShrinkOwns DEF Source
<1>4. ASSUME NEW r \in Instance, NEW s \in Source, Claim(r, s) PROVE OneOwner'
  <2>1. CASE row.left = 0 /\ row' = [next |-> row.next, holder |-> r, left |-> Ttl]
             /\ Goes(<<r, s>>, "claimed")
    <3>1. lapsed' = lapsed
      BY <1>4 DEF Claim
    <3>2. ~lapsed => \A q \in Instance, t \in Source : ~Owns(<<q, t>>)
      <4>1. ~(row.left > 0)
        BY <2>1
      <4> QED BY <4>1 DEF OneOwner
    <3>3. /\ call'[r, s] = "claimed"
          /\ \A q \in Instance, t \in Source :
                (q = r /\ t = s) \/ call'[q, t] = call[q, t]
      BY <2>1, GoesElsewhere
    <3>4. ~lapsed => \A q \in Instance, t \in Source : Owns(<<q, t>>)' => q = r /\ t = s
      BY <3>2, <3>3 DEF Owns
    <3>5. row'.holder = r /\ row'.left > 0
      BY <2>1, TaskBounds
    <3> QED BY <3>1, <3>4, <3>5 DEF OneOwner
  <2>2. CASE Goes(<<r, s>>, "idle") /\ UNCHANGED row
    <3>1. lapsed' = lapsed
      BY <1>4 DEF Claim
    <3> QED BY <2>2, <3>1, StepOwns, ShrinkOwns
  <2> QED BY <1>4, <2>1, <2>2 DEF Claim, ClaimDue, ClaimNow, Free
<1>5. ASSUME NEW r \in Instance, NEW s \in Source, NEW pc \in CallPcs, Owns(<<r, s>>),
             Goes(<<r, s>>, pc), UNCHANGED <<row, lapsed>>
      PROVE  OneOwner'
  BY <1>5, StepOwns, ShrinkOwns
<1>6. ASSUME NEW r \in Instance, NEW s \in Source, Starts(r, s) PROVE OneOwner'
  <2>1. Owns(<<r, s>>) /\ UNCHANGED <<row, lapsed>>
    BY <1>6 DEF Starts, Owns
  <2>2. Goes(<<r, s>>, "releases") \/ Goes(<<r, s>>, "runs")
    BY <1>6 DEF Starts
  <2> QED BY <1>5, <2>1, <2>2
<1>7. ASSUME NEW r \in Instance, NEW s \in Source, RunEnds(r, s) PROVE OneOwner'
  <2>1. Owns(<<r, s>>) /\ UNCHANGED <<row, lapsed>> /\ Goes(<<r, s>>, "records")
    BY <1>7 DEF RunEnds, Owns
  <2> QED BY <1>5, <2>1
<1>8. ASSUME NEW r \in Instance, NEW s \in Source, Records(r, s) PROVE OneOwner'
  <2>1. Owns(<<r, s>>) /\ UNCHANGED <<row, lapsed>> /\ Goes(<<r, s>>, "releases")
    BY <1>8 DEF Records, Owns
  <2> QED BY <1>5, <2>1
<1>9. ASSUME NEW r \in Instance, NEW s \in Source, ReleaseClaim(r, s) PROVE OneOwner'
  <2>1. Owns(<<r, s>>) /\ lapsed' = lapsed /\ Goes(<<r, s>>, "idle")
    BY <1>9 DEF ReleaseClaim, Owns
  <2>2. /\ call'[r, s] = "idle"
        /\ \A q \in Instance, t \in Source :
              (q = r /\ t = s) \/ call'[q, t] = call[q, t]
    BY <2>1, GoesElsewhere
  <2>3. ASSUME NEW q \in Instance, NEW t \in Source, ~lapsed, Owns(<<q, t>>)'
        PROVE  FALSE
    <3>1. Owns(<<q, t>>)
      BY <2>1, <2>3, StepOwns
    <3>2. q = r /\ t = s
      BY <2>1, <2>3, <3>1 DEF OneOwner
    <3> QED BY <2>2, <2>3, <3>2 DEF Owns
  <2> QED BY <2>1, <2>3 DEF OneOwner
<1>10. ASSUME NEW r \in Instance, NEW s \in Source, Renew(r, s) PROVE OneOwner'
  <2>1. UNCHANGED <<call, lapsed>>
    BY <1>10 DEF Renew
  <2>2. row'.holder = row.holder /\ (row.left > 0 => row'.left > 0)
    BY <1>10, TaskBounds, ClaimCounters DEF Renew, ScheduleRows
  <2> QED BY <2>1, <2>2, ShrinkOwns DEF Owns
<1>11. ASSUME NEW r \in Instance, NEW s \in Source, CallFails(r, s) PROVE OneOwner'
  <2>1. UNCHANGED <<row, lapsed>>
    BY <1>11 DEF CallFails
  <2>2. CASE Goes(<<r, s>>, "idle")
    BY <2>1, <2>2, StepOwns, ShrinkOwns
  <2>3. CASE UNCHANGED call
    BY <2>1, <2>3, ShrinkOwns DEF Owns
  <2>4. Goes(<<r, s>>, "idle") \/ UNCHANGED call
    BY <1>11 DEF CallFails
  <2> QED BY <2>2, <2>3, <2>4
<1>12. ASSUME NEW r \in Instance, Dies(r) PROVE OneOwner'
  <2>1. UNCHANGED <<row, lapsed>>
    BY <1>12 DEF Dies
  <2>2. \A q \in Instance, t \in Source :
           call'[q, t] = IF q = r THEN "idle" ELSE call[q, t]
    BY <1>12 DEF Dies, Call
  <2>3. \A q \in Instance, t \in Source : Owns(<<q, t>>)' => Owns(<<q, t>>)
    BY <2>2 DEF Owns
  <2> QED BY <2>1, <2>3, ShrinkOwns
<1>13. ASSUME RenewalTick PROVE OneOwner'
  <2>1. UNCHANGED call /\ row'.holder = row.holder
    BY <1>13 DEF RenewalTick
  <2>2. \A q \in Instance, t \in Source : Owns(<<q, t>>)' <=> Owns(<<q, t>>)
    BY <2>1 DEF Owns
  <2>3. ASSUME NEW q \in Instance, NEW t \in Source, ~lapsed', Owns(<<q, t>>)
        PROVE  ~lapsed /\ row'.left > 0
    <3>1. <<q, t>> \in Call
      BY DEF Call
    <3>2. \E c \in Call : Holding(c)
      BY <2>3, <3>1 DEF Owns, Holding, Renewing
    <3>3. ~lapsed /\ row'.left # 0
      BY <1>13, <2>3, <3>2 DEF RenewalTick
    <3>4. row'.left = Down(row.left)
      BY <1>13 DEF RenewalTick
    <3>5. row.left \in Nat
      BY ClaimCounters, TaskBounds
    <3> QED BY <3>3, <3>4, <3>5 DEF Down
  <2> QED BY <2>1, <2>2, <2>3 DEF OneOwner
<1>14. CASE UNCHANGED claimVars
  <2>1. UNCHANGED <<row, call, lapsed>>
    BY <1>14 DEF claimVars
  <2> QED BY <2>1, ShrinkOwns DEF Owns
<1> QED
  BY <1>1, <1>2, <1>3, <1>4, <1>6, <1>7, <1>8, <1>9, <1>10, <1>11, <1>12, <1>13, <1>14
  DEF ClaimNext, CallStep

--------------------------------------------------------------------------------

\* The invariant is enough for the property.
LEMMA ExclusiveFromOwner == ClaimIInv => RunsExclusive
<1> SUFFICES ASSUME ClaimIInv, ~lapsed, NEW r \in running PROVE row.holder = r /\ row.left > 0
  BY DEF RunsExclusive
<1>1. r \in Instance
  BY DEF ClaimIInv, ClaimTypeOK
<1>2. PICK s \in Source : call[r, s] = "runs"
  BY <1>1 DEF ClaimIInv, RunningMatches
<1> QED BY <1>1, <1>2 DEF ClaimIInv, OneOwner, Owns

\* The claim and the flag `running` together: whatever polls, requests, retries,
\* failed statements and restarts occur, on however many replicas, nobody runs
\* the task but the holder of a live claim, until a claim has run out under a
\* run (executeClaimed and the statements of TaskStateRepository).
THEOREM ClaimsHold == ClaimSpec => []ClaimsSound
<1>1. ClaimInit => ClaimIInv
  BY ClaimIInvInit
<1>2. ClaimIInv /\ [ClaimNext]_claimVars => ClaimIInv'
  BY ClaimTypes, RunningStep, OwnerStep DEF ClaimIInv
<1>3. ClaimIInv => ClaimsSound
  BY ExclusiveFromOwner DEF ClaimIInv, ClaimsSound
<1> QED BY <1>1, <1>2, <1>3, PTL DEF ClaimSpec

================================================================================
