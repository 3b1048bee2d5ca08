------------------------- MODULE ProviderWorkerPoolProofs -------------------------
(***************************************************************************)
(* Whatever the requests, the number of connections and their depth, and   *)
(* however dials and transfers end: no request is lost or held twice, the  *)
(* sockets stay under the ceiling, recovery from a failed login dials one  *)
(* probe, and queued work always has something pending that dispatches     *)
(* again, except background work on a provider of one connection of depth  *)
(* one, whose idle share rounds to zero.                                   *)
(***************************************************************************)
EXTENDS ProviderWorkerPool, DataLemmas

Running == {r \in Req : req[r] = "running"}
Orphans == {r \in Req : req[r] = "orphan"}

\* What a queue holds: queued requests of its class, each of them once.
QueueSound ==
    /\ \A p \in Class : Distinct(queue[p])
    /\ \A p \in Class : \A r \in Range(queue[p]) : req[r] = "queued" /\ prio[r] = p
    /\ \A r \in Queued : r \in Range(queue[prio[r]])

\* A failed login is blocked or past its cooldown, and a walk goes on past the
\* first slot only when logins are not blocked.
AuthSound ==
    /\ state = "auth_failed" => auth # "clear"
    /\ cursor > 1 => ~AuthBlocked

\* A closed pool holds no queued request and dispatches nothing.
ClosedSound == closed => cursor = 0 /\ Queued = {}

\* What a walk leaves behind: no dead connection, and nothing that a usable
\* connection could have taken while no transfer runs.
WalkSound ==
    /\ \A s \in Slots : s < cursor =>
          conn[s] # "dead" /\ (conn[s] = "up" /\ Running = {} => PulledClass = {})
    /\ cursor = MaxConns + 1 => HasWork

\* Something that will dispatch again is pending.
Pending ==
    \/ Conns({"dialing"}) # {}
    \/ \E r \in Req : req[r] \in {"running", "orphan"}
    \/ retry
    \/ allowed < MaxConns

\* A provider that can never serve background work.
Lone == MaxConns * Depth = 1

\* NoStrandedWork, but for background work on such a provider.
Served ==
    HasWork /\ cursor = 0 =>
       Pending \/ (Lone /\ queue[High] = <<>> /\ queue[Low] = <<>>)

IInv ==
    /\ TypeOK /\ QueueSound /\ AuthSound /\ ClosedSound /\ ConnsWithinCeiling
    /\ WalkSound /\ Served

--------------------------------------------------------------------------------
(* Queues and ranks *)

\* shift: the first element leaves, and a queue without repetitions does not
\* hold it any longer.
LEMMA TailFacts ==
    ASSUME NEW S, NEW q \in Seq(S), q # <<>>, Distinct(q)
    PROVE  /\ Head(q) \in S /\ Tail(q) \in Seq(S) /\ Distinct(Tail(q))
           /\ Head(q) \in Range(q) /\ Range(Tail(q)) = Range(q) \ {Head(q)}
<1> DEFINE t == Tail(q)
           n == Len(q)
<1>1. /\ n \in Nat /\ n > 0 /\ DOMAIN q = 1..n /\ Head(q) = q[1] /\ q[1] \in S
      /\ t \in Seq(S) /\ DOMAIN t = 1..(n - 1) /\ \A i \in 1..(n - 1) : t[i] = q[i + 1]
  BY HeadTailProperties, LenProperties
<1> HIDE DEF t, n
<1>2. Range(q) = {q[i] : i \in 1..n} /\ Range(t) = {t[i] : i \in 1..(n - 1)}
  BY <1>1, RangeMembers
<1>3. 1 \in 1..n /\ \A i \in 1..(n - 1) : i + 1 \in 1..n /\ i + 1 # 1
  BY <1>1
<1>4. \A i \in 1..n : i = 1 \/ (i - 1 \in 1..(n - 1) /\ (i - 1) + 1 = i)
  BY <1>1
<1>5. Distinct(t)
  <2> SUFFICES ASSUME NEW i \in 1..(n - 1), NEW j \in 1..(n - 1), t[i] = t[j] PROVE i = j
    BY <1>1 DEF Distinct
  <2>1. i + 1 \in 1..n /\ j + 1 \in 1..n /\ q[i + 1] = q[j + 1]
    BY <1>1, <1>3
  <2>2. i + 1 = j + 1
    BY <1>1, <2>1, ZenonT(30) DEF Distinct
  <2> QED BY <2>2, <1>1
<1>6. ASSUME NEW x \in Range(t) PROVE x \in Range(q) \ {q[1]}
  <2>1. PICK i \in 1..(n - 1) : x = t[i]
    BY <1>2
  <2>2. x = q[i + 1] /\ i + 1 \in 1..n /\ i + 1 # 1
    BY <1>1, <1>3, <2>1
  <2> QED BY <1>1, <1>2, <1>3, <2>2, Zenon DEF Distinct
<1>7. ASSUME NEW x \in Range(q), x # q[1] PROVE x \in Range(t)
  <2>1. PICK i \in 1..n : x = q[i]
    BY <1>2
  <2>2. i - 1 \in 1..(n - 1) /\ t[i - 1] = x
    BY <1>1, <1>4, <1>7, <2>1
  <2> QED BY <1>2, <2>2, Zenon
<1>8. q[1] \in Range(q)
  BY <1>2, <1>3, Zenon
<1> QED BY <1>1, <1>5, <1>6, <1>7, <1>8 DEF t

\* splice: an element leaves a queue without repetitions, the others stay.
LEMMA RemoveFirstFacts ==
    ASSUME NEW S, NEW q \in Seq(S), Distinct(q), NEW e
    PROVE  /\ RemoveFirst(q, e) \in Seq(S) /\ Distinct(RemoveFirst(q, e))
           /\ Range(RemoveFirst(q, e)) = Range(q) \ {e}
<1> DEFINE n == Len(q)
<1>1. n \in Nat /\ DOMAIN q = 1..n
  BY LenProperties
<1>2. Range(q) = {q[i] : i \in 1..n}
  BY <1>1, RangeMembers
<1> HIDE DEF n
<1>3. CASE e \notin Range(q)
  <2>1. RemoveFirst(q, e) = q
    BY <1>2, <1>3 DEF RemoveFirst, n
  <2> QED BY <1>3, <2>1
<1>4. CASE e \in Range(q)
  <2> DEFINE w == RemoveFirst(q, e)
  <2>1. PICK i \in 1..n : q[i] = e
    BY <1>2, <1>4
  <2>2. {j \in 1..n : q[j] = e} = {i}
    BY <1>1, <2>1, Zenon DEF Distinct
  <2>3. Min({i}) = i
    BY <1>1 DEF Min
  <2>4. w = RemoveAt(q, i)
    BY <2>1, <2>2, <2>3 DEF RemoveFirst, SelectInSeq, n
  <2>5. /\ w \in Seq(S) /\ Len(w) = n - 1
        /\ \A j \in 1..(n - 1) : w[j] = IF j < i THEN q[j] ELSE q[j + 1]
    BY <2>1, <2>4, RemoveAtProperties DEF n
  <2> HIDE DEF w
  <2> DEFINE old(j) == IF j < i THEN j ELSE j + 1
  <2>6. DOMAIN w = 1..(n - 1) /\ Range(w) = {w[j] : j \in 1..(n - 1)}
    BY <2>5, LenProperties, RangeMembers
  <2>7. \A j \in 1..(n - 1) : w[j] = q[old(j)] /\ old(j) \in 1..n /\ old(j) # i
    BY <1>1, <2>1, <2>5
  <2>8. \A j, k \in 1..(n - 1) : old(j) = old(k) => j = k
    BY <1>1, <2>1
  <2>9. \A k \in 1..n : k # i => \E j \in 1..(n - 1) : old(j) = k
    <3> SUFFICES ASSUME NEW k \in 1..n, k # i PROVE \E j \in 1..(n - 1) : old(j) = k
      OBVIOUS
    <3>1. CASE k < i
      <4>1. k \in 1..(n - 1) /\ old(k) = k
        BY <1>1, <2>1, <3>1
      <4> QED BY <4>1
    <3>2. CASE ~(k < i)
      <4>1. k - 1 \in 1..(n - 1) /\ old(k - 1) = k
        BY <1>1, <2>1, <3>2
      <4> QED BY <4>1
    <3> QED BY <3>1, <3>2
  <2> HIDE DEF old
  <2>10. Distinct(w)
    <3> SUFFICES ASSUME NEW j \in 1..(n - 1), NEW k \in 1..(n - 1), w[j] = w[k] PROVE j = k
      BY <2>6 DEF Distinct
    <3>1. old(j) = old(k)
      BY <1>1, <2>7, Zenon DEF Distinct
    <3> QED BY <2>8, <3>1
  <2>11. ASSUME NEW x \in Range(w) PROVE x \in Range(q) \ {e}
    <3>1. PICK j \in 1..(n - 1) : x = w[j]
      BY <2>6
    <3>2. x = q[old(j)] /\ old(j) \in 1..n /\ old(j) # i
      BY <2>7, <3>1
    <3> QED BY <1>1, <1>2, <2>1, <3>2, Zenon DEF Distinct
  <2>12. ASSUME NEW x \in Range(q), x # e PROVE x \in Range(w)
    <3>1. PICK k \in 1..n : x = q[k]
      BY <1>2
    <3>2. k # i
      BY <2>1, <2>12, <3>1
    <3>3. PICK j \in 1..(n - 1) : old(j) = k
      BY <2>9, <3>2
    <3> QED BY <2>6, <2>7, <3>1, <3>3, Zenon
  <2> QED BY <2>5, <2>10, <2>11, <2>12 DEF w
<1> QED BY <1>3, <1>4

\* No more than k members of a set of slots have fewer than k below them.
LEMMA LowestFew ==
    ASSUME NEW n \in Nat, NEW S \in SUBSET (1..n), NEW k \in Nat
    PROVE  Cardinality({s \in S : Cardinality({t \in S : t < s}) < k}) <= k
<1> DEFINE Few == {s \in S : Cardinality({t \in S : t < s}) < k}
<1>1. IsFiniteSet(1..n) /\ IsFiniteSet(S)
  <2>1. 1 \in Int /\ n \in Int
    OBVIOUS
  <2>2. IsFiniteSet(1..n)
    BY <2>1, FS_Interval
  <2> QED BY <2>2, FS_Subset
<1>2. Few \subseteq S /\ Few \subseteq 1..n /\ IsFiniteSet(Few)
  BY <1>1, FS_Subset
<1>3. CASE Few = {}
  <2>1. Cardinality(Few) = 0
    BY <1>3, FS_EmptySet
  <2> QED BY <2>1
<1>4. CASE Few # {}
  <2> DEFINE Bad == {n - s : s \in Few}
  <2>1. Bad \subseteq Nat /\ Bad # {}
    <3> HIDE DEF Few
    <3>1. \A s \in 1..n : n - s \in Nat
      OBVIOUS
    <3> QED BY <1>2, <1>4, <3>1
  <2>2. PICK d \in Bad : \A m \in Bad : ~(<<m, d>> \in OpToRel(<, Nat))
    BY <2>1, WFMin, NatLessThanWellFounded
  <2>3. PICK s \in Few : d = n - s
    OBVIOUS
  <2>4. ASSUME NEW t \in Few, t # s PROVE t < s
    <3>1. n - t \in Bad /\ n - t \in Nat /\ d \in Nat
      BY <2>1, <2>2
    <3>2. ~(n - t < d)
      BY <2>2, <3>1 DEF OpToRel
    <3>3. t \in Int /\ s \in Int
      BY <1>2
    <3> QED BY <2>3, <2>4, <3>2, <3>3
  <2> DEFINE B == {t \in S : t < s}
  <2>5. s \in S /\ Cardinality(B) < k
    BY <2>3
  <2>6. IsFiniteSet(B) /\ Cardinality(B) \in Nat
    BY <1>1, FS_Subset, FS_CardinalityType
  <2>7. Few \ {s} \subseteq B
    BY <1>2, <2>4
  <2> HIDE DEF Few, B
  <2>8. Cardinality(Few \ {s}) = Cardinality(Few) - 1 /\ Cardinality(Few) \in Nat
    BY <1>2, <2>3, FS_RemoveElement, FS_CardinalityType
  <2>9. Cardinality(Few \ {s}) <= Cardinality(B)
    BY <2>6, <2>7, FS_Subset
  <2>10. Cardinality(Few) <= k
    BY <2>5, <2>6, <2>8, <2>9
  <2> QED BY <2>10 DEF Few
<1> QED BY <1>3, <1>4

--------------------------------------------------------------------------------
(* Constants, counts and queues *)

\* The constants are positive, and requests and slots are finitely many.
LEMMA Constants ==
    /\ MaxConns \in Nat /\ MaxConns > 0 /\ Depth \in Nat /\ Depth > 0 /\ LowOdds \in 0..100
    /\ Threshold \in Nat /\ Threshold > 0
    /\ IsFiniteSet(Req) /\ IsFiniteSet(Slots)
<1>1. 1 \in Int /\ MaxConns \in Int
  BY ConnsAssumption
<1>2. IsFiniteSet(Slots)
  BY <1>1, FS_Interval DEF Slots
<1> QED BY <1>2, ReqAssumption, ConnsAssumption, OddsAssumption, ThresholdAssumption

\* Sets of requests and sets of slots can be counted, and a subset has no more.
LEMMA Counts ==
    ASSUME NEW S, S \subseteq Req \/ S \subseteq Slots
    PROVE  /\ IsFiniteSet(S) /\ Cardinality(S) \in Nat /\ (Cardinality(S) = 0 <=> S = {})
           /\ \A T \in SUBSET S : IsFiniteSet(T) /\ Cardinality(T) \in Nat /\ Cardinality(T) <= Cardinality(S)
<1>1. IsFiniteSet(S)
  BY Constants, FS_Subset
<1> QED BY <1>1, FS_CardinalityType, FS_EmptySet, FS_Subset

\* What a queue holds is requests.
LEMMA QueueMembers ==
    ASSUME NEW q \in Seq(Req)
    PROVE  /\ Len(q) \in Nat /\ (Len(q) = 0 <=> q = <<>>) /\ Range(q) \subseteq Req
           /\ (q = <<>> <=> Range(q) = {})
<1>1. Len(q) \in Nat /\ DOMAIN q = 1..Len(q) /\ \A i \in 1..Len(q) : q[i] \in Req
  BY LenProperties, ElementOfSeq
<1>2. Range(q) = {q[i] : i \in 1..Len(q)}
  BY <1>1, RangeMembers
<1>3. Len(q) = 0 <=> q = <<>>
  BY EmptySeq
<1>4. Len(q) # 0 => 1 \in 1..Len(q)
  BY <1>1
<1>5. Len(q) = 0 => 1..Len(q) = {}
  OBVIOUS
<1> QED BY <1>1, <1>2, <1>3, <1>4, <1>5

\* No queue holds anything exactly when no request is queued.
LEMMA WorkQueued ==
    ASSUME TypeOK, QueueSound
    PROVE  /\ HasWork <=> \E p \in Class : queue[p] # <<>>
           /\ HasWork <=> \E r \in Req : req[r] = "queued"
<1>1. \A p \in Class : queue[p] \in Seq(Req)
  BY DEF TypeOK
<1>2. ASSUME HasWork PROVE \E p \in Class : queue[p] # <<>>
  <2>1. PICK r \in Queued : TRUE
    BY <1>2 DEF HasWork
  <2>2. r \in Range(queue[prio[r]]) /\ prio[r] \in Class
    BY <2>1 DEF QueueSound, TypeOK, Queued
  <2> QED BY <1>1, <2>2, QueueMembers
<1>3. ASSUME NEW p \in Class, queue[p] # <<>> PROVE HasWork
  <2>1. PICK r \in Range(queue[p]) : TRUE
    BY <1>1, <1>3, QueueMembers
  <2>2. req[r] = "queued" /\ r \in Req
    BY <1>1, <2>1, QueueMembers DEF QueueSound
  <2> QED BY <2>2 DEF HasWork, Queued
<1>4. HasWork <=> \E r \in Req : req[r] = "queued"
  BY DEF HasWork, Queued
<1> QED BY <1>2, <1>3, <1>4

\* A step that leaves the queues and the queued requests alone.
LEMMA QueuesKept ==
    ASSUME TypeOK, QueueSound, queue' = queue, Queued' = Queued,
           \A r \in Queued : prio'[r] = prio[r]
    PROVE  QueueSound'
<1>1. ASSUME NEW p \in Class, NEW r \in Range(queue[p]) PROVE r \in Queued /\ prio[r] = p
  BY QueueMembers DEF TypeOK, QueueSound, Queued
<1>2. \A r \in Queued : req'[r] = "queued"
  BY DEF Queued
<1>3. \A p \in Class : \A r \in Range(queue[p]) : req'[r] = "queued" /\ prio'[r] = p
  BY <1>1, <1>2
<1> QED BY <1>3 DEF QueueSound

\* Everything queued fails over.
LEMMA QueuesEmptied ==
    ASSUME queue' = [p \in Class |-> <<>>], Queued' = {}
    PROVE  QueueSound' /\ queue' \in [Class -> Seq(Req)]
<1>1. Range(<<>>) = {} /\ Distinct(<<>>) /\ <<>> \in Seq(Req)
  BY EmptySeq, RangeMembers DEF Distinct
<1> QED BY <1>1 DEF QueueSound

\* The ceiling holds after a step that opens no connection, fires nothing and
\* lets no busy connection go.
LEMMA CeilingKept ==
    ASSUME TypeOK, TypeOK', ConnsWithinCeiling, allowed <= allowed',
           \A s \in Slots : conn'[s] # "none" => conn[s] # "none",
           \A s \in Slots : OnConn(s)' \subseteq OnConn(s) /\ (OnConn(s)' # {} => conn'[s] = "up")
    PROVE  ConnsWithinCeiling' /\ OpenConns' <= OpenConns
<1> DEFINE Open == Conns({"dialing", "up", "dead"})
<1>1. Open' \subseteq Open /\ Open \subseteq Slots
  BY DEF Conns, TypeOK
<1>2. OpenConns' <= OpenConns /\ OpenConns \in Nat /\ OpenConns' \in Nat
  <2> HIDE DEF Open
  <2>1. /\ Cardinality(Open') <= Cardinality(Open) /\ Cardinality(Open) \in Nat
        /\ Cardinality(Open') \in Nat
    BY <1>1, Counts
  <2> QED BY <2>1 DEF OpenConns, Open
<1>3. OpenConns' <= allowed'
  <2>1. allowed \in Nat /\ allowed' \in Nat /\ OpenConns <= allowed
    BY Constants DEF TypeOK, ConnsWithinCeiling
  <2> QED BY <1>2, <2>1
<1>4. ASSUME NEW s \in Slots PROVE Cardinality(OnConn(s)') <= Depth
  <2>1. OnConn(s) \subseteq Req
    BY DEF OnConn
  <2>2. /\ Cardinality(OnConn(s)') <= Cardinality(OnConn(s)) /\ Cardinality(OnConn(s)) \in Nat
        /\ Cardinality(OnConn(s)') \in Nat
    BY <2>1, Counts
  <2> QED BY <2>2, Constants DEF ConnsWithinCeiling
<1> QED BY <1>2, <1>3, <1>4 DEF ConnsWithinCeiling

--------------------------------------------------------------------------------
(* Between two dispatches *)

\* Between two dispatches, and where one starts, no walk is under way.
LEMMA WalkStarts ==
    ASSUME cursor' \in {0, 1}, state' = "auth_failed" => auth' # "clear"
    PROVE  WalkSound' /\ AuthSound'
<1>1. \A s \in Slots : ~(s < cursor')
  BY Constants DEF Slots
<1>2. cursor' # MaxConns + 1 /\ ~(cursor' > 1)
  BY Constants
<1> QED BY <1>1, <1>2 DEF WalkSound, AuthSound

\* A step that ends in a dispatch strands nothing.
LEMMA Dispatched ==
    ASSUME StartDispatch, closed' = closed, ClosedSound, Queued' \subseteq Queued,
           closed \in BOOLEAN, state' = "auth_failed" => auth' # "clear"
    PROVE  WalkSound' /\ AuthSound' /\ ClosedSound' /\ Served' /\ cursor' \in 0..(MaxConns + 1)
<1>1. cursor' \in {0, 1} /\ (closed' => cursor' = 0) /\ (~closed' => cursor' = 1)
  BY DEF StartDispatch
<1>2. WalkSound' /\ AuthSound'
  BY <1>1, WalkStarts
<1>3. closed' => Queued' = {}
  BY DEF ClosedSound
<1>4. ClosedSound' /\ Served'
  BY <1>1, <1>3 DEF ClosedSound, Served, HasWork
<1> QED BY <1>1, <1>2, <1>4, Constants

\* A step that does not dispatch strands nothing if it takes no pending event
\* away, or leaves one behind.
LEMMA NotDispatched ==
    ASSUME cursor = 0, cursor' = 0, closed' = closed, ClosedSound, Served, Queued' \subseteq Queued,
           \A p \in Class : queue[p] = <<>> => queue'[p] = <<>>,
           Pending => Pending', state' = "auth_failed" => auth' # "clear"
    PROVE  WalkSound' /\ AuthSound' /\ ClosedSound' /\ Served' /\ cursor' \in 0..(MaxConns + 1)
<1>1. WalkSound' /\ AuthSound'
  BY WalkStarts
<1>2. ClosedSound'
  BY DEF ClosedSound
<1>3. HasWork' => HasWork
  BY DEF HasWork
<1>4. queue[High] = <<>> /\ queue[Low] = <<>> => queue'[High] = <<>> /\ queue'[Low] = <<>>
  BY DEF Class
<1>5. Served'
  BY <1>3, <1>4 DEF Served, Lone
<1> QED BY <1>1, <1>2, <1>5, Constants

--------------------------------------------------------------------------------
(* Requests *)

\* The pool starts with nothing to do and nothing open.
LEMMA InitInv == Init => IInv
<1> SUFFICES ASSUME Init PROVE IInv
  OBVIOUS
<1>1. <<>> \in Seq(Req) /\ Range(<<>>) = {} /\ Distinct(<<>>)
  BY EmptySeq, RangeMembers DEF Distinct
<1>2. TypeOK
  <2>1. queue \in [Class -> Seq(Req)]
    BY <1>1 DEF Init
  <2>2. /\ req \in [Req -> {"queued", "running", "orphan", "settled"}]
        /\ prio \in [Req -> Class] /\ at \in [Req -> 0..MaxConns]
        /\ conn \in [Slots -> {"none", "dialing", "up", "dead"}] /\ failures \in [Slots -> 0..Threshold]
    BY Constants DEF Init, Class
  <2>3. allowed \in 1..MaxConns /\ lowAcc \in 0..99 /\ cursor \in 0..(MaxConns + 1)
    BY Constants DEF Init
  <2>4. everOnline = FALSE /\ retry = FALSE /\ closed = FALSE /\ state = "online" /\ auth = "clear"
    BY DEF Init
  <2> QED BY <2>1, <2>2, <2>3, <2>4 DEF TypeOK
<1>3. Queued = {} /\ QueueSound
  BY <1>1 DEF Init, Queued, QueueSound
<1>4. Conns({"dialing", "up", "dead"}) = {} /\ \A s \in Slots : OnConn(s) = {}
  BY DEF Init, Conns, OnConn
<1>5. OpenConns = 0 /\ \A s \in Slots : Cardinality(OnConn(s)) = 0
  <2> HIDE DEF Init
  <2> QED BY <1>4, FS_EmptySet DEF OpenConns
<1>6. ConnsWithinCeiling
  BY <1>4, <1>5, Constants DEF Init, ConnsWithinCeiling
<1>7. AuthSound /\ ClosedSound /\ WalkSound /\ Served
  BY <1>3, Constants DEF Init, AuthSound, ClosedSound, WalkSound, Served, HasWork, Slots
<1> QED BY <1>2, <1>3, <1>6, <1>7 DEF IInv

\* submit.
LEMMA SubmitInv ==
    ASSUME IInv, NEW r \in Req, NEW p \in Class, Submit(r, p)
    PROVE  IInv'
<1>1. /\ TypeOK /\ QueueSound /\ AuthSound /\ ClosedSound /\ ConnsWithinCeiling /\ Served
      /\ cursor = 0 /\ req[r] = "settled" /\ prio' = [prio EXCEPT ![r] = p] /\ prio' \in [Req -> Class]
      /\ UNCHANGED <<at, conn, failures, state, auth, everOnline, allowed, lowAcc, retry, closed>>
  BY DEF IInv, Submit, TypeOK
<1>2. r \notin Queued
  BY <1>1 DEF Queued
<1>3. CASE closed \/ AuthBlocked
  <2>1. UNCHANGED <<req, queue, cursor>>
    BY <1>3 DEF Submit
  <2>2. TypeOK'
    BY <1>1, <2>1 DEF TypeOK
  <2>3. Queued' = Queued /\ queue' = queue /\ \A q \in Queued : prio'[q] = prio[q]
    BY <1>1, <1>2, <2>1 DEF Queued, TypeOK
  <2>4. QueueSound'
    BY <1>1, <2>3, QueuesKept
  <2>5. Pending => Pending'
    BY <1>1, <2>1 DEF Pending, Conns
  <2>6. state' = "auth_failed" => auth' # "clear"
    BY <1>1 DEF AuthSound
  <2>7. WalkSound' /\ AuthSound' /\ ClosedSound' /\ Served'
    BY <1>1, <2>1, <2>3, <2>5, <2>6, NotDispatched
  <2>8. ConnsWithinCeiling'
    BY <1>1, <2>1 DEF ConnsWithinCeiling, OpenConns, Conns, OnConn
  <2> QED BY <2>2, <2>4, <2>7, <2>8 DEF IInv
<1>4. CASE ~(closed \/ AuthBlocked)
  <2>1. /\ req' = [req EXCEPT ![r] = "queued"] /\ queue' = [queue EXCEPT ![p] = Append(@, r)]
        /\ cursor' = 1
    BY <1>4 DEF Submit
  <2>2. /\ queue[p] \in Seq(Req) /\ Distinct(queue[p]) /\ r \notin Range(queue[p])
        /\ queue' \in [Class -> Seq(Req)] /\ queue'[p] = Append(queue[p], r)
        /\ \A q \in Class \ {p} : queue'[q] = queue[q]
    <3>1. queue[p] \in Seq(Req) /\ queue \in [Class -> Seq(Req)]
      BY <1>1 DEF TypeOK
    <3>2. Append(queue[p], r) \in Seq(Req)
      BY <3>1, AppendFacts
    <3>3. r \notin Range(queue[p]) /\ Distinct(queue[p])
      BY <1>1 DEF QueueSound
    <3> QED BY <2>1, <3>1, <3>2, <3>3
  <2>3. Distinct(queue'[p]) /\ Range(queue'[p]) = Range(queue[p]) \cup {r}
    BY <2>2, AppendFacts, AppendDistinct
  <2>4. TypeOK'
    <3>1. req' \in [Req -> {"queued", "running", "orphan", "settled"}]
      BY <1>1, <2>1 DEF TypeOK
    <3>2. cursor' \in 0..(MaxConns + 1)
      BY <2>1, Constants
    <3> QED BY <1>1, <2>2, <3>1, <3>2 DEF TypeOK
  <2>5. Queued' = Queued \cup {r} /\ prio'[r] = p /\ \A q \in Req \ {r} : req'[q] = req[q] /\ prio'[q] = prio[q]
    BY <1>1, <2>1 DEF Queued, TypeOK
  <2>6. QueueSound'
    <3>1. ASSUME NEW c \in Class PROVE Distinct(queue'[c])
      BY <1>1, <2>2, <2>3 DEF QueueSound
    <3>2. ASSUME NEW c \in Class, NEW q \in Range(queue'[c]) PROVE req'[q] = "queued" /\ prio'[q] = c
      <4>1. CASE c # p
        <5>1. q \in Range(queue[c]) /\ queue[c] \in Seq(Req)
          BY <1>1, <2>2, <4>1, <3>2 DEF TypeOK
        <5>2. q \in Req /\ req[q] = "queued" /\ prio[q] = c
          BY <1>1, <5>1, QueueMembers DEF QueueSound
        <5> QED BY <1>1, <2>5, <5>2
      <4>2. CASE c = p /\ q = r
        BY <1>1, <2>1, <2>5, <4>2 DEF TypeOK
      <4>3. CASE c = p /\ q # r
        <5>1. q \in Range(queue[c])
          BY <2>3, <3>2, <4>3
        <5>2. q \in Req /\ req[q] = "queued" /\ prio[q] = c
          BY <1>1, <2>2, <4>3, <5>1, QueueMembers DEF QueueSound
        <5> QED BY <2>5, <4>3, <5>2
      <4> QED BY <4>1, <4>2, <4>3
    <3>3. ASSUME NEW q \in Queued' PROVE q \in Range(queue'[prio'[q]])
      <4>1. CASE q = r
        BY <2>3, <2>5, <4>1
      <4>2. CASE q # r
        <5>1. q \in Queued /\ prio'[q] = prio[q] /\ prio[q] \in Class /\ q \in Range(queue[prio[q]])
          BY <1>1, <2>5, <3>3, <4>2 DEF QueueSound, Queued, TypeOK
        <5>2. CASE prio[q] = p
          BY <2>3, <5>1, <5>2
        <5>3. CASE prio[q] # p
          <6>1. queue'[prio[q]] = queue[prio[q]]
            BY <2>2, <5>1, <5>3
          <6> QED BY <5>1, <6>1
        <5> QED BY <5>2, <5>3
      <4> QED BY <4>1, <4>2
    <3> QED BY <3>1, <3>2, <3>3 DEF QueueSound
  <2>7. WalkSound' /\ AuthSound'
    BY <1>1, <2>1, WalkStarts DEF AuthSound
  <2>8. ClosedSound' /\ Served'
    BY <1>1, <1>4, <2>1 DEF ClosedSound, Served
  <2>9. ConnsWithinCeiling'
    <3>1. ASSUME NEW s \in Slots PROVE OnConn(s)' = OnConn(s)
      BY <1>1, <2>1 DEF OnConn, TypeOK
    <3> QED BY <1>1, <3>1 DEF ConnsWithinCeiling, OpenConns, Conns
  <2> QED BY <2>4, <2>6, <2>7, <2>8, <2>9 DEF IInv
<1> QED BY <1>3, <1>4

\* An abort withdraws a queued request, and no other.
LEMMA AbortInv ==
    ASSUME IInv, NEW r \in Req, Abort(r)
    PROVE  IInv'
<1>1. /\ TypeOK /\ QueueSound /\ AuthSound /\ ClosedSound /\ ConnsWithinCeiling /\ Served
      /\ cursor = 0 /\ req[r] = "queued" /\ req' = [req EXCEPT ![r] = "settled"]
      /\ queue' = [p \in Class |-> RemoveFirst(queue[p], r)]
      /\ UNCHANGED <<prio, at, conn, failures, state, auth, everOnline, allowed, lowAcc, retry, cursor, closed>>
  BY DEF IInv, Abort, Withdrawn
<1>2. ASSUME NEW p \in Class
      PROVE  /\ queue'[p] \in Seq(Req) /\ Distinct(queue'[p]) /\ Range(queue'[p]) = Range(queue[p]) \ {r}
             /\ Range(queue[p]) \subseteq Req
  <2>1. queue[p] \in Seq(Req) /\ Distinct(queue[p]) /\ queue'[p] = RemoveFirst(queue[p], r)
    BY <1>1 DEF TypeOK, QueueSound
  <2> QED BY <2>1, RemoveFirstFacts, QueueMembers
<1>3. queue' = [p \in Class |-> queue'[p]]
  BY <1>1
<1>4. queue' \in [Class -> Seq(Req)]
  BY <1>2, <1>3
<1>5. TypeOK'
  BY <1>1, <1>4 DEF TypeOK
<1>6. Queued' = Queued \ {r} /\ \A q \in Req \ {r} : req'[q] = req[q]
  BY <1>1 DEF Queued, TypeOK
<1>7. QueueSound'
  <2>1. ASSUME NEW p \in Class, NEW q \in Range(queue'[p]) PROVE req'[q] = "queued" /\ prio'[q] = p
    BY <1>1, <1>2, <1>6, <2>1 DEF QueueSound
  <2>2. ASSUME NEW q \in Queued' PROVE q \in Range(queue'[prio'[q]])
    <3>1. q \in Queued /\ q # r /\ prio'[q] = prio[q] /\ prio[q] \in Class
      BY <1>1, <1>6, <2>2 DEF TypeOK, Queued
    <3> QED BY <1>1, <1>2, <3>1 DEF QueueSound
  <2> QED BY <1>2, <2>1, <2>2 DEF QueueSound
<1>8. \A p \in Class : queue[p] = <<>> => queue'[p] = <<>>
  <2> SUFFICES ASSUME NEW p \in Class, queue[p] = <<>> PROVE queue'[p] = <<>>
    OBVIOUS
  <2>1. queue[p] \in Seq(Req) /\ queue'[p] \in Seq(Req)
    BY <1>1, <1>2 DEF TypeOK
  <2>2. Range(queue[p]) = {}
    BY <2>1, QueueMembers
  <2> QED BY <1>2, <2>1, <2>2, QueueMembers
<1>9. Pending => Pending'
  <2>1. \A q \in Req : req[q] \in {"running", "orphan"} => req'[q] = req[q]
    BY <1>1 DEF TypeOK
  <2> QED BY <1>1, <2>1 DEF Pending, Conns
<1>10. WalkSound' /\ AuthSound' /\ ClosedSound' /\ Served'
  <2>1. state' = "auth_failed" => auth' # "clear"
    BY <1>1 DEF AuthSound
  <2> QED BY <1>1, <1>6, <1>8, <1>9, <2>1, NotDispatched
<1>11. ConnsWithinCeiling'
  <2>1. ASSUME NEW s \in Slots PROVE OnConn(s)' = OnConn(s)
    BY <1>1 DEF OnConn, TypeOK
  <2> QED BY <1>1, <2>1 DEF ConnsWithinCeiling, OpenConns, Conns
<1> QED BY <1>5, <1>7, <1>10, <1>11 DEF IInv

--------------------------------------------------------------------------------
(* Transfers and connections *)

\* Changing one place keeps a function's type, wherever the place is.
LEMMA ExceptTyped ==
    ASSUME NEW S, NEW T, NEW f \in [S -> T], NEW s, NEW e, s \in S => e \in T
    PROVE  [f EXCEPT ![s] = e] \in [S -> T]
OBVIOUS

\* recordConnFailure keeps the queues sound, whether it trips or not.
LEMMA RecordsKeeps ==
    ASSUME TypeOK, QueueSound, NEW s, NEW done \in SUBSET Req, Records(s, done),
           \A r \in done : req[r] # "queued", prio' = prio
    PROVE  /\ failures' \in [Slots -> 0..Threshold]
           /\ req' \in [Req -> {"queued", "running", "orphan", "settled"}]
           /\ queue' \in [Class -> Seq(Req)] /\ QueueSound' /\ Queued' \subseteq Queued
           /\ \A p \in Class : queue[p] = <<>> => queue'[p] = <<>>
           /\ \A r \in Req : req'[r] = "running" => req[r] = "running"
           /\ \A r \in Req \ done : req[r] # "queued" => req'[r] = req[r]
<1> DEFINE trips == failures[s] + 1 >= Threshold
<1>1. /\ failures' = [failures EXCEPT ![s] = IF @ < Threshold THEN @ + 1 ELSE @]
      /\ queue' = IF trips THEN [p \in Class |-> <<>>] ELSE queue
      /\ req' = [r \in Req |-> IF r \in done \/ (trips /\ req[r] = "queued") THEN "settled" ELSE req[r]]
  BY DEF Records
<1> HIDE DEF trips
<1>2. failures' \in [Slots -> 0..Threshold]
  <2> DEFINE e == IF failures[s] < Threshold THEN failures[s] + 1 ELSE failures[s]
  <2>1. failures \in [Slots -> 0..Threshold] /\ failures' = [failures EXCEPT ![s] = e]
    BY <1>1 DEF TypeOK
  <2>2. s \in Slots => e \in 0..Threshold
    BY <2>1, Constants
  <2> HIDE DEF e
  <2> QED BY <2>1, <2>2, ExceptTyped
<1>3. \A r \in Req : req'[r] = IF r \in done \/ (trips /\ req[r] = "queued") THEN "settled" ELSE req[r]
  BY <1>1
<1>4. req' \in [Req -> {"queued", "running", "orphan", "settled"}]
  BY <1>1 DEF TypeOK
<1>5. CASE trips
  <2>1. Queued' = {}
    BY <1>3, <1>5 DEF Queued
  <2>2. queue' = [p \in Class |-> <<>>]
    BY <1>1, <1>5
  <2>3. QueueSound' /\ queue' \in [Class -> Seq(Req)]
    BY <2>1, <2>2, QueuesEmptied
  <2> QED BY <1>2, <1>3, <1>4, <2>1, <2>2, <2>3
<1>6. CASE ~trips
  <2>1. Queued' = Queued
    BY <1>3, <1>6 DEF Queued
  <2>2. queue' = queue /\ queue \in [Class -> Seq(Req)]
    BY <1>1, <1>6 DEF TypeOK
  <2>3. QueueSound'
    BY <2>1, <2>2, QueuesKept
  <2> QED BY <1>2, <1>3, <1>4, <2>1, <2>2, <2>3
<1> QED BY <1>5, <1>6

\* A transfer ends and its connection is fine.
LEMMA TransferDoneInv ==
    ASSUME IInv, NEW r \in Req, TransferDone(r)
    PROVE  IInv'
<1>1. /\ TypeOK /\ QueueSound /\ AuthSound /\ ClosedSound /\ ConnsWithinCeiling
      /\ req[r] = "running" /\ req' = [req EXCEPT ![r] = "settled"] /\ StartDispatch
      /\ UNCHANGED <<prio, at, queue, conn, state, auth, everOnline, allowed, lowAcc, retry, closed>>
      /\ closed \in BOOLEAN
  BY DEF IInv, TransferDone, TypeOK
<1>2. failures' \in [Slots -> 0..Threshold]
  <2>1. failures' \in {failures, [failures EXCEPT ![at[r]] = 0]}
    BY DEF TransferDone
  <2>2. failures \in [Slots -> 0..Threshold] /\ 0 \in 0..Threshold
    BY <1>1, Constants DEF TypeOK
  <2>3. [failures EXCEPT ![at[r]] = 0] \in [Slots -> 0..Threshold]
    BY <2>2, ExceptTyped
  <2> QED BY <2>1, <2>2, <2>3
<1>3. Queued' = Queued
  BY <1>1 DEF Queued, TypeOK
<1>4. WalkSound' /\ AuthSound' /\ ClosedSound' /\ Served' /\ cursor' \in 0..(MaxConns + 1)
  BY <1>1, <1>3, Dispatched DEF AuthSound
<1>5. TypeOK'
  BY <1>1, <1>2, <1>4 DEF TypeOK
<1>6. QueueSound'
  BY <1>1, <1>3, QueuesKept
<1>7. ConnsWithinCeiling'
  <2>1. ASSUME NEW s \in Slots PROVE OnConn(s)' \subseteq OnConn(s)
    BY <1>1 DEF OnConn, TypeOK
  <2>2. \A s \in Slots : OnConn(s)' # {} => conn'[s] = "up"
    BY <1>1, <2>1 DEF ConnsWithinCeiling
  <2> QED BY <1>1, <1>5, <2>1, <2>2, CeilingKept DEF TypeOK
<1> QED BY <1>4, <1>5, <1>6, <1>7 DEF IInv

\* A transfer fails, with its connection or on one that survives.
LEMMA TransferFailsInv ==
    ASSUME IInv, NEW r \in Req, TransferFails(r)
    PROVE  IInv'
<1>1. /\ TypeOK /\ QueueSound /\ AuthSound /\ ClosedSound /\ ConnsWithinCeiling
      /\ req[r] \in {"running", "orphan"} /\ StartDispatch
      /\ UNCHANGED <<prio, at, state, auth, everOnline, allowed, lowAcc, retry, closed>>
      /\ closed \in BOOLEAN
  BY DEF IInv, TransferFails, TypeOK
<1>2. /\ failures' \in [Slots -> 0..Threshold] /\ queue' \in [Class -> Seq(Req)]
      /\ req' \in [Req -> {"queued", "running", "orphan", "settled"}]
      /\ QueueSound' /\ Queued' \subseteq Queued
      /\ \A q \in Req : req'[q] = "running" => req[q] = "running"
      /\ conn' = conn \/ (conn[at[r]] = "dead" /\ conn' = [conn EXCEPT ![at[r]] = "none"])
  <2>1. CASE closed
    <3>1. req' = [req EXCEPT ![r] = "settled"] /\ UNCHANGED <<failures, queue, conn>>
      BY <2>1 DEF TransferFails
    <3>2. Queued' = Queued
      BY <1>1, <3>1 DEF Queued, TypeOK
    <3>3. QueueSound'
      BY <1>1, <3>1, <3>2, QueuesKept
    <3> QED BY <1>1, <3>1, <3>2, <3>3 DEF TypeOK
  <2>2. CASE ~closed
    <3>1. /\ Records(at[r], {r})
          /\ conn' = IF conn[at[r]] = "dead" THEN [conn EXCEPT ![at[r]] = "none"] ELSE conn
      BY <2>2 DEF TransferFails, LetGo
    <3>2. {r} \in SUBSET Req /\ \A q \in {r} : req[q] # "queued"
      BY <1>1
    <3> QED BY <1>1, <3>1, <3>2, RecordsKeeps
  <2> QED BY <2>1, <2>2
<1>3. WalkSound' /\ AuthSound' /\ ClosedSound' /\ Served' /\ cursor' \in 0..(MaxConns + 1)
  BY <1>1, <1>2, Dispatched DEF AuthSound
<1>4. /\ conn' \in [Slots -> {"none", "dialing", "up", "dead"}]
      /\ \A s \in Slots : conn'[s] # "none" => conn[s] # "none"
      /\ \A s \in Slots : conn[s] = "up" => conn'[s] = "up"
  BY <1>1, <1>2 DEF TypeOK
<1>5. TypeOK'
  BY <1>1, <1>2, <1>3, <1>4 DEF TypeOK
<1>6. ConnsWithinCeiling'
  <2>1. ASSUME NEW s \in Slots PROVE OnConn(s)' \subseteq OnConn(s)
    BY <1>1, <1>2 DEF OnConn
  <2>2. \A s \in Slots : OnConn(s)' # {} => conn'[s] = "up"
    BY <1>1, <1>4, <2>1 DEF ConnsWithinCeiling
  <2>3. allowed <= allowed'
    BY <1>1, Constants DEF TypeOK
  <2> QED BY <1>1, <1>4, <1>5, <2>1, <2>2, <2>3, CeilingKept
<1> QED BY <1>2, <1>3, <1>5, <1>6 DEF IInv

\* The command is answered with a limit status: the ceiling falls to what was
\* open, and no connection is opened for it.
LEMMA TransferLimitedInv ==
    ASSUME IInv, NEW r \in Req, TransferLimited(r)
    PROVE  IInv'
<1>1. /\ TypeOK /\ QueueSound /\ AuthSound /\ ClosedSound /\ ConnsWithinCeiling
      /\ req[r] \in {"running", "orphan"} /\ StartDispatch
      /\ req' = [req EXCEPT ![r] = "settled"] /\ allowed' = Throttled(OpenConns)
      /\ conn' = IF conn[at[r]] = "dead" THEN [conn EXCEPT ![at[r]] = "none"] ELSE conn
      /\ UNCHANGED <<prio, at, queue, failures, state, auth, everOnline, lowAcc, retry, closed>>
      /\ closed \in BOOLEAN
  BY DEF IInv, TransferLimited, LetGo, TypeOK
<1>2. Queued' = Queued /\ \A q \in Req : req'[q] = "running" => req[q] = "running"
  BY <1>1 DEF Queued, TypeOK
<1>3. WalkSound' /\ AuthSound' /\ ClosedSound' /\ Served' /\ cursor' \in 0..(MaxConns + 1)
  BY <1>1, <1>2, Dispatched DEF AuthSound
<1>4. /\ conn' \in [Slots -> {"none", "dialing", "up", "dead"}]
      /\ \A s \in Slots : conn'[s] # "none" => conn[s] # "none"
      /\ \A s \in Slots : conn[s] = "up" => conn'[s] = "up"
  BY <1>1 DEF TypeOK
<1>5. /\ OpenConns \in Nat /\ OpenConns' \in Nat /\ OpenConns' <= OpenConns
      /\ OpenConns <= allowed' /\ allowed' \in 1..MaxConns
  <2> DEFINE Open == Conns({"dialing", "up", "dead"})
  <2>1. Open' \subseteq Open /\ Open \subseteq Slots
    BY <1>1, <1>4 DEF Conns, TypeOK
  <2>2. OpenConns = Cardinality(Open) /\ OpenConns' = Cardinality(Open')
    BY DEF OpenConns
  <2> HIDE DEF Open
  <2>3. OpenConns \in Nat /\ OpenConns' \in Nat /\ OpenConns' <= OpenConns
    BY <2>1, <2>2, Counts
  <2>4. OpenConns <= allowed /\ allowed \in 1..MaxConns
    BY <1>1 DEF ConnsWithinCeiling, TypeOK
  <2> QED BY <1>1, <2>3, <2>4, Constants DEF Throttled, Ceiling
<1>6. TypeOK'
  BY <1>1, <1>3, <1>4, <1>5 DEF TypeOK
<1>7. QueueSound'
  BY <1>1, <1>2, QueuesKept
<1>8. ConnsWithinCeiling'
  <2>1. ASSUME NEW s \in Slots
        PROVE  Cardinality(OnConn(s)') <= Depth /\ (OnConn(s)' # {} => conn'[s] = "up")
    <3>1. OnConn(s)' \subseteq OnConn(s) /\ OnConn(s) \subseteq Req
      BY <1>1, <1>2 DEF OnConn
    <3>2. /\ Cardinality(OnConn(s)') <= Cardinality(OnConn(s)) /\ Cardinality(OnConn(s)) \in Nat
          /\ Cardinality(OnConn(s)') \in Nat
      BY <3>1, Counts
    <3> QED BY <1>1, <1>4, <3>1, <3>2, Constants DEF ConnsWithinCeiling
  <2>2. OpenConns' <= allowed'
    BY <1>5, Constants
  <2> QED BY <2>1, <2>2 DEF ConnsWithinCeiling
<1> QED BY <1>3, <1>6, <1>7, <1>8 DEF IInv

\* A connection dies under its transfers.
LEMMA ConnDiesInv ==
    ASSUME IInv, NEW s \in Slots, ConnDies(s)
    PROVE  IInv'
<1>1. /\ TypeOK /\ QueueSound /\ AuthSound /\ ClosedSound /\ ConnsWithinCeiling /\ Served
      /\ cursor = 0 /\ conn[s] = "up" /\ conn' = [conn EXCEPT ![s] = "dead"]
      /\ req' = [r \in Req |-> IF r \in OnConn(s) THEN "orphan" ELSE req[r]]
      /\ UNCHANGED <<prio, at, queue, failures, state, auth, everOnline, allowed, lowAcc, retry, cursor, closed>>
  BY DEF IInv, ConnDies, Orphaned
<1>2. \A r \in OnConn(s) : r \in Req /\ req[r] = "running" /\ at[r] = s
  BY DEF OnConn
<1>3. TypeOK'
  <2>1. req' \in [Req -> {"queued", "running", "orphan", "settled"}]
    BY <1>1 DEF TypeOK
  <2>2. conn' \in [Slots -> {"none", "dialing", "up", "dead"}]
    BY <1>1 DEF TypeOK
  <2> QED BY <1>1, <2>1, <2>2 DEF TypeOK
<1>4. Queued' = Queued
  BY <1>1, <1>2 DEF Queued
<1>5. QueueSound'
  BY <1>1, <1>4, QueuesKept
<1>6. Pending => Pending'
  <2>1. \A q \in Req : req[q] \in {"running", "orphan"} => req'[q] \in {"running", "orphan"}
    BY <1>1
  <2>2. Conns({"dialing"}) = Conns({"dialing"})'
    BY <1>1 DEF Conns, TypeOK
  <2> QED BY <1>1, <2>1, <2>2 DEF Pending
<1>7. WalkSound' /\ AuthSound' /\ ClosedSound' /\ Served'
  <2>1. state' = "auth_failed" => auth' # "clear"
    BY <1>1 DEF AuthSound
  <2> QED BY <1>1, <1>4, <1>6, <2>1, NotDispatched
<1>8. ConnsWithinCeiling'
  <2>1. ASSUME NEW t \in Slots PROVE OnConn(t)' \subseteq OnConn(t) /\ (OnConn(t)' # {} => t # s)
    BY <1>1 DEF OnConn
  <2>2. \A t \in Slots : OnConn(t)' # {} => conn'[t] = "up"
    BY <1>1, <2>1 DEF ConnsWithinCeiling, TypeOK
  <2>3. \A t \in Slots : conn'[t] # "none" => conn[t] # "none"
    BY <1>1 DEF TypeOK
  <2>4. allowed <= allowed'
    BY <1>1, Constants DEF TypeOK
  <2> QED BY <1>1, <1>3, <2>1, <2>2, <2>3, <2>4, CeilingKept
<1> QED BY <1>3, <1>5, <1>7, <1>8 DEF IInv

\* An idle connection is let go.
LEMMA PurgeInv ==
    ASSUME IInv, NEW s \in Slots, Purge(s)
    PROVE  IInv'
<1>1. /\ TypeOK /\ QueueSound /\ AuthSound /\ ClosedSound /\ ConnsWithinCeiling /\ Served
      /\ cursor = 0 /\ ~closed /\ conn[s] \in {"up", "dead"} /\ OnConn(s) = {}
      /\ conn' = [conn EXCEPT ![s] = "none"]
      /\ UNCHANGED <<req, prio, at, queue, failures, state, auth, everOnline, allowed, lowAcc, retry, closed>>
      /\ closed \in BOOLEAN
  BY DEF IInv, Purge, TypeOK
<1>2. Queued' = Queued
  BY <1>1 DEF Queued
<1>3. QueueSound'
  BY <1>1, <1>2, QueuesKept
<1>4. state' = "auth_failed" => auth' # "clear"
  BY <1>1 DEF AuthSound
<1>5. WalkSound' /\ AuthSound' /\ ClosedSound' /\ Served' /\ cursor' \in 0..(MaxConns + 1)
  <2>1. CASE HasWork
    <3>1. StartDispatch
      BY <2>1 DEF Purge
    <3> QED BY <1>1, <1>2, <1>4, <3>1, Dispatched
  <2>2. CASE ~HasWork
    <3>1. cursor' = cursor
      BY <2>2 DEF Purge
    <3>2. Conns({"dialing"}) = Conns({"dialing"})'
      BY <1>1 DEF Conns, TypeOK
    <3>3. Pending => Pending'
      BY <1>1, <3>2 DEF Pending
    <3> QED BY <1>1, <1>2, <1>4, <3>1, <3>3, NotDispatched
  <2> QED BY <2>1, <2>2
<1>6. TypeOK'
  <2>1. conn' \in [Slots -> {"none", "dialing", "up", "dead"}]
    BY <1>1 DEF TypeOK
  <2> QED BY <1>1, <1>5, <2>1 DEF TypeOK
<1>7. ConnsWithinCeiling'
  <2>1. ASSUME NEW t \in Slots PROVE OnConn(t)' = OnConn(t)
    BY <1>1 DEF OnConn
  <2>2. \A t \in Slots : OnConn(t)' # {} => conn'[t] = "up"
    BY <1>1, <2>1 DEF ConnsWithinCeiling, TypeOK
  <2>3. \A t \in Slots : conn'[t] # "none" => conn[t] # "none"
    BY <1>1 DEF TypeOK
  <2>4. allowed <= allowed'
    BY <1>1, Constants DEF TypeOK
  <2> QED BY <1>1, <1>6, <2>1, <2>2, <2>3, <2>4, CeilingKept
<1> QED BY <1>3, <1>5, <1>6, <1>7 DEF IInv

--------------------------------------------------------------------------------
(* Dials *)

\* What every end of a dial does to the sockets: the dial is over, and the
\* connections under transfers stay up.
LEMMA DialSettled ==
    ASSUME TypeOK, ConnsWithinCeiling, NEW s \in Slots, conn[s] = "dialing",
           NEW v \in {"none", "up"}, conn' = [conn EXCEPT ![s] = v]
    PROVE  /\ conn' \in [Slots -> {"none", "dialing", "up", "dead"}]
           /\ \A t \in Slots : conn'[t] # "none" => conn[t] # "none"
           /\ \A t \in Slots : conn[t] = "up" => conn'[t] = "up"
           /\ \A t \in Slots : OnConn(t) # {} => conn'[t] = "up"
           /\ v = "none" => OpenConns' = OpenConns - 1
           /\ OpenConns \in Nat
<1> DEFINE Open == Conns({"dialing", "up", "dead"})
<1>1. /\ conn' \in [Slots -> {"none", "dialing", "up", "dead"}]
      /\ \A t \in Slots : conn'[t] # "none" => conn[t] # "none"
      /\ \A t \in Slots : conn[t] = "up" => conn'[t] = "up"
  BY DEF TypeOK
<1>2. \A t \in Slots : OnConn(t) # {} => conn'[t] = "up"
  BY <1>1 DEF ConnsWithinCeiling
<1>3. Open \subseteq Slots /\ s \in Open /\ (v = "none" => Open' = Open \ {s})
  BY DEF Conns, TypeOK
<1>4. OpenConns \in Nat /\ (v = "none" => OpenConns' = OpenConns - 1)
  <2> HIDE DEF Open
  <2>1. IsFiniteSet(Open) /\ Cardinality(Open) \in Nat /\ Cardinality(Open \ {s}) = Cardinality(Open) - 1
    BY <1>3, Counts, FS_RemoveElement
  <2>2. OpenConns = Cardinality(Open) /\ OpenConns' = Cardinality(Open')
    BY DEF OpenConns, Open
  <2> QED BY <1>3, <2>1, <2>2
<1> QED BY <1>1, <1>2, <1>4

\* A dial succeeds.
LEMMA DialOkInv ==
    ASSUME IInv, NEW s \in Slots, DialOk(s)
    PROVE  IInv'
<1>1. /\ TypeOK /\ QueueSound /\ AuthSound /\ ClosedSound /\ ConnsWithinCeiling
      /\ conn[s] = "dialing" /\ StartDispatch
      /\ UNCHANGED <<req, prio, at, queue, allowed, lowAcc, retry, closed>>
      /\ closed \in BOOLEAN
  BY DEF IInv, DialOk, TypeOK
<1>2. PICK v \in {"none", "up"} : conn' = [conn EXCEPT ![s] = v]
  BY DEF DialOk
<1>3. /\ conn' \in [Slots -> {"none", "dialing", "up", "dead"}]
      /\ \A t \in Slots : conn'[t] # "none" => conn[t] # "none"
      /\ \A t \in Slots : OnConn(t) # {} => conn'[t] = "up"
  BY <1>1, <1>2, DialSettled
<1>4. /\ failures' \in [Slots -> 0..Threshold] /\ everOnline' \in BOOLEAN
      /\ state' \in {"online", "auth_failed"} /\ auth' \in {"clear", "latched", "cooling", "elapsed"}
      /\ state' = "auth_failed" => auth' # "clear"
  <2>1. CASE closed
    <3>1. UNCHANGED <<failures, everOnline, state, auth>>
      BY <2>1 DEF DialOk
    <3> QED BY <1>1, <3>1 DEF TypeOK, AuthSound
  <2>2. CASE ~closed
    <3>1. /\ failures' = [failures EXCEPT ![s] = 0] /\ everOnline' = TRUE /\ state' = "online"
          /\ auth' = IF state = "online" THEN auth ELSE "clear"
      BY <2>2 DEF DialOk
    <3> QED BY <1>1, <3>1, Constants DEF TypeOK
  <2> QED BY <2>1, <2>2
<1>5. Queued' = Queued
  BY <1>1 DEF Queued
<1>6. WalkSound' /\ AuthSound' /\ ClosedSound' /\ Served' /\ cursor' \in 0..(MaxConns + 1)
  BY <1>1, <1>4, <1>5, Dispatched
<1>7. TypeOK'
  BY <1>1, <1>3, <1>4, <1>6 DEF TypeOK
<1>8. QueueSound'
  BY <1>1, <1>5, QueuesKept
<1>9. ConnsWithinCeiling'
  <2>1. \A t \in Slots : OnConn(t)' = OnConn(t)
    BY <1>1 DEF OnConn
  <2>2. allowed <= allowed'
    BY <1>1, Constants DEF TypeOK
  <2> QED BY <1>1, <1>3, <1>7, <2>1, <2>2, CeilingKept
<1> QED BY <1>6, <1>7, <1>8, <1>9 DEF IInv

\* A login is rejected.
LEMMA DialAuthFailsInv ==
    ASSUME IInv, NEW s \in Slots, DialAuthFails(s)
    PROVE  IInv'
<1>1. /\ TypeOK /\ QueueSound /\ AuthSound /\ ClosedSound /\ ConnsWithinCeiling
      /\ conn[s] = "dialing" /\ conn' = [conn EXCEPT ![s] = "none"]
      /\ state' = "auth_failed" /\ auth' \in {"cooling", "latched"} /\ StartDispatch
      /\ UNCHANGED <<req, prio, at, queue, failures, everOnline, allowed, lowAcc, retry, closed>>
      /\ closed \in BOOLEAN
  BY DEF IInv, DialAuthFails, TypeOK
<1>2. /\ conn' \in [Slots -> {"none", "dialing", "up", "dead"}]
      /\ \A t \in Slots : conn'[t] # "none" => conn[t] # "none"
      /\ \A t \in Slots : OnConn(t) # {} => conn'[t] = "up"
  BY <1>1, DialSettled
<1>3. Queued' = Queued
  BY <1>1 DEF Queued
<1>4. WalkSound' /\ AuthSound' /\ ClosedSound' /\ Served' /\ cursor' \in 0..(MaxConns + 1)
  BY <1>1, <1>3, Dispatched
<1>5. TypeOK'
  BY <1>1, <1>2, <1>4 DEF TypeOK
<1>6. QueueSound'
  BY <1>1, <1>3, QueuesKept
<1>7. ConnsWithinCeiling'
  <2>1. \A t \in Slots : OnConn(t)' = OnConn(t)
    BY <1>1 DEF OnConn
  <2>2. allowed <= allowed'
    BY <1>1, Constants DEF TypeOK
  <2> QED BY <1>1, <1>2, <1>5, <2>1, <2>2, CeilingKept
<1> QED BY <1>4, <1>5, <1>6, <1>7 DEF IInv

\* A failed probe never ends a block.
LEMMA ReArmedFacts ==
    ASSUME TypeOK, AuthSound, auth' = ReArmed, state' = state
    PROVE  /\ auth' \in {"clear", "latched", "cooling", "elapsed"}
           /\ state' = "auth_failed" => auth' # "clear"
BY DEF TypeOK, AuthSound, ReArmed

\* The provider refuses the connection: the ceiling drops to what is open.
LEMMA DialLimitedInv ==
    ASSUME IInv, NEW s \in Slots, DialLimited(s)
    PROVE  IInv'
<1>1. /\ TypeOK /\ QueueSound /\ AuthSound /\ ClosedSound /\ ConnsWithinCeiling /\ Served
      /\ cursor = 0 /\ conn[s] = "dialing" /\ conn' = [conn EXCEPT ![s] = "none"]
      /\ auth' = ReArmed /\ allowed' = Throttled(OpenConns - 1) /\ retry' = TRUE
      /\ UNCHANGED <<req, prio, at, queue, failures, state, everOnline, lowAcc, cursor, closed>>
  BY DEF IInv, DialLimited, Redispatch
<1>2. /\ conn' \in [Slots -> {"none", "dialing", "up", "dead"}]
      /\ \A t \in Slots : OnConn(t) # {} => conn'[t] = "up"
      /\ OpenConns' = OpenConns - 1 /\ OpenConns \in Nat
  BY <1>1, DialSettled
<1>3. allowed' \in 1..MaxConns /\ OpenConns' <= allowed'
  <2>1. allowed \in 1..MaxConns /\ OpenConns <= allowed
    BY <1>1 DEF TypeOK, ConnsWithinCeiling
  <2>2. allowed' = allowed \/ (allowed' < allowed /\ (allowed' = 1 \/ allowed' = OpenConns - 1))
    BY <1>1, <1>2, <2>1 DEF Throttled, Ceiling
  <2>3. OpenConns - 1 <= allowed'
    BY <1>1, <1>2, <2>1 DEF Throttled, Ceiling
  <2>4. allowed' >= 1
    BY <1>1, <1>2, <2>1 DEF Throttled, Ceiling
  <2> QED BY <1>2, <2>1, <2>2, <2>3, <2>4, Constants
<1>4. auth' \in {"clear", "latched", "cooling", "elapsed"} /\ (state' = "auth_failed" => auth' # "clear")
  BY <1>1, ReArmedFacts
<1>5. TypeOK'
  BY <1>1, <1>2, <1>3, <1>4 DEF TypeOK
<1>6. Queued' = Queued
  BY <1>1 DEF Queued
<1>7. QueueSound'
  BY <1>1, <1>6, QueuesKept
<1>8. WalkSound' /\ AuthSound' /\ ClosedSound' /\ Served'
  <2>1. Pending'
    BY <1>1 DEF Pending
  <2> QED BY <1>1, <1>4, <1>6, <2>1, NotDispatched
<1>9. ConnsWithinCeiling'
  <2>1. \A t \in Slots : OnConn(t)' = OnConn(t)
    BY <1>1 DEF OnConn
  <2> QED BY <1>1, <1>2, <1>3, <2>1 DEF ConnsWithinCeiling
<1> QED BY <1>5, <1>7, <1>8, <1>9 DEF IInv

\* A dial fails any other way.
LEMMA DialFailsInv ==
    ASSUME IInv, NEW s \in Slots, DialFails(s)
    PROVE  IInv'
<1>1. /\ TypeOK /\ QueueSound /\ AuthSound /\ ClosedSound /\ ConnsWithinCeiling /\ Served
      /\ cursor = 0 /\ conn[s] = "dialing" /\ conn' = [conn EXCEPT ![s] = "none"]
      /\ auth' = ReArmed /\ retry' = TRUE
      /\ UNCHANGED <<prio, at, state, everOnline, allowed, lowAcc, cursor, closed>>
  BY DEF IInv, DialFails, Redispatch
<1>2. /\ conn' \in [Slots -> {"none", "dialing", "up", "dead"}]
      /\ \A t \in Slots : conn'[t] # "none" => conn[t] # "none"
      /\ \A t \in Slots : OnConn(t) # {} => conn'[t] = "up"
  BY <1>1, DialSettled
<1>3. /\ failures' \in [Slots -> 0..Threshold] /\ queue' \in [Class -> Seq(Req)]
      /\ req' \in [Req -> {"queued", "running", "orphan", "settled"}]
      /\ QueueSound' /\ Queued' \subseteq Queued
      /\ \A p \in Class : queue[p] = <<>> => queue'[p] = <<>>
      /\ \A q \in Req : req'[q] = "running" => req[q] = "running"
  <2>1. CASE closed
    <3>1. UNCHANGED <<failures, queue, req>>
      BY <2>1 DEF DialFails
    <3>2. Queued' = Queued
      BY <3>1 DEF Queued
    <3>3. QueueSound'
      BY <1>1, <3>1, <3>2, QueuesKept
    <3> QED BY <1>1, <3>1, <3>2, <3>3 DEF TypeOK
  <2>2. CASE ~closed
    <3>1. Records(s, {})
      BY <2>2 DEF DialFails
    <3>2. {} \in SUBSET Req /\ \A q \in {} : req[q] # "queued"
      OBVIOUS
    <3> QED BY <1>1, <3>1, <3>2, RecordsKeeps
  <2> QED BY <2>1, <2>2
<1>4. auth' \in {"clear", "latched", "cooling", "elapsed"} /\ (state' = "auth_failed" => auth' # "clear")
  BY <1>1, ReArmedFacts
<1>5. TypeOK'
  BY <1>1, <1>2, <1>3, <1>4 DEF TypeOK
<1>6. WalkSound' /\ AuthSound' /\ ClosedSound' /\ Served'
  <2>1. Pending'
    BY <1>1 DEF Pending
  <2> QED BY <1>1, <1>3, <1>4, <2>1, NotDispatched
<1>7. ConnsWithinCeiling'
  <2>1. \A t \in Slots : OnConn(t)' \subseteq OnConn(t)
    BY <1>1, <1>3 DEF OnConn
  <2>2. \A t \in Slots : OnConn(t)' # {} => conn'[t] = "up"
    BY <1>2, <2>1
  <2>3. allowed <= allowed'
    BY <1>1, Constants DEF TypeOK
  <2> QED BY <1>1, <1>2, <1>5, <2>1, <2>2, <2>3, CeilingKept
<1> QED BY <1>3, <1>5, <1>6, <1>7 DEF IInv

--------------------------------------------------------------------------------
(* Timers and close *)

\* A step of the timers that leaves the requests and the sockets alone.
LEMMA TimerInv ==
    ASSUME IInv, RetryTimer \/ ThrottleStep \/ Backstop \/ CooldownElapses
    PROVE  IInv'
<1>1. /\ TypeOK /\ QueueSound /\ AuthSound /\ ClosedSound /\ ConnsWithinCeiling /\ Served
      /\ cursor = 0 /\ closed \in BOOLEAN /\ allowed \in 1..MaxConns
      /\ UNCHANGED <<req, prio, at, queue, conn, failures, state, everOnline, lowAcc, closed>>
  BY DEF IInv, TypeOK, RetryTimer, ThrottleStep, Backstop, CooldownElapses
<1>2. Queued' = Queued /\ \A s \in Slots : OnConn(s)' = OnConn(s)
  BY <1>1 DEF Queued, OnConn
<1>3. /\ auth' \in {"clear", "latched", "cooling", "elapsed"} /\ retry' \in BOOLEAN
      /\ state' = "auth_failed" => auth' # "clear"
  BY <1>1 DEF TypeOK, AuthSound, RetryTimer, ThrottleStep, Backstop, CooldownElapses
<1>4. allowed' \in 1..MaxConns /\ allowed <= allowed'
  <2>1. allowed' = allowed \/ (allowed < MaxConns /\ allowed' = allowed + 1)
    BY DEF RetryTimer, ThrottleStep, Backstop, CooldownElapses
  <2> QED BY <1>1, <2>1, Constants
<1>5. WalkSound' /\ AuthSound' /\ ClosedSound' /\ Served' /\ cursor' \in 0..(MaxConns + 1)
  <2>1. CASE RetryTimer
    BY <1>1, <1>2, <1>3, <2>1, Dispatched DEF RetryTimer
  <2>2. CASE ThrottleStep \/ Backstop
    <3>1. StartDispatch
      BY <1>1, <2>2 DEF StartDispatch, ThrottleStep, Backstop
    <3> QED BY <1>1, <1>2, <1>3, <3>1, Dispatched
  <2>3. CASE CooldownElapses
    <3>1. Pending => Pending'
      BY <1>1, <2>3 DEF Pending, Conns, CooldownElapses
    <3>2. cursor' = 0
      BY <1>1, <2>3 DEF CooldownElapses
    <3> QED BY <1>1, <1>2, <1>3, <3>1, <3>2, NotDispatched
  <2> QED BY <2>1, <2>2, <2>3
<1>6. TypeOK'
  BY <1>1, <1>3, <1>4, <1>5 DEF TypeOK
<1>7. QueueSound'
  BY <1>1, <1>2, QueuesKept
<1>8. ConnsWithinCeiling'
  <2>1. \A s \in Slots : OnConn(s)' # {} => conn'[s] = "up"
    BY <1>1, <1>2 DEF ConnsWithinCeiling
  <2> QED BY <1>1, <1>2, <1>4, <1>6, <2>1, CeilingKept
<1> QED BY <1>5, <1>6, <1>7, <1>8 DEF IInv

\* close: everything queued is rejected, every connection let go.
LEMMA CloseInv ==
    ASSUME IInv, Close
    PROVE  IInv'
<1>1. /\ TypeOK /\ QueueSound /\ AuthSound /\ ConnsWithinCeiling
      /\ cursor = 0 /\ closed' = TRUE
      /\ conn' = [s \in Slots |-> IF conn[s] = "dialing" THEN "dialing" ELSE "none"]
      /\ req' = [r \in Req |-> IF req[r] = "running" THEN "orphan"
                               ELSE IF req[r] = "queued" THEN "settled" ELSE req[r]]
      /\ queue' = [p \in Class |-> <<>>]
      /\ UNCHANGED <<prio, at, failures, state, auth, everOnline, allowed, lowAcc, retry, cursor>>
  BY DEF IInv, Close, CloseRejects
<1>2. Queued' = {} /\ \A s \in Slots : OnConn(s)' = {}
  BY <1>1 DEF Queued, OnConn
<1>3. QueueSound' /\ queue' \in [Class -> Seq(Req)]
  BY <1>1, <1>2, QueuesEmptied
<1>4. TypeOK'
  <2>1. req' \in [Req -> {"queued", "running", "orphan", "settled"}]
    BY <1>1 DEF TypeOK
  <2>2. conn' \in [Slots -> {"none", "dialing", "up", "dead"}]
    BY <1>1 DEF TypeOK
  <2> QED BY <1>1, <1>3, <2>1, <2>2 DEF TypeOK
<1>5. WalkSound' /\ AuthSound'
  BY <1>1, WalkStarts DEF AuthSound
<1>6. ClosedSound' /\ Served'
  BY <1>1, <1>2 DEF ClosedSound, Served, HasWork
<1>7. ConnsWithinCeiling'
  <2>1. \A s \in Slots : conn'[s] # "none" => conn[s] # "none"
    BY <1>1
  <2>2. allowed <= allowed'
    BY <1>1, Constants DEF TypeOK
  <2> QED BY <1>1, <1>2, <1>4, <2>1, <2>2, CeilingKept
<1> QED BY <1>3, <1>4, <1>5, <1>6, <1>7 DEF IInv

--------------------------------------------------------------------------------
(* dispatch *)

\* What is capped at zero from below is a natural.
LEMMA PositiveTyped == \A n \in Int : Positive(n) \in Nat /\ n <= Positive(n)
BY DEF Positive

\* The counts dispatch works with are naturals.
LEMMA DemandTyped ==
    ASSUME TypeOK
    PROVE  /\ InFlightTotal \in Nat /\ (InFlightTotal = 0 <=> Running = {})
           /\ IdleInFlight \in Nat /\ (Running = {} /\ Orphans = {} => IdleInFlight = 0)
           /\ IdleShare \in Nat /\ IdleBudget \in Nat /\ Demand \in Nat
           /\ \A p \in Class : Len(queue[p]) \in Nat /\ (Len(queue[p]) = 0 <=> queue[p] = <<>>)
<1>1. \A p \in Class : Len(queue[p]) \in Nat /\ (Len(queue[p]) = 0 <=> queue[p] = <<>>)
  BY QueueMembers DEF TypeOK
<1>2. InFlightTotal \in Nat /\ (InFlightTotal = 0 <=> Running = {})
  <2>1. Running \subseteq Req
    BY DEF Running
  <2>2. Cardinality(Running) \in Nat /\ (Cardinality(Running) = 0 <=> Running = {})
    BY <2>1, Counts
  <2> QED BY <2>2 DEF InFlightTotal, Running
<1>3. IdleInFlight \in Nat /\ (Running = {} /\ Orphans = {} => IdleInFlight = 0)
  <2> DEFINE S == {r \in Req : req[r] \in {"running", "orphan"} /\ prio[r] = Idle}
  <2>1. S \subseteq Req /\ (Running = {} /\ Orphans = {} => S = {})
    BY DEF Running, Orphans
  <2>2. IdleInFlight = Cardinality(S)
    BY DEF IdleInFlight
  <2> HIDE DEF S
  <2>3. Cardinality(S) \in Nat /\ (Cardinality(S) = 0 <=> S = {})
    BY <2>1, Counts
  <2> QED BY <2>1, <2>2, <2>3
<1>4. IdleShare \in Nat
  <2>1. allowed \in Nat /\ allowed * Depth \in Nat
    BY Constants DEF TypeOK
  <2> DEFINE x == allowed * Depth
  <2> HIDE DEF x
  <2>2. x \in Nat => (x * 3) \div 4 \in Nat
    OBVIOUS
  <2> QED BY <2>1, <2>2 DEF IdleShare, x
<1>5. High \in Class /\ Low \in Class /\ Idle \in Class
  BY DEF Class
<1>6. IdleBudget \in Nat
  <2> DEFINE n == IdleShare - (InFlightTotal - IdleInFlight + Len(queue[High]) + Len(queue[Low]))
  <2>1. n \in Int
    BY <1>1, <1>2, <1>3, <1>4, <1>5
  <2>2. IdleBudget = Positive(n)
    BY DEF IdleBudget
  <2> HIDE DEF n
  <2> QED BY <2>1, <2>2, PositiveTyped
<1>7. Demand \in Nat
  <2> DEFINE room == Positive(IdleBudget - IdleInFlight)
             served == IF Len(queue[Idle]) < room THEN Len(queue[Idle]) ELSE room
  <2>1. IdleBudget - IdleInFlight \in Int
    BY <1>3, <1>6
  <2>2. room \in Nat
    BY <2>1, PositiveTyped
  <2>3. Demand = Len(queue[High]) + Len(queue[Low]) + served
    BY DEF Demand
  <2>4. served \in Nat
    BY <1>1, <1>5, <2>2
  <2>5. Len(queue[High]) \in Nat /\ Len(queue[Low]) \in Nat
    BY <1>1, <1>5
  <2>6. \A a, b, c \in Nat : a + b + c \in Nat
    OBVIOUS
  <2> HIDE DEF room, served
  <2> QED BY <2>3, <2>4, <2>5, <2>6, Zenon
<1> QED BY <1>1, <1>2, <1>3, <1>4, <1>6, <1>7

\* A pull takes from a class that has something, and finds something whenever
\* streams or library work wait, or background work within its budget.
LEMMA Pulled ==
    /\ \A p \in PulledClass : p \in Class /\ queue[p] # <<>>
    /\ PulledClass = {} => /\ queue[High] = <<>> /\ queue[Low] = <<>>
                           /\ queue[Idle] # <<>> => ~IdleFits
BY DEF PulledClass, LowTurn, Class

\* The accumulator of the share between streams and library work stays in range.
LEMMA AccumulatedTyped == TypeOK => Accumulated \in 0..99
<1> SUFFICES ASSUME TypeOK PROVE Accumulated \in 0..99
  OBVIOUS
<1>1. lowAcc \in 0..99 /\ LowOdds \in 0..100
  BY Constants DEF TypeOK
<1> QED BY <1>1 DEF Accumulated

\* A dispatch under a block fails the whole queue over.
LEMMA FailBlockedInv ==
    ASSUME IInv, FailBlocked
    PROVE  IInv'
<1>1. /\ TypeOK /\ QueueSound /\ AuthSound /\ ClosedSound /\ ConnsWithinCeiling
      /\ cursor = 1 /\ cursor' = 0 /\ queue' = [p \in Class |-> <<>>]
      /\ req' = [r \in Req |-> IF req[r] = "queued" THEN "settled" ELSE req[r]]
      /\ UNCHANGED <<prio, at, conn, failures, state, auth, everOnline, allowed, lowAcc, retry, closed>>
  BY DEF IInv, FailBlocked
<1>2. Queued' = {} /\ \A s \in Slots : OnConn(s)' = OnConn(s)
  BY <1>1 DEF Queued, OnConn
<1>3. QueueSound' /\ queue' \in [Class -> Seq(Req)]
  BY <1>1, <1>2, QueuesEmptied
<1>4. TypeOK'
  <2>1. req' \in [Req -> {"queued", "running", "orphan", "settled"}]
    BY <1>1 DEF TypeOK
  <2>2. cursor' \in 0..(MaxConns + 1)
    BY <1>1, Constants
  <2> QED BY <1>1, <1>3, <2>1, <2>2 DEF TypeOK
<1>5. WalkSound' /\ AuthSound'
  BY <1>1, WalkStarts DEF AuthSound
<1>6. ClosedSound' /\ Served'
  BY <1>1, <1>2 DEF ClosedSound, Served, HasWork
<1>7. ConnsWithinCeiling'
  BY <1>1, <1>2 DEF ConnsWithinCeiling, OpenConns, Conns
<1> QED BY <1>3, <1>4, <1>5, <1>6, <1>7 DEF IInv

\* The visited connection takes a request.
LEMMA FillOneInv ==
    ASSUME IInv, FillOne
    PROVE  IInv'
<1>1. /\ TypeOK /\ QueueSound /\ AuthSound /\ ClosedSound /\ ConnsWithinCeiling /\ WalkSound
      /\ cursor \in Slots /\ conn[cursor] = "up" /\ Cardinality(OnConn(cursor)) < Depth
      /\ UNCHANGED <<prio, conn, failures, state, auth, everOnline, allowed, retry, cursor, closed>>
      /\ lowAcc' = Accumulated
  BY DEF IInv, FillOne, Walks, CanAccept
<1>2. PICK p \in PulledClass :
        /\ queue' = [queue EXCEPT ![p] = Tail(@)]
        /\ req' = [req EXCEPT ![Head(queue[p])] = "running"]
        /\ at' = [at EXCEPT ![Head(queue[p])] = cursor]
  BY DEF FillOne
<1> DEFINE h == Head(queue[p])
<1>3. p \in Class /\ queue[p] # <<>> /\ queue[p] \in Seq(Req) /\ Distinct(queue[p])
  BY <1>1, Pulled DEF TypeOK, QueueSound
<1>4. /\ h \in Req /\ Tail(queue[p]) \in Seq(Req) /\ Distinct(Tail(queue[p]))
      /\ h \in Range(queue[p]) /\ Range(Tail(queue[p])) = Range(queue[p]) \ {h}
  BY <1>3, TailFacts
<1> HIDE DEF h
<1>5. req[h] = "queued" /\ prio[h] = p
  BY <1>1, <1>3, <1>4 DEF QueueSound
<1>6. /\ req' = [req EXCEPT ![h] = "running"] /\ at' = [at EXCEPT ![h] = cursor]
      /\ queue' \in [Class -> Seq(Req)] /\ queue'[p] = Tail(queue[p])
      /\ \A c \in Class \ {p} : queue'[c] = queue[c]
  BY <1>1, <1>2, <1>3, <1>4 DEF TypeOK, h
<1>7. /\ \A r \in Req \ {h} : req'[r] = req[r] /\ at'[r] = at[r]
      /\ req'[h] = "running" /\ at'[h] = cursor /\ Queued' = Queued \ {h}
  BY <1>1, <1>4, <1>6 DEF TypeOK, Queued
<1>8. TypeOK'
  <2>1. req' \in [Req -> {"queued", "running", "orphan", "settled"}] /\ at' \in [Req -> 0..MaxConns]
    <3>1. cursor \in 0..MaxConns
      BY <1>1, Constants DEF Slots
    <3>2. at \in [Req -> 0..MaxConns] /\ req \in [Req -> {"queued", "running", "orphan", "settled"}]
      BY <1>1 DEF TypeOK
    <3> QED BY <1>6, <3>1, <3>2, ExceptTyped
  <2>2. lowAcc' \in 0..99
    BY <1>1, AccumulatedTyped
  <2> QED BY <1>1, <1>6, <2>1, <2>2 DEF TypeOK
<1>9. QueueSound'
  <2>1. ASSUME NEW c \in Class
        PROVE  /\ Distinct(queue'[c]) /\ Range(queue'[c]) \subseteq Range(queue[c])
               /\ h \notin Range(queue'[c]) /\ Range(queue[c]) \subseteq Range(queue'[c]) \cup {h}
    <3>1. CASE c = p
      BY <1>4, <1>6, <3>1
    <3>2. CASE c # p
      <4>1. queue'[c] = queue[c]
        BY <1>6, <3>2
      <4>2. h \notin Range(queue[c])
        BY <1>1, <1>5, <3>2 DEF QueueSound
      <4> QED BY <1>1, <4>1, <4>2 DEF QueueSound
    <3> QED BY <3>1, <3>2
  <2>2. ASSUME NEW c \in Class, NEW r \in Range(queue'[c]) PROVE req'[r] = "queued" /\ prio'[r] = c
    <3>1. r \in Range(queue[c]) /\ r # h /\ queue[c] \in Seq(Req)
      BY <1>1, <2>1, <2>2 DEF TypeOK
    <3>2. r \in Req /\ req[r] = "queued" /\ prio[r] = c
      BY <1>1, <3>1, QueueMembers DEF QueueSound
    <3> QED BY <1>1, <1>7, <3>1, <3>2
  <2>3. ASSUME NEW r \in Queued' PROVE r \in Range(queue'[prio'[r]])
    <3>1. r \in Queued /\ r # h /\ prio'[r] = prio[r] /\ prio[r] \in Class
      BY <1>1, <1>7, <2>3 DEF TypeOK, Queued
    <3> QED BY <1>1, <2>1, <3>1 DEF QueueSound
  <2> QED BY <2>1, <2>2, <2>3 DEF QueueSound
<1>10. AuthSound' /\ ClosedSound' /\ Served'
  <2>1. cursor # 0
    BY <1>1 DEF Slots
  <2> QED BY <1>1, <2>1 DEF AuthSound, AuthBlocked, ClosedSound, Served
<1>11. WalkSound'
  <2>1. Running' # {}
    BY <1>4, <1>7 DEF Running
  <2>2. cursor # MaxConns + 1
    BY <1>1, Constants DEF Slots
  <2> QED BY <1>1, <2>1, <2>2 DEF WalkSound
<1>12. ConnsWithinCeiling'
  <2>1. ASSUME NEW s \in Slots, s # cursor PROVE OnConn(s)' = OnConn(s)
    BY <1>5, <1>7, <2>1 DEF OnConn
  <2>2. OnConn(cursor)' = OnConn(cursor) \cup {h}
    BY <1>1, <1>4, <1>7 DEF OnConn
  <2>3. OnConn(cursor) \subseteq Req
    BY DEF OnConn
  <2>4. IsFiniteSet(OnConn(cursor)) /\ Cardinality(OnConn(cursor)) \in Nat
    BY <2>3, Counts
  <2>5. Cardinality(OnConn(cursor) \cup {h}) <= Cardinality(OnConn(cursor)) + 1
    <3>1. IsFiniteSet(OnConn(cursor))
      BY <2>4
    <3>2. Cardinality(OnConn(cursor) \cup {h})
            = IF h \in OnConn(cursor) THEN Cardinality(OnConn(cursor)) ELSE Cardinality(OnConn(cursor)) + 1
      BY <3>1, FS_AddElement
    <3> QED BY <2>4, <3>2
  <2>6. Cardinality(OnConn(cursor) \cup {h}) \in Nat
    <3>1. OnConn(cursor) \cup {h} \subseteq Req
      BY <1>4, <2>3
    <3> QED BY <3>1, Counts
  <2>7. \A s \in Slots : Cardinality(OnConn(s)') <= Depth
    <3>1. ASSUME NEW s \in Slots, s # cursor PROVE Cardinality(OnConn(s)') <= Depth
      BY <1>1, <2>1, <3>1 DEF ConnsWithinCeiling
    <3>2. Cardinality(OnConn(cursor)') <= Depth
      <4>1. Cardinality(OnConn(cursor)) + 1 <= Depth
        BY <1>1, <2>4, Constants
      <4>2. Cardinality(OnConn(cursor)') = Cardinality(OnConn(cursor) \cup {h})
        BY <2>2
      <4> QED BY <2>4, <2>5, <2>6, <4>1, <4>2, Constants
    <3>3. cursor' = cursor
      BY <1>1
    <3> QED BY <3>1, <3>2, <3>3
  <2>8. \A s \in Slots : OnConn(s)' # {} => conn'[s] = "up"
    BY <1>1, <2>1 DEF ConnsWithinCeiling
  <2>9. OpenConns' <= allowed'
    BY <1>1 DEF ConnsWithinCeiling, OpenConns, Conns
  <2> QED BY <2>7, <2>8, <2>9 DEF ConnsWithinCeiling
<1> QED BY <1>8, <1>9, <1>10, <1>11, <1>12 DEF IInv

\* The walk goes on to the next slot, or ends because nothing waits.
LEMMA NextSlotInv ==
    ASSUME IInv, NextSlot
    PROVE  IInv'
<1>1. /\ TypeOK /\ QueueSound /\ AuthSound /\ ClosedSound /\ ConnsWithinCeiling /\ WalkSound
      /\ cursor \in Slots /\ ~(cursor = 1 /\ AuthBlocked) /\ ~(CanAccept(cursor) /\ PulledClass # {})
      /\ conn' = IF HasWork /\ conn[cursor] = "dead" THEN [conn EXCEPT ![cursor] = "none"] ELSE conn
      /\ cursor' = IF HasWork THEN cursor + 1 ELSE 0
      /\ UNCHANGED <<req, prio, at, queue, failures, state, auth, everOnline, allowed, lowAcc, retry, closed>>
  BY DEF IInv, NextSlot, Walks
<1>2. Queued' = Queued /\ Running' = Running /\ \A s \in Slots : OnConn(s)' = OnConn(s)
  BY <1>1 DEF Queued, Running, OnConn
<1>3. QueueSound'
  BY <1>1, <1>2, QueuesKept
<1>4. cursor \in Nat /\ 1 <= cursor /\ cursor <= MaxConns /\ cursor' \in 0..(MaxConns + 1)
  BY <1>1, Constants DEF Slots
<1>5. /\ conn' \in [Slots -> {"none", "dialing", "up", "dead"}]
      /\ \A s \in Slots : conn'[s] = conn[s] \/ (conn[s] = "dead" /\ conn'[s] = "none")
      /\ \A s \in Slots \ {cursor} : conn'[s] = conn[s]
      /\ HasWork => conn'[cursor] # "dead"
  BY <1>1 DEF TypeOK
<1>6. TypeOK'
  BY <1>1, <1>4, <1>5 DEF TypeOK
<1>7. AuthSound'
  <2>1. ~AuthBlocked \/ cursor' = 0
    BY <1>1, <1>4 DEF AuthSound
  <2> QED BY <1>1, <2>1 DEF AuthSound, AuthBlocked
<1>8. ClosedSound'
  BY <1>1, <1>4 DEF ClosedSound
<1>9. Served'
  BY <1>1, <1>2, <1>4 DEF Served, HasWork
<1>10. WalkSound'
  <2>1. CASE ~HasWork
    BY <1>1, <1>7, <2>1, WalkStarts DEF AuthSound
  <2>2. CASE HasWork
    <3>1. PulledClass' = PulledClass
      BY <1>1 DEF PulledClass, LowTurn, IdleFits, IdleBudget, IdleInFlight, InFlightTotal, IdleShare
    <3>2. cursor' = cursor + 1 /\ HasWork'
      BY <1>1, <1>2, <2>2 DEF HasWork
    <3>3. ASSUME NEW s \in Slots, s < cursor'
          PROVE  conn'[s] # "dead" /\ (conn'[s] = "up" /\ Running' = {} => PulledClass' = {})
      <4>1. CASE s = cursor
        <5>1. ASSUME conn'[cursor] = "up", Running = {} PROVE PulledClass = {}
          <6>1. OnConn(cursor) = {}
            BY <5>1 DEF OnConn, Running
          <6>2. Cardinality(OnConn(cursor)) = 0
            BY <6>1, FS_EmptySet
          <6>3. conn[cursor] = "up"
            BY <1>1, <1>5, <5>1
          <6> QED BY <1>1, <6>2, <6>3, Constants DEF CanAccept
        <5> QED BY <1>2, <1>5, <2>2, <3>1, <4>1, <5>1
      <4>2. CASE s # cursor
        <5>1. s < cursor
          BY <1>4, <3>2, <3>3, <4>2 DEF Slots
        <5>2. conn'[s] = conn[s]
          BY <1>5, <4>2
        <5> QED BY <1>1, <1>2, <3>1, <5>1, <5>2 DEF WalkSound
      <4> QED BY <4>1, <4>2
    <3> QED BY <3>2, <3>3 DEF WalkSound
  <2> QED BY <2>1, <2>2
<1>11. ConnsWithinCeiling'
  <2>1. \A s \in Slots : OnConn(s)' # {} => conn'[s] = "up"
    BY <1>2, <1>1, <1>5 DEF ConnsWithinCeiling
  <2>2. allowed <= allowed'
    BY <1>1, Constants DEF TypeOK
  <2>3. \A s \in Slots : conn'[s] # "none" => conn[s] # "none"
    BY <1>5
  <2> QED BY <1>1, <1>2, <1>6, <2>1, <2>2, <2>3, CeilingKept
<1> QED BY <1>3, <1>6, <1>7, <1>8, <1>9, <1>10, <1>11 DEF IInv

--------------------------------------------------------------------------------
(* The dial loop *)

\* Rounding up to whole connections.
LEMMA CeilingDivision ==
    ASSUME NEW n \in Nat, NEW d \in Nat, d > 0
    PROVE  (n + d - 1) \div d \in Nat /\ (n > 0 => (n + d - 1) \div d > 0)
OBVIOUS

\* Demand covers every stream and library request, and background work within
\* its budget.
LEMMA DemandCovers ==
    ASSUME TypeOK, Demand = 0
    PROVE  /\ queue[High] = <<>> /\ queue[Low] = <<>>
           /\ queue[Idle] # <<>> => IdleBudget <= IdleInFlight
<1> DEFINE room == Positive(IdleBudget - IdleInFlight)
           share == IF Len(queue[Idle]) < room THEN Len(queue[Idle]) ELSE room
<1>1. /\ IdleInFlight \in Nat /\ IdleBudget \in Nat
      /\ \A p \in Class : Len(queue[p]) \in Nat /\ (Len(queue[p]) = 0 <=> queue[p] = <<>>)
      /\ High \in Class /\ Low \in Class /\ Idle \in Class
  BY DemandTyped DEF Class
<1>2. room \in Nat /\ IdleBudget - IdleInFlight <= room
  <2>1. IdleBudget - IdleInFlight \in Int
    BY <1>1
  <2> QED BY <2>1, PositiveTyped
<1>3. Demand = Len(queue[High]) + Len(queue[Low]) + share
  BY DEF Demand
<1> HIDE DEF room
<1>4. /\ Len(queue[High]) \in Nat /\ Len(queue[Low]) \in Nat /\ share \in Nat
      /\ (share = 0 => Len(queue[Idle]) = 0 \/ room = 0)
  BY <1>1, <1>2
<1> HIDE DEF share
<1>5. \A a, b, c \in Nat : a + b + c = 0 => a = 0 /\ b = 0 /\ c = 0
  OBVIOUS
<1>6. Len(queue[High]) = 0 /\ Len(queue[Low]) = 0 /\ share = 0
  BY <1>3, <1>4, <1>5, Zenon
<1>7. ASSUME queue[Idle] # <<>> PROVE IdleBudget <= IdleInFlight
  <2>1. room = 0
    BY <1>1, <1>4, <1>6, <1>7
  <2> QED BY <1>1, <1>2, <2>1
<1> QED BY <1>1, <1>6, <1>7

\* With nothing in flight and an unthrottled ceiling, only a provider of one
\* connection of depth one leaves background work no budget.
LEMMA IdleStarves ==
    ASSUME TypeOK, Running = {}, Orphans = {}, allowed = MaxConns,
           queue[High] = <<>>, queue[Low] = <<>>, IdleBudget <= IdleInFlight
    PROVE  Lone
<1>1. /\ InFlightTotal = 0 /\ IdleInFlight = 0 /\ IdleBudget \in Nat /\ IdleShare \in Nat
      /\ Len(queue[High]) = 0 /\ Len(queue[Low]) = 0
  BY DemandTyped DEF Class
<1>2. IdleBudget = Positive(IdleShare - (0 - 0 + 0 + 0))
  BY <1>1 DEF IdleBudget
<1>3. IdleShare = 0
  BY <1>1, <1>2, PositiveTyped
<1> DEFINE x == MaxConns * Depth
<1>4. x \in Nat /\ x >= 1
  BY Constants
<1>5. (x * 3) \div 4 = 0
  BY <1>3 DEF IdleShare
<1> HIDE DEF x
<1>6. x = 1
  BY <1>4, <1>5
<1> QED BY <1>6 DEF Lone, x

\* How many connections dispatch opens: never beyond the ceiling, one at most
\* while recovering, and some when nothing is open and there is demand.
LEMMA ToDialFacts ==
    ASSUME TypeOK, ConnsWithinCeiling
    PROVE  /\ ToDial \in Nat /\ OpenConns \in Nat /\ OpenConns + ToDial <= allowed
           /\ state = "auth_failed" /\ ToDial > 0 => OpenConns = 0 /\ ToDial = 1
           /\ OpenConns = 0 /\ Demand # 0 => ToDial > 0
<1>1. OpenConns \in Nat /\ OpenConns <= allowed /\ allowed \in Nat /\ allowed >= 1
  <2>1. Conns({"dialing", "up", "dead"}) \subseteq Slots
    BY DEF Conns
  <2>2. OpenConns \in Nat
    BY <2>1, Counts DEF OpenConns
  <2> QED BY <2>2, Constants DEF TypeOK, ConnsWithinCeiling
<1>2. InFlightTotal \in Nat /\ Demand \in Nat
  BY DemandTyped
<1>3. WantConns \in Nat /\ WantConns <= allowed /\ (Demand # 0 => WantConns > 0)
  <2> DEFINE m == InFlightTotal + Demand
             n == (m + Depth - 1) \div Depth
  <2>1. m \in Nat /\ (Demand # 0 => m > 0)
    BY <1>2
  <2>2. WantConns = IF n < allowed THEN n ELSE allowed
    BY DEF WantConns
  <2> HIDE DEF m
  <2>3. n \in Nat /\ (m > 0 => n > 0)
    BY <2>1, CeilingDivision, Constants
  <2> HIDE DEF n
  <2> QED BY <1>1, <2>1, <2>2, <2>3
<1>4. CASE Demand = 0
  <2>1. ToDial = 0
    BY <1>4 DEF ToDial
  <2> QED BY <1>1, <1>4, <2>1
<1>5. CASE Demand # 0 /\ state = "auth_failed"
  <2>1. ToDial = Positive(1 - OpenConns)
    BY <1>5 DEF ToDial
  <2> QED BY <1>1, <2>1 DEF Positive
<1>6. CASE Demand # 0 /\ state # "auth_failed"
  <2>1. ToDial = Positive(WantConns - OpenConns)
    BY <1>6 DEF ToDial
  <2> QED BY <1>1, <1>3, <1>6, <2>1 DEF Positive
<1> QED BY <1>4, <1>5, <1>6

\* The dial loop opens no more than asked for, from the first shut slot on.
LEMMA DialOpens ==
    ASSUME TypeOK, ConnsWithinCeiling, Dial
    PROVE  /\ conn' \in [Slots -> {"none", "dialing", "up", "dead"}]
           /\ \A s \in Slots : conn'[s] = conn[s] \/ (conn[s] = "none" /\ conn'[s] = "dialing")
           /\ OpenConns' <= OpenConns + ToDial /\ OpenConns' \in Nat
           /\ Conns({"dialing"})' \ Conns({"dialing"}) # {} => ToDial > 0
           /\ OpenConns = 0 /\ ToDial > 0 => conn'[1] = "dialing" /\ OpenConns' # 0
<1> DEFINE shut == Conns({"none"})
           New == {s \in shut : Cardinality({t \in shut : t < s}) < ToDial}
           Open == Conns({"dialing", "up", "dead"})
<1>1. conn' = [s \in Slots |-> IF s \in shut /\ Cardinality({t \in shut : t < s}) < ToDial
                               THEN "dialing" ELSE conn[s]]
  BY DEF Dial
<1>2. shut \subseteq Slots /\ Open \subseteq Slots /\ New \subseteq shut
      /\ \A s \in Slots : s \in shut <=> conn[s] = "none"
  BY DEF Conns
<1>3. \A s \in Slots : conn'[s] = IF s \in New THEN "dialing" ELSE conn[s]
  BY <1>1
<1>4. ToDial \in Nat /\ OpenConns \in Nat
  BY ToDialFacts
<1>5. Cardinality(New) <= ToDial
  <2>1. shut \in SUBSET (1..MaxConns) /\ MaxConns \in Nat
    BY <1>2, Constants DEF Slots
  <2> HIDE DEF shut
  <2> QED BY <1>4, <2>1, LowestFew
<1>6. ASSUME OpenConns = 0, ToDial > 0 PROVE 1 \in New
  <2>1. Open = {}
    BY <1>2, <1>6, Counts DEF OpenConns
  <2>2. 1 \in Slots
    BY Constants DEF Slots
  <2>3. 1 \in shut
    BY <1>2, <2>1, <2>2 DEF Conns, TypeOK
  <2>4. {t \in shut : t < 1} = {}
    BY <1>2 DEF Slots
  <2>5. Cardinality({t \in shut : t < 1}) = 0
    BY <2>4, FS_EmptySet
  <2> QED BY <1>6, <2>3, <2>5
<1> HIDE DEF shut, New
<1>7. conn' \in [Slots -> {"none", "dialing", "up", "dead"}]
  <2>1. conn' = [s \in Slots |-> conn'[s]]
    BY <1>1
  <2> QED BY <1>3, <2>1 DEF TypeOK
<1>8. \A s \in Slots : conn'[s] = conn[s] \/ (conn[s] = "none" /\ conn'[s] = "dialing")
  BY <1>2, <1>3
<1>9. Open' = Open \cup New
  BY <1>2, <1>3 DEF Conns, TypeOK
<1> HIDE DEF Open
<1>10. OpenConns' <= OpenConns + ToDial /\ OpenConns' \in Nat /\ (1 \in New => OpenConns' # 0)
  <2>1. IsFiniteSet(Open) /\ IsFiniteSet(New) /\ Cardinality(New) \in Nat
    BY <1>2, Counts
  <2>2. /\ IsFiniteSet(Open \cup New) /\ Cardinality(Open \cup New) \in Nat
        /\ (Cardinality(Open \cup New) = 0 <=> Open \cup New = {})
    <3>1. Open \cup New \subseteq Slots
      BY <1>2
    <3> QED BY <3>1, Counts
  <2>3. Cardinality(Open \cup New) = Cardinality(Open) + Cardinality(New) - Cardinality(Open \cap New)
    BY <2>1, FS_Union
  <2>4. Cardinality(Open \cap New) \in Nat
    BY <2>1, FS_Intersection, FS_CardinalityType
  <2>5. OpenConns = Cardinality(Open) /\ OpenConns' = Cardinality(Open \cup New)
    BY <1>9 DEF OpenConns, Open
  <2> QED BY <1>4, <1>5, <2>1, <2>2, <2>3, <2>4, <2>5
<1>11. ASSUME Conns({"dialing"})' \ Conns({"dialing"}) # {} PROVE ToDial > 0
  <2>1. PICK s \in Slots : conn'[s] = "dialing" /\ conn[s] # "dialing"
    BY <1>11 DEF Conns
  <2>2. New # {}
    BY <1>3, <2>1
  <2>3. Cardinality(New) \in Nat /\ Cardinality(New) # 0
    BY <1>2, <2>2, Counts
  <2> QED BY <1>4, <1>5, <2>3
<1>12. ASSUME OpenConns = 0, ToDial > 0 PROVE conn'[1] = "dialing" /\ OpenConns' # 0
  <2>1. 1 \in Slots
    BY Constants DEF Slots
  <2> QED BY <1>3, <1>6, <1>10, <1>12, <2>1
<1> QED BY <1>7, <1>8, <1>10, <1>11, <1>12

\* The walk ends in the dial loop, and leaves something pending.
LEMMA DialInv ==
    ASSUME IInv, Dial
    PROVE  IInv'
<1>1. /\ TypeOK /\ QueueSound /\ AuthSound /\ ClosedSound /\ ConnsWithinCeiling /\ WalkSound
      /\ cursor = MaxConns + 1 /\ cursor' = 0
      /\ UNCHANGED <<req, prio, at, queue, failures, state, auth, everOnline, allowed, lowAcc, retry, closed>>
  BY DEF IInv, Dial
<1>2. /\ conn' \in [Slots -> {"none", "dialing", "up", "dead"}]
      /\ \A s \in Slots : conn'[s] = conn[s] \/ (conn[s] = "none" /\ conn'[s] = "dialing")
      /\ OpenConns' <= OpenConns + ToDial /\ OpenConns' \in Nat
      /\ OpenConns = 0 /\ ToDial > 0 => conn'[1] = "dialing"
  BY <1>1, DialOpens
<1>3. /\ ToDial \in Nat /\ OpenConns \in Nat /\ OpenConns + ToDial <= allowed
      /\ OpenConns = 0 /\ Demand # 0 => ToDial > 0
  BY <1>1, ToDialFacts
<1>4. Queued' = Queued /\ \A s \in Slots : OnConn(s)' = OnConn(s)
  BY <1>1 DEF Queued, OnConn
<1>5. TypeOK'
  <2>1. cursor' \in 0..(MaxConns + 1)
    BY <1>1, Constants
  <2> QED BY <1>1, <1>2, <2>1 DEF TypeOK
<1>6. QueueSound'
  BY <1>1, <1>4, QueuesKept
<1>7. WalkSound' /\ AuthSound'
  BY <1>1, WalkStarts DEF AuthSound
<1>8. ClosedSound'
  BY <1>1, Constants DEF ClosedSound
<1>9. ConnsWithinCeiling'
  <2>1. OpenConns' <= allowed'
    BY <1>1, <1>2, <1>3, Constants DEF TypeOK
  <2>2. \A s \in Slots : OnConn(s)' # {} => conn'[s] = "up"
    BY <1>1, <1>2, <1>4 DEF ConnsWithinCeiling
  <2> QED BY <1>1, <1>4, <2>1, <2>2 DEF ConnsWithinCeiling
<1>10. Served'
  <2> SUFFICES ASSUME ~Pending' PROVE Lone /\ queue[High] = <<>> /\ queue[Low] = <<>>
    BY <1>1 DEF Served, Lone
  <2>1. HasWork
    BY <1>1 DEF WalkSound
  <2>2. Running = {} /\ Orphans = {} /\ allowed = MaxConns
    BY <1>1, Constants DEF Pending, Running, Orphans, TypeOK
  <2>3. \A s \in Slots : conn'[s] # "dialing"
    BY DEF Pending, Conns
  <2>4. \A s \in Slots : conn[s] \in {"none", "up"} /\ conn'[s] = conn[s]
    <3>1. \A s \in Slots : s < cursor
      BY <1>1, Constants DEF Slots
    <3>2. \A s \in Slots : conn[s] # "dead"
      BY <1>1, <3>1 DEF WalkSound
    <3> QED BY <1>1, <1>2, <2>3, <3>2 DEF TypeOK
  <2>5. queue[High] = <<>> /\ queue[Low] = <<>> => queue[Idle] # <<>>
    <3>1. PICK p \in Class : queue[p] # <<>>
      BY <1>1, <2>1, WorkQueued
    <3> QED BY <3>1 DEF Class
  <2>6. /\ queue[High] = <<>> /\ queue[Low] = <<>>
        /\ queue[Idle] # <<>> => IdleBudget <= IdleInFlight
    <3>1. CASE \E s \in Slots : conn[s] = "up"
      <4>1. PICK s \in Slots : conn[s] = "up"
        BY <3>1
      <4>2. s < cursor
        BY <1>1, Constants DEF Slots
      <4>3. PulledClass = {}
        BY <1>1, <2>2, <4>1, <4>2 DEF WalkSound
      <4>4. IdleInFlight \in Nat /\ IdleBudget \in Nat
        BY <1>1, DemandTyped
      <4> QED BY <4>3, <4>4, Pulled DEF IdleFits
    <3>2. CASE \A s \in Slots : conn[s] # "up"
      <4>1. Conns({"dialing", "up", "dead"}) = {}
        BY <2>4, <3>2 DEF Conns
      <4>2. OpenConns = 0
        BY <4>1, FS_EmptySet DEF OpenConns
      <4>3. 1 \in Slots
        BY Constants DEF Slots
      <4>4. Demand = 0
        BY <1>2, <1>3, <2>3, <4>2, <4>3
      <4> QED BY <1>1, <4>4, DemandCovers
    <3> QED BY <3>1, <3>2
  <2>7. Lone
    BY <1>1, <2>2, <2>5, <2>6, IdleStarves
  <2> QED BY <2>6, <2>7
<1> QED BY <1>5, <1>6, <1>7, <1>8, <1>9, <1>10 DEF IInv

--------------------------------------------------------------------------------
(* The theorems *)

\* Every step keeps the invariant.
LEMMA StepInv == IInv /\ [Next]_vars => IInv'
<1> SUFFICES ASSUME IInv, [Next]_vars PROVE IInv'
  OBVIOUS
<1>1. CASE UNCHANGED vars
  <2>1. /\ TypeOK' /\ QueueSound' /\ AuthSound' /\ ClosedSound'
    BY <1>1 DEF IInv, vars, TypeOK, QueueSound, Queued, AuthSound, AuthBlocked, ClosedSound
  <2>2. ConnsWithinCeiling'
    BY <1>1 DEF IInv, vars, ConnsWithinCeiling, OpenConns, Conns, OnConn
  <2>3. WalkSound'
    BY <1>1 DEF IInv, vars, WalkSound, Running, HasWork, Queued, PulledClass, LowTurn, IdleFits,
                IdleBudget, IdleInFlight, InFlightTotal, IdleShare
  <2>4. Served'
    BY <1>1 DEF IInv, vars, Served, HasWork, Queued, Pending, Conns, Lone
  <2> QED BY <2>1, <2>2, <2>3, <2>4 DEF IInv
<1>2. CASE Dispatching
  BY <1>2, FailBlockedInv, FillOneInv, NextSlotInv, DialInv DEF Dispatching
<1>3. ASSUME NEW r \in Req, NEW p \in Class, Submit(r, p) PROVE IInv'
  BY <1>3, SubmitInv
<1>4. ASSUME NEW r \in Req, Abort(r) \/ TransferSettles(r) PROVE IInv'
  BY <1>4, AbortInv, TransferDoneInv, TransferFailsInv, TransferLimitedInv DEF TransferSettles
<1>5. ASSUME NEW s \in Slots, ConnDies(s) \/ Purge(s) \/ DialSettles(s) PROVE IInv'
  BY <1>5, ConnDiesInv, PurgeInv, DialOkInv, DialAuthFailsInv, DialLimitedInv, DialFailsInv
     DEF DialSettles
<1>6. CASE RetryTimer \/ ThrottleStep \/ Backstop \/ CooldownElapses \/ Close
  BY <1>6, TimerInv, CloseInv
<1> QED BY <1>1, <1>2, <1>3, <1>4, <1>5, <1>6 DEF Next

\* The inductive invariant holds throughout.
THEOREM Invariance == Spec => []IInv
BY InitInv, StepInv, PTL DEF Spec

\* A queue that holds each of its requests once, and only those of its class
\* that wait, accounts for every request.
LEMMA Conserved == TypeOK /\ QueueSound => RequestsConserved
<1> SUFFICES ASSUME TypeOK, QueueSound, NEW r \in Req
             PROVE  /\ req[r] = "queued" <=> r \in Range(queue[prio[r]])
                    /\ \A p \in Class :
                         Cardinality({k \in DOMAIN queue[p] : queue[p][k] = r}) =
                           IF req[r] = "queued" /\ p = prio[r] THEN 1 ELSE 0
  BY DEF RequestsConserved
<1>1. \A p \in Class : r \in Range(queue[p]) <=> req[r] = "queued" /\ p = prio[r]
  BY DEF TypeOK, QueueSound, Queued
<1>2. ASSUME NEW p \in Class
      PROVE  Cardinality({k \in DOMAIN queue[p] : queue[p][k] = r}) =
               IF r \in Range(queue[p]) THEN 1 ELSE 0
  <2>1. Distinct(queue[p]) /\ Range(queue[p]) = {queue[p][k] : k \in DOMAIN queue[p]}
    BY RangeMembers DEF QueueSound
  <2>2. CASE r \in Range(queue[p])
    <3>1. PICK i \in DOMAIN queue[p] : queue[p][i] = r
      BY <2>1, <2>2
    <3>2. {k \in DOMAIN queue[p] : queue[p][k] = r} = {i}
      BY <2>1, <3>1, Zenon DEF Distinct
    <3> QED BY <2>2, <3>2, FS_Singleton
  <2>3. CASE r \notin Range(queue[p])
    <3>1. {k \in DOMAIN queue[p] : queue[p][k] = r} = {}
      BY <2>1, <2>3, Zenon
    <3> QED BY <2>3, <3>1, FS_EmptySet
  <2> QED BY <2>2, <2>3
<1>3. prio[r] \in Class
  BY DEF TypeOK
<1> QED BY <1>1, <1>2, <1>3

\* A request is in one place: waiting once in the queue of its class, on a
\* connection, or settled.
THEOREM RequestsAlwaysSound == Spec => []RequestsSound
<1>1. IInv => RequestsSound
  BY Conserved DEF IInv, RequestsSound
<1> QED BY <1>1, Invariance, PTL

\* Connections stay under the adaptive ceiling and pipelines under their depth.
THEOREM CeilingAlwaysKept == Spec => []ConnsWithinCeiling
<1>1. IInv => ConnsWithinCeiling
  BY DEF IInv
<1> QED BY <1>1, Invariance, PTL

\* No missed dispatch, on any provider that can run two transfers at once.
THEOREM WorkNeverStranded ==
    ASSUME MaxConns * Depth > 1
    PROVE  Spec => []NoStrandedWork
<1>1. IInv => NoStrandedWork
  BY DEF IInv, Served, Lone, Pending, NoStrandedWork
<1> QED BY <1>1, Invariance, PTL

\* Streams and library work always have something pending that dispatches them.
ForegroundServed ==
    (queue[High] # <<>> \/ queue[Low] # <<>>) /\ cursor = 0 => Pending

\* No missed dispatch for streams and library work, on any provider whatever.
THEOREM ForegroundNeverStranded == Spec => []ForegroundServed
<1>1. IInv => ForegroundServed
  <2> SUFFICES ASSUME IInv, queue[High] # <<>> \/ queue[Low] # <<>>, cursor = 0 PROVE Pending
    BY DEF ForegroundServed
  <2>1. HasWork
    BY WorkQueued DEF IInv, Class
  <2> QED BY <2>1 DEF IInv, Served
<1> QED BY <1>1, Invariance, PTL

\* Recovering from a failed login dials one probe, and nothing beside it.
THEOREM ProbesAlone == Spec => LoneProbe
<1> DEFINE Alone == state = "auth_failed" /\ Conns({"dialing"})' \ Conns({"dialing"}) # {}
                      => OpenConns = 0 /\ OpenConns' = 1 /\ auth = "elapsed"
<1>1. IInv /\ [Next]_vars => [Alone]_vars
  <2> SUFFICES ASSUME IInv, Next, state = "auth_failed", Conns({"dialing"})' \ Conns({"dialing"}) # {}
               PROVE  OpenConns = 0 /\ OpenConns' = 1 /\ auth = "elapsed"
    OBVIOUS
  <2>1. PICK s \in Slots : conn'[s] = "dialing" /\ conn[s] # "dialing"
    BY DEF Conns
  <2>2. conn \in [Slots -> {"none", "dialing", "up", "dead"}]
    BY DEF IInv, TypeOK
  <2>3. CASE Dial
    <3>1. ToDial > 0 /\ OpenConns' <= OpenConns + ToDial /\ OpenConns' \in Nat
      BY <2>3, DialOpens DEF IInv
    <3>2. OpenConns = 0 /\ ToDial = 1
      BY <3>1, ToDialFacts DEF IInv
    <3>3. OpenConns' # 0
      BY <2>3, <3>1, <3>2, DialOpens DEF IInv
    <3>4. cursor > 1
      BY <2>3, Constants DEF Dial
    <3>5. auth = "elapsed"
      BY <3>4 DEF IInv, TypeOK, AuthSound, AuthBlocked
    <3> QED BY <3>1, <3>2, <3>3, <3>5
  <2>4. CASE ~Dial
    <3>1. ASSUME FailBlocked \/ FillOne \/ NextSlot PROVE FALSE
      BY <2>1, <2>2, <3>1 DEF FailBlocked, FillOne, NextSlot
    <3>2. ASSUME NEW r \in Req, NEW p \in Class, Submit(r, p) PROVE FALSE
      BY <2>1, <3>2 DEF Submit
    <3>3. ASSUME NEW r \in Req, Abort(r) \/ TransferSettles(r) PROVE FALSE
      BY <2>1, <2>2, <3>3
         DEF Abort, TransferSettles, TransferDone, TransferFails, TransferLimited, LetGo
    <3>4. ASSUME NEW t \in Slots, ConnDies(t) \/ Purge(t) \/ DialSettles(t) PROVE FALSE
      BY <2>1, <2>2, <3>4 DEF ConnDies, Purge, DialSettles, DialOk, DialAuthFails, DialLimited, DialFails
    <3>5. ASSUME RetryTimer \/ ThrottleStep \/ Backstop \/ CooldownElapses \/ Close PROVE FALSE
      BY <2>1, <2>2, <3>5 DEF RetryTimer, ThrottleStep, Backstop, CooldownElapses, Close
    <3> QED BY <2>4, <3>1, <3>2, <3>3, <3>4, <3>5 DEF Next, Dispatching
  <2> QED BY <2>3, <2>4
<1>2. Spec => [][Alone]_vars
  BY <1>1, Invariance, PTL DEF Spec
<1> QED BY <1>2 DEF LoneProbe

================================================================================
