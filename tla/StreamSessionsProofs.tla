--------------------------- MODULE StreamSessionsProofs ---------------------------
(***************************************************************************)
(* Whatever the users, targets and limits, and whichever statements fail   *)
(* or processes end: no row is left without an owner, every chunk is       *)
(* counted, and only the exempt pass the connection limit.                 *)
(***************************************************************************)
EXTENDS StreamSessions, DataLemmas

Passes == [pc : {"idle", "bandwidth", "upsert", "refresh", "stops"},
           claims : [Session -> Nat], wrote : [Session -> Nat],
           rows : SUBSET Session, closing : SUBSET Session]

\* A pass holds nothing of a session.
Free(pass, s) == pass.claims[s] = 0 /\ pass.wrote[s] = 0

\* What the type invariant leaves out.
Shape ==
    /\ flush \in [Pass -> Passes]
    /\ phase \in {"up", "exiting", "down"} /\ recovered \in BOOLEAN
    /\ rollup \in [User -> Nat]

\* A session is known by its number: what was not opened holds nothing.
KeysSound ==
    /\ \A s \in 1 .. opened : key[s] \in Key
    /\ \A s \in Session : s > opened =>
          pending[s] = 0 /\ handles[s] = 0 /\ \A p \in Pass : Free(flush[p], s)

\* Open reads are held by somebody, and are reads of live sessions.
ReadsSound ==
    \A s \in Session : reads[s] <= handles[s] /\ (reads[s] > 0 => s \in live)

\* A pass holds chunks and closing sessions only until it has written them,
\* the chunks of what it will write a row of; no session it closes lives, the
\* exit's own runs at the exit only, and none outlives the process.
PassesSound ==
    /\ \A p \in Pass :
          /\ \A s \in Session :
                flush[p].pc # "bandwidth" \/ s \notin flush[p].rows \cup flush[p].closing
                  => Free(flush[p], s)
          /\ flush[p].pc \notin {"bandwidth", "upsert"} => flush[p].closing = {} /\ flush[p].rows = {}
          /\ flush[p].closing \subseteq 1 .. opened
          /\ flush[p].closing \cap live = {}
    /\ phase # "exiting" => flush["exit"].pc = "idle"
    /\ phase = "down" => flush["task"].pc = "idle"

\* While the process is up, what a pass is about to write as active lives, or
\* has ended since and is still to be written.
RowsFollow ==
    phase = "up" => flush["task"].rows \subseteq live \cup finalised

\* What the registry has let go of holds chunks only that came after its end.
TailsSound ==
    phase # "exiting" =>
        \A s \in Session : s \in live \cup finalised \/ pending[s] <= tail[s]

IInv ==
    /\ TypeOK /\ Shape /\ KeysSound /\ ReadsSound /\ PassesSound /\ RowsFollow /\ TailsSound
    /\ RowsOwned /\ Balanced /\ LimitHeld

----------------------------------------------------------------------------
(* The constants and the sums *)

\* The constants are naturals, and sessions and users are finitely many.
LEMMA Bounds ==
    /\ MaxSessions \in Nat /\ MaxReads \in Nat /\ MaxBytes \in Nat /\ Limit \in Nat
    /\ MaxSessions > 0 /\ MaxReads > 0 /\ MaxBytes > 0 /\ Limit > 0
    /\ IsFiniteSet(User) /\ IsFiniteSet(Session)
<1>1. {MaxSessions, MaxReads, MaxBytes, Limit, Cap} \subseteq Nat \ {0} /\ IsFiniteSet(User)
  BY SessionAssumption
<1>2. 1 \in Int /\ MaxSessions \in Int
  BY <1>1
<1>3. IsFiniteSet(Session)
  BY <1>2, FS_Interval DEF Session
<1> QED BY <1>1, <1>3

\* A user's sessions, of a key function: before a step, or after it.
Watches(k, u) == {s \in Session : k[s][1] = u}

\* The module's sums are those of DataLemmas.
LEMMA SumsAreSums == \A f, S : SumOver(f, S) = SumOf(f, S)
BY DEF SumOver, SumOf

\* The balance of a user: rolled up, pending, in the hands of either pass.
Even(u, k, q, f, r, n, d) ==
    n[u] + d[u] = r[u] + SumOf(q, Watches(k, u))
                    + (SumOf(f["task"].claims, Watches(k, u)) + SumOf(f["exit"].claims, Watches(k, u)))

\* The sums of a balance are naturals.
LEMMA Naturals ==
    ASSUME NEW k, NEW u, NEW q \in [Session -> Nat], NEW f \in [Pass -> Passes]
    PROVE  /\ Watches(k, u) \subseteq Session /\ IsFiniteSet(Watches(k, u))
           /\ SumOf(q, Watches(k, u)) \in Nat
           /\ \A p \in Pass : SumOf(f[p].claims, Watches(k, u)) \in Nat
<1> DEFINE m == Watches(k, u)
<1>1. m \subseteq Session /\ IsFiniteSet(m)
  <2>1. m \subseteq Session
    BY DEF Watches
  <2> QED BY <2>1, Bounds, FS_Subset
<1> HIDE DEF m
<1>2. /\ \A x \in m : q[x] \in Nat
      /\ \A p \in Pass : \A x \in m : f[p].claims[x] \in Nat
  BY <1>1 DEF Passes
<1>3. SumOf(q, m) \in Nat /\ \A p \in Pass : SumOf(f[p].claims, m) \in Nat
  BY <1>1, <1>2, SumType
<1> QED BY <1>1, <1>3 DEF m

\* Balanced in the words used below, before and after a step.
LEMMA Balance ==
    /\ TypeOK /\ Shape =>
          (Balanced <=> \A u \in User : Even(u, key, pending, flush, rollup, served, twice))
    /\ TypeOK' /\ Shape' =>
          (Balanced' <=> \A u \in User : Even(u, key', pending', flush', rollup', served', twice'))
<1>1. ASSUME NEW k, NEW u, NEW q \in [Session -> Nat], NEW f \in [Pass -> Passes],
             NEW r \in [User -> Nat], NEW n \in [User -> Nat], NEW d \in [User -> Nat], u \in User
      PROVE  (r[u] + SumOver(q, Watches(k, u))
                + SumOver(f["task"].claims, Watches(k, u)) + SumOver(f["exit"].claims, Watches(k, u))
                  = n[u] + d[u])
               <=> Even(u, k, q, f, r, n, d)
  <2>1. "task" \in Pass /\ "exit" \in Pass
    BY DEF Pass
  <2>2. /\ SumOf(q, Watches(k, u)) \in Nat
        /\ SumOf(f["task"].claims, Watches(k, u)) \in Nat
        /\ SumOf(f["exit"].claims, Watches(k, u)) \in Nat
    BY <2>1, Naturals
  <2>3. \A g, S : SumOver(g, S) = SumOf(g, S)
    BY SumsAreSums
  <2>4. r[u] \in Nat /\ n[u] \in Nat /\ d[u] \in Nat
    BY <1>1
  <2> QED BY <2>2, <2>3, <2>4 DEF Even
<1>2. ASSUME TypeOK, Shape
      PROVE  Balanced <=> \A u \in User : Even(u, key, pending, flush, rollup, served, twice)
  <2>1. ASSUME NEW u \in User
        PROVE  (rollup[u] + SumOver(pending, Watches(key, u))
                  + SumOver(flush["task"].claims, Watches(key, u))
                  + SumOver(flush["exit"].claims, Watches(key, u)) = served[u] + twice[u])
                 <=> Even(u, key, pending, flush, rollup, served, twice)
    <3>1. /\ pending \in [Session -> Nat] /\ flush \in [Pass -> Passes]
          /\ rollup \in [User -> Nat] /\ served \in [User -> Nat] /\ twice \in [User -> Nat]
      BY <1>2 DEF TypeOK, Shape
    <3> QED BY <1>1, <3>1, Zenon
  <2> QED BY <2>1, Zenon DEF Balanced, Mine, Watches
<1>3. ASSUME TypeOK', Shape'
      PROVE  Balanced' <=> \A u \in User : Even(u, key', pending', flush', rollup', served', twice')
  <2>1. ASSUME NEW u \in User
        PROVE  (rollup'[u] + SumOver(pending', Watches(key', u))
                  + SumOver(flush'["task"].claims, Watches(key', u))
                  + SumOver(flush'["exit"].claims, Watches(key', u)) = served'[u] + twice'[u])
                 <=> Even(u, key', pending', flush', rollup', served', twice')
    <3>1. /\ pending' \in [Session -> Nat] /\ flush' \in [Pass -> Passes]
          /\ rollup' \in [User -> Nat] /\ served' \in [User -> Nat] /\ twice' \in [User -> Nat]
      BY <1>3 DEF TypeOK, Shape
    <3> QED BY <1>1, <3>1, Zenon
  <2> QED BY <2>1, Zenon DEF Balanced, Mine, Watches
<1> QED BY <1>2, <1>3

\* What the invariant says of a user's chunks.
LEMMA UserEven ==
    ASSUME IInv, NEW u \in User
    PROVE  /\ Even(u, key, pending, flush, rollup, served, twice)
           /\ Watches(key, u) \subseteq Session /\ IsFiniteSet(Watches(key, u))
           /\ SumOf(pending, Watches(key, u)) \in Nat
           /\ \A p \in Pass : SumOf(flush[p].claims, Watches(key, u)) \in Nat
           /\ rollup[u] \in Nat /\ served[u] \in Nat /\ twice[u] \in Nat
<1>1. TypeOK /\ Shape /\ Balanced
  BY DEF IInv
<1>2. /\ pending \in [Session -> Nat] /\ flush \in [Pass -> Passes]
      /\ rollup[u] \in Nat /\ served[u] \in Nat /\ twice[u] \in Nat
  BY <1>1 DEF TypeOK, Shape
<1> QED BY <1>1, <1>2, Balance, Naturals

\* The balance stands while no chunk and no claim moves.
LEMMA NothingMoves ==
    ASSUME IInv, TypeOK', Shape', UNCHANGED <<key, pending, served, twice, rollup>>,
           \A q \in Pass : \A s \in Session : flush'[q].claims[s] = flush[q].claims[s]
    PROVE  Balanced'
<1> SUFFICES ASSUME NEW u \in User
             PROVE  Even(u, key', pending', flush', rollup', served', twice')
  BY Balance
<1> DEFINE m == Watches(key, u)
<1>1. Even(u, key, pending, flush, rollup, served, twice) /\ m \subseteq Session /\ IsFiniteSet(m)
  BY UserEven
<1> HIDE DEF m
<1>2. ASSUME NEW q \in Pass
      PROVE  SumOf(flush'[q].claims, m) = SumOf(flush[q].claims, m)
  <2>1. \A x \in m : flush'[q].claims[x] = flush[q].claims[x]
    BY <1>1
  <2> QED BY <1>1, <2>1, SumSame
<1>3. "task" \in Pass /\ "exit" \in Pass
  BY DEF Pass
<1>4. /\ SumOf(flush'["task"].claims, m) = SumOf(flush["task"].claims, m)
      /\ SumOf(flush'["exit"].claims, m) = SumOf(flush["exit"].claims, m)
  BY <1>2, <1>3
<1> QED BY <1>1, <1>4, Zenon DEF Even, m

----------------------------------------------------------------------------
(* The connection limit *)

\* A step keeps the limit that adds no read it is held against, or one within it.
LEMMA LimitKept ==
    ASSUME IInv,
           \A u \in Identified :
              \/ (Serving(u) \ exempt)' \subseteq Serving(u) \ exempt
              \/ /\ Cardinality(Serving(u)) < Limit
                 /\ \E x : (Serving(u) \ exempt)' \subseteq Serving(u) \cup {x}
    PROVE  LimitHeld'
<1> SUFFICES ASSUME NEW u \in Identified PROVE Cardinality((Serving(u) \ exempt)') <= Limit
  BY DEF LimitHeld
<1> DEFINE S == Serving(u)
           T == (Serving(u) \ exempt)'
<1>1. S \subseteq Session /\ IsFiniteSet(S)
  <2>1. S \subseteq Session
    <3>1. live \subseteq 1 .. opened /\ opened \in 0 .. MaxSessions
      BY DEF IInv, TypeOK
    <3>2. 1 .. opened \subseteq Session
      BY <3>1, Bounds DEF Session
    <3>3. Serving(u) \subseteq live
      BY DEF Serving, Of
    <3> QED BY <3>1, <3>2, <3>3
  <2> QED BY <2>1, Bounds, FS_Subset
<1>2. IsFiniteSet(S \ exempt) /\ Cardinality(S \ exempt) <= Limit
  BY <1>1, FS_Subset DEF IInv, LimitHeld
<1>3. CASE T \subseteq S \ exempt
  <2> HIDE DEF T, S
  <2>1. Cardinality(T) <= Cardinality(S \ exempt) /\ Cardinality(T) \in Nat /\ Cardinality(S \ exempt) \in Nat
    BY <1>2, <1>3, FS_Subset, FS_CardinalityType
  <2>2. Cardinality(T) <= Limit
    BY <1>2, <2>1, Bounds
  <2> QED BY <2>2 DEF T
<1>4. CASE Cardinality(S) < Limit /\ \E x : T \subseteq S \cup {x}
  <2> HIDE DEF T, S
  <2>1. PICK x : T \subseteq S \cup {x}
    BY <1>4
  <2>2. IsFiniteSet(S \cup {x}) /\ Cardinality(S \cup {x}) <= Cardinality(S) + 1
    <3>1. /\ IsFiniteSet(S \cup {x})
          /\ Cardinality(S \cup {x}) = IF x \in S THEN Cardinality(S) ELSE Cardinality(S) + 1
      BY <1>1, FS_AddElement
    <3>2. Cardinality(S) \in Nat
      BY <1>1, FS_CardinalityType
    <3> QED BY <3>1, <3>2
  <2>3. Cardinality(T) <= Cardinality(S \cup {x}) /\ Cardinality(T) \in Nat /\ Cardinality(S \cup {x}) \in Nat
        /\ Cardinality(S) \in Nat
    BY <1>1, <2>1, <2>2, FS_Subset, FS_CardinalityType
  <2>4. Cardinality(T) <= Limit
    BY <1>4, <2>2, <2>3, Bounds
  <2> QED BY <2>4 DEF T
<1> QED BY <1>3, <1>4 DEF T

\* In particular one after which no session serves that did not before.
LEMMA LimitShrinks ==
    ASSUME IInv, key' = key,
           \A s \in live' : reads'[s] > 0 /\ s \notin exempt' => s \in live /\ reads[s] > 0 /\ s \notin exempt
    PROVE  LimitHeld'
<1>1. \A u \in Identified : (Serving(u) \ exempt)' \subseteq Serving(u) \ exempt
  BY DEF Serving, Of
<1> QED BY <1>1, LimitKept

----------------------------------------------------------------------------
(* The registry *)

\* Sessions are numbers up to `opened`.
LEMMA Numbers ==
    ASSUME IInv
    PROVE  /\ opened \in Nat /\ 1 .. opened \subseteq Session
           /\ \A s \in Session : s \in Nat /\ (s \in 1 .. opened <=> s <= opened)
           /\ \A s \in live \cup finalised : s \in Session /\ s <= opened /\ key[s] \in Key
<1>1. opened \in 0 .. MaxSessions /\ MaxSessions \in Nat
  BY Bounds DEF IInv, TypeOK
<1>2. opened \in Nat /\ 1 .. opened \subseteq Session
  BY <1>1 DEF Session
<1>3. \A s \in Session : s \in Nat /\ (s \in 1 .. opened <=> s <= opened)
  BY <1>1, <1>2 DEF Session
<1>4. \A s \in live \cup finalised : s \in 1 .. opened
  BY DEF IInv, TypeOK
<1>5. \A s \in 1 .. opened : key[s] \in Key
  BY DEF IInv, KeysSound
<1> QED BY <1>2, <1>3, <1>4, <1>5

\* What a change of the registry has to keep.
RegistryKept ==
    /\ live' \subseteq live /\ live' \cup finalised' = live \cup finalised
    /\ live' \cap finalised' = {} /\ exempt' \subseteq live' /\ quiet' \subseteq live'
    /\ reads' \in [Session -> 0 .. MaxReads] /\ handles' \in [Session -> 0 .. MaxReads]
    /\ ReadsSound' /\ LimitHeld'
    /\ \A s \in Session : s > opened => handles'[s] = 0
    /\ UNCHANGED <<opened, key>>

\* A registry that changes like this, and nothing but it, keeps the invariant.
LEMMA RegistryStep ==
    ASSUME IInv, RegistryKept, UNCHANGED <<bytes, row, stop, flush, phase, recovered>>
    PROVE  IInv'
<1> USE DEF RegistryKept
<1>0. UNCHANGED <<pending, served, twice, tail, rollup>>
  BY DEF bytes
<1>1. TypeOK' /\ Shape'
  BY <1>0 DEF IInv, TypeOK, Shape
<1>2. KeysSound'
  BY <1>0 DEF IInv, KeysSound
<1>3. PassesSound'
  BY DEF IInv, PassesSound
<1>4. RowsFollow' /\ TailsSound'
  BY <1>0 DEF IInv, RowsFollow, TailsSound
<1>5. RowsOwned'
  BY DEF IInv, RowsOwned, Owned
<1>6. Balanced'
  BY <1>0, <1>1, NothingMoves
<1> QED BY <1>1, <1>2, <1>3, <1>4, <1>5, <1>6 DEF IInv

\* Sessions that end hold no read and are still to be written.
LEMMA FinaliseKeeps ==
    ASSUME IInv, NEW S \in SUBSET Session, Finalise(S)
    PROVE  RegistryKept
<1> USE DEF Finalise
<1>1. /\ live' \subseteq live /\ live' \cup finalised' = live \cup finalised
      /\ live' \cap finalised' = {} /\ exempt' \subseteq live' /\ quiet' \subseteq live'
  BY DEF IInv, TypeOK
<1>2. 0 \in 0 .. MaxReads
  BY Bounds
<1>3. /\ reads \in [Session -> 0 .. MaxReads] /\ handles \in [Session -> 0 .. MaxReads]
      /\ reads' \in [Session -> 0 .. MaxReads]
  BY <1>2 DEF IInv, TypeOK
<1>4. ReadsSound'
  <2> SUFFICES ASSUME NEW s \in Session
               PROVE  reads'[s] <= handles'[s] /\ (reads'[s] > 0 => s \in live')
    BY DEF ReadsSound
  <2>1. reads[s] <= handles[s] /\ (reads[s] > 0 => s \in live) /\ reads[s] \in Nat /\ handles[s] \in Nat
    BY <1>3, Bounds DEF IInv, ReadsSound
  <2>2. reads'[s] = IF s \in S THEN 0 ELSE reads[s]
    OBVIOUS
  <2> QED BY <2>1, <2>2
<1>5. LimitHeld'
  <2>1. ASSUME NEW s \in live', reads'[s] > 0, s \notin exempt'
        PROVE  s \in live /\ reads[s] > 0 /\ s \notin exempt
    <3>1. s \in live /\ s \notin S /\ s \in Session
      BY Numbers
    <3> QED BY <2>1, <3>1
  <2> QED BY <2>1, LimitShrinks
<1>6. \A s \in Session : s > opened => handles'[s] = 0
  BY DEF IInv, KeysSound
<1> QED BY <1>1, <1>3, <1>4, <1>5, <1>6 DEF RegistryKept

\* A read more of a session that lives.
LEMMA AddReadKeeps ==
    ASSUME IInv, NEW s \in Session, s \in live, AddRead(s), UNCHANGED <<opened, key, live, finalised>>,
           exempt' \subseteq live, LimitHeld'
    PROVE  RegistryKept
<1>1. /\ reads \in [Session -> 0 .. MaxReads] /\ handles \in [Session -> 0 .. MaxReads]
      /\ MaxReads \in Nat /\ handles[s] < MaxReads
      /\ reads[s] <= handles[s]
  BY Bounds DEF IInv, TypeOK, AddRead, ReadsSound
<1>2. reads[s] \in 0 .. MaxReads /\ handles[s] \in 0 .. MaxReads
  BY <1>1
<1>3. reads[s] + 1 \in 0 .. MaxReads /\ handles[s] + 1 \in 0 .. MaxReads
  BY <1>1, <1>2
<1>4. /\ reads' = [reads EXCEPT ![s] = reads[s] + 1]
      /\ handles' = [handles EXCEPT ![s] = handles[s] + 1]
      /\ quiet' = quiet \ {s}
  BY DEF AddRead
<1>5. reads' \in [Session -> 0 .. MaxReads] /\ handles' \in [Session -> 0 .. MaxReads]
  BY <1>1, <1>3, <1>4
<1>6. ReadsSound'
  <2> SUFFICES ASSUME NEW x \in Session
               PROVE  reads'[x] <= handles'[x] /\ (reads'[x] > 0 => x \in live')
    BY DEF ReadsSound
  <2>1. CASE x = s
    BY <1>1, <1>2, <1>4, <2>1
  <2>2. CASE x # s
    BY <1>1, <1>4, <2>2 DEF IInv, ReadsSound
  <2> QED BY <2>1, <2>2
<1>7. \A x \in Session : x > opened => handles'[x] = 0
  <2>1. s <= opened /\ opened \in Nat /\ s \in Nat
    BY Numbers
  <2>2. \A x \in Session : x > opened => x # s /\ handles[x] = 0
    <3>1. ~(s > opened)
      BY <2>1
    <3>2. \A x \in Session : x > opened => handles[x] = 0
      BY DEF IInv, KeysSound
    <3> QED BY <3>1, <3>2
  <2> QED BY <1>1, <1>4, <2>2
<1>8. live' \cap finalised' = {} /\ quiet' \subseteq live'
  BY <1>4 DEF IInv, TypeOK
<1> QED BY <1>5, <1>6, <1>7, <1>8 DEF RegistryKept

\* open, of a key that has a session.
LEMMA JoinStep ==
    ASSUME IInv, NEW s \in Session, NEW share \in BOOLEAN, Join(s, share)
    PROVE  IInv'
<1>1. UNCHANGED <<bytes, row, stop, flush, phase, recovered>>
  BY DEF Join, process
<1>2. CASE Resuming(s) /\ ~Admits(key[s][1], share)
  <2>1. Finalise({s})
    BY <1>2 DEF Join
  <2> QED BY <1>1, <2>1, FinaliseKeeps, RegistryStep
<1>3. CASE ~(Resuming(s) /\ ~Admits(key[s][1], share))
  <2>1. /\ s \in live /\ AddRead(s) /\ UNCHANGED <<opened, key, live, finalised>>
        /\ exempt' = IF reads[s] > 0 THEN exempt
                     ELSE IF Resuming(s) /\ ~share THEN exempt \ {s} ELSE exempt \cup {s}
    BY <1>3 DEF Join
  <2>2. exempt' \subseteq live
    BY <2>1 DEF IInv, TypeOK
  <2>3. \A x \in Session : x # s => reads'[x] = reads[x]
    BY <2>1 DEF AddRead, IInv, TypeOK
  <2>4. live \subseteq Session
    BY Numbers
  <2>5. LimitHeld'
    <3>1. CASE reads[s] > 0
      <4>1. \A x \in live' : reads'[x] > 0 /\ x \notin exempt' => x \in live /\ reads[x] > 0 /\ x \notin exempt
        BY <2>1, <2>3, <2>4, <3>1
      <4> QED BY <2>1, <4>1, LimitShrinks
    <3>2. CASE ~(reads[s] > 0) /\ ~(Resuming(s) /\ ~share)
      <4>1. \A x \in live' : reads'[x] > 0 /\ x \notin exempt' => x \in live /\ reads[x] > 0 /\ x \notin exempt
        BY <2>1, <2>3, <2>4, <3>2
      <4> QED BY <2>1, <4>1, LimitShrinks
    <3>3. CASE ~(reads[s] > 0) /\ Resuming(s) /\ ~share
      <4>1. Admits(key[s][1], share) /\ exempt' = exempt \ {s}
        BY <1>3, <2>1, <3>3
      <4> SUFFICES ASSUME NEW u \in Identified
                   PROVE  \/ (Serving(u) \ exempt)' \subseteq Serving(u) \ exempt
                          \/ /\ Cardinality(Serving(u)) < Limit
                             /\ \E x : (Serving(u) \ exempt)' \subseteq Serving(u) \cup {x}
        BY LimitKept
      <4>2. CASE u = key[s][1]
        <5>1. Cardinality(Serving(u)) < Limit
          BY <3>3, <4>1, <4>2 DEF Admits, BelowLimit
        <5>2. (Serving(u) \ exempt)' \subseteq Serving(u) \cup {s}
          BY <2>1, <2>3, <2>4 DEF Serving, Of
        <5> QED BY <5>1, <5>2
      <4>3. CASE u # key[s][1]
        BY <2>1, <2>3, <2>4, <4>1, <4>3 DEF Serving, Of
      <4> QED BY <4>2, <4>3
    <3> QED BY <3>1, <3>2, <3>3
  <2> QED BY <1>1, <2>1, <2>2, <2>5, AddReadKeeps, RegistryStep
<1> QED BY <1>2, <1>3

\* close.
LEMMA CloseStep ==
    ASSUME IInv, NEW s \in Session, Close(s)
    PROVE  IInv'
<1>1. /\ reads \in [Session -> 0 .. MaxReads] /\ handles \in [Session -> 0 .. MaxReads]
      /\ MaxReads \in Nat /\ reads[s] > 0 /\ reads[s] <= handles[s]
  BY Bounds DEF IInv, TypeOK, ReadsSound, Close
<1>2. reads[s] \in 0 .. MaxReads /\ handles[s] \in 0 .. MaxReads
  BY <1>1
<1>3. reads[s] - 1 \in 0 .. MaxReads /\ handles[s] - 1 \in 0 .. MaxReads
  BY <1>1, <1>2
<1>4. /\ reads' = [reads EXCEPT ![s] = reads[s] - 1]
      /\ handles' = [handles EXCEPT ![s] = handles[s] - 1]
      /\ exempt' = IF reads'[s] = 0 THEN exempt \ {s} ELSE exempt
      /\ quiet' = quiet \ {s}
      /\ UNCHANGED <<opened, key, live, finalised>>
  BY DEF Close
<1>5. reads' \in [Session -> 0 .. MaxReads] /\ handles' \in [Session -> 0 .. MaxReads]
  BY <1>1, <1>3, <1>4
<1>6. ReadsSound'
  <2> SUFFICES ASSUME NEW x \in Session
               PROVE  reads'[x] <= handles'[x] /\ (reads'[x] > 0 => x \in live')
    BY DEF ReadsSound
  <2>1. CASE x = s
    BY <1>1, <1>2, <1>4, <2>1 DEF IInv, ReadsSound
  <2>2. CASE x # s
    BY <1>1, <1>4, <2>2 DEF IInv, ReadsSound
  <2> QED BY <2>1, <2>2
<1>7. \A x \in Session : x > opened => handles'[x] = 0
  <2>1. \A x \in Session : x > opened => handles[x] = 0
    BY DEF IInv, KeysSound
  <2>2. handles[s] > 0
    BY <1>1, <1>2
  <2> QED BY <1>1, <1>4, <2>1, <2>2
<1>8. /\ live' \cap finalised' = {} /\ quiet' \subseteq live' /\ exempt' \subseteq live'
      /\ live \subseteq Session
  BY <1>4, Numbers DEF IInv, TypeOK
<1>9. LimitHeld'
  <2>1. ASSUME NEW x \in live', reads'[x] > 0, x \notin exempt'
        PROVE  x \in live /\ reads[x] > 0 /\ x \notin exempt
    <3>1. CASE x = s
      BY <1>1, <1>4, <2>1, <3>1
    <3>2. CASE x # s
      BY <1>1, <1>4, <1>8, <2>1, <3>2
    <3> QED BY <3>1, <3>2
  <2> QED BY <1>4, <2>1, LimitShrinks
<1>10. UNCHANGED <<bytes, row, stop, flush, phase, recovered>>
  BY DEF Close, process
<1>11. RegistryKept
  BY <1>4, <1>5, <1>6, <1>7, <1>8, <1>9 DEF RegistryKept
<1> QED BY <1>10, <1>11, RegistryStep

\* A session that falls quiet.
LEMMA SilenceStep ==
    ASSUME IInv, NEW s \in Session, Silence(s)
    PROVE  IInv'
<1> USE DEF Silence
<1>1. UNCHANGED <<bytes, row, stop, flush, phase, recovered>>
  BY DEF process
<1>2. LimitHeld'
  BY LimitShrinks
<1>3. RegistryKept
  BY <1>2 DEF RegistryKept, IInv, TypeOK, ReadsSound, KeysSound
<1> QED BY <1>1, <1>3, RegistryStep

\* kill: the session ends.
LEMMA KillStep ==
    ASSUME IInv, NEW s \in Session, Kill(s)
    PROVE  IInv'
<1>1. UNCHANGED <<bytes, row, stop, flush, phase, recovered>> /\ Finalise({s})
  BY DEF Kill, process
<1> QED BY <1>1, FinaliseKeeps, RegistryStep

\* open, of a key that has none: a new session, within the limit.
LEMMA OpenStep ==
    ASSUME IInv, NEW k \in Key, NEW share \in BOOLEAN, Open(k, share)
    PROVE  IInv'
<1> DEFINE n == opened + 1
<1>1. /\ opened' = n /\ key' = [key EXCEPT ![n] = k] /\ live' = live \cup {n}
      /\ opened < MaxSessions /\ Admits(k[1], share) /\ handles[n] < MaxReads
      /\ exempt' = IF share THEN exempt \cup {n} ELSE exempt
      /\ reads' = [reads EXCEPT ![n] = reads[n] + 1]
      /\ handles' = [handles EXCEPT ![n] = handles[n] + 1]
      /\ quiet' = quiet \ {n}
      /\ UNCHANGED <<finalised, row, stop, flush, phase, recovered>>
      /\ UNCHANGED <<pending, served, twice, tail, rollup>>
  BY DEF Open, AddRead, process, bytes
<1>2. opened \in Nat /\ n \in Nat /\ n \in Session /\ n > opened /\ MaxSessions \in Nat
  <2>1. opened \in Nat /\ MaxSessions \in Nat
    BY Numbers, Bounds
  <2> QED BY <1>1, <2>1 DEF Session
<1>3. n \notin live /\ n \notin finalised /\ live \subseteq 1 .. opened /\ finalised \subseteq 1 .. opened
      /\ live \cap finalised = {}
  <2>1. live \subseteq 1 .. opened /\ finalised \subseteq 1 .. opened /\ live \cap finalised = {}
    BY DEF IInv, TypeOK
  <2>2. n \notin 1 .. opened
    BY <1>2
  <2> QED BY <2>1, <2>2
<1>4. 1 .. opened' = (1 .. opened) \cup {n} /\ opened' \in 0 .. MaxSessions
  BY <1>1, <1>2
<1>5. handles[n] = 0 /\ reads[n] = 0 /\ pending[n] = 0 /\ \A p \in Pass : flush[p].claims[n] = 0
  <2>1. handles[n] = 0 /\ pending[n] = 0 /\ \A p \in Pass : flush[p].claims[n] = 0
    BY <1>2 DEF IInv, KeysSound, Free
  <2>2. reads[n] <= handles[n] /\ reads[n] \in 0 .. MaxReads
    BY <1>2 DEF IInv, ReadsSound, TypeOK
  <2> QED BY <2>1, <2>2, Bounds
<1>6. /\ reads \in [Session -> 0 .. MaxReads] /\ handles \in [Session -> 0 .. MaxReads]
      /\ key \in [Session -> Key \cup {None}] /\ 1 \in 0 .. MaxReads
  BY Bounds DEF IInv, TypeOK
<1> HIDE DEF n
<1>7. /\ reads'[n] = 1 /\ handles'[n] = 1 /\ key'[n] = k
      /\ \A x \in Session : x # n => reads'[x] = reads[x] /\ handles'[x] = handles[x] /\ key'[x] = key[x]
      /\ reads' \in [Session -> 0 .. MaxReads] /\ handles' \in [Session -> 0 .. MaxReads]
      /\ key' \in [Session -> Key \cup {None}]
  BY <1>1, <1>2, <1>5, <1>6
<1>8. TypeOK' /\ Shape'
  <2>1. live' \subseteq 1 .. opened' /\ finalised' \subseteq 1 .. opened' /\ live' \cap finalised' = {}
    BY <1>1, <1>3, <1>4
  <2>2. exempt' \subseteq live' /\ quiet' \subseteq live'
    BY <1>1 DEF IInv, TypeOK
  <2>3. /\ pending' \in [Session -> Nat] /\ tail' \in [Session -> Nat]
        /\ served' \in [User -> Nat] /\ twice' \in [User -> Nat]
        /\ row' \in [Session -> {"none", "active", "ended"}] /\ stop' \subseteq Session
    BY <1>1 DEF IInv, TypeOK
  <2>4. Shape'
    BY <1>1 DEF IInv, Shape
  <2> QED BY <1>4, <1>7, <2>1, <2>2, <2>3, <2>4 DEF TypeOK
<1>9. KeysSound'
  <2>1. \A x \in 1 .. opened : x \in Session /\ x # n
    BY <1>2, Numbers
  <2>2. \A x \in 1 .. opened' : key'[x] \in Key
    BY <1>4, <1>7, <2>1 DEF IInv, KeysSound
  <2>3. \A x \in Session : x > opened' => x > opened /\ x # n
    BY <1>1, <1>2, Numbers DEF n
  <2>4. \A x \in Session : x > opened' =>
            pending'[x] = 0 /\ handles'[x] = 0 /\ \A p \in Pass : Free(flush'[p], x)
    BY <1>1, <1>7, <2>3 DEF IInv, KeysSound
  <2> QED BY <2>2, <2>4 DEF KeysSound
<1>10. ReadsSound'
  <2> SUFFICES ASSUME NEW x \in Session
               PROVE  reads'[x] <= handles'[x] /\ (reads'[x] > 0 => x \in live')
    BY DEF ReadsSound
  <2>1. CASE x = n
    BY <1>1, <1>7, <2>1
  <2>2. CASE x # n
    BY <1>1, <1>7, <2>2 DEF IInv, ReadsSound
  <2> QED BY <2>1, <2>2
<1>11. PassesSound'
  <2>1. n \notin 1 .. opened
    BY <1>2
  <2> QED BY <1>1, <1>4, <2>1 DEF IInv, PassesSound
<1>12. RowsFollow' /\ TailsSound' /\ RowsOwned'
  BY <1>1 DEF IInv, RowsFollow, TailsSound, RowsOwned, Owned
<1>13. Balanced'
  <2> SUFFICES ASSUME NEW u \in User
               PROVE  Even(u, key', pending', flush', rollup', served', twice')
    BY <1>8, Balance
  <2>1. /\ Even(u, key, pending, flush, rollup, served, twice)
        /\ Watches(key, u) \subseteq Session /\ IsFiniteSet(Watches(key, u))
    BY UserEven
  <2>2. Watches(key', u) \ {n} = Watches(key, u) \ {n}
    BY <1>7 DEF Watches
  <2>3. ASSUME NEW q \in [Session -> Nat], q[n] = 0
        PROVE  SumOf(q, Watches(key', u)) = SumOf(q, Watches(key, u))
    <3>1. \A y \in Watches(key, u) : q[y] \in Nat
      BY <2>1
    <3> QED BY <2>1, <2>2, <2>3, <3>1, SumIdle
  <2>4. "task" \in Pass /\ "exit" \in Pass
    BY DEF Pass
  <2>5. pending \in [Session -> Nat] /\ flush["task"].claims \in [Session -> Nat]
        /\ flush["exit"].claims \in [Session -> Nat]
    BY <2>4 DEF IInv, TypeOK, Shape, Passes
  <2>6. /\ SumOf(pending, Watches(key', u)) = SumOf(pending, Watches(key, u))
        /\ SumOf(flush["task"].claims, Watches(key', u)) = SumOf(flush["task"].claims, Watches(key, u))
        /\ SumOf(flush["exit"].claims, Watches(key', u)) = SumOf(flush["exit"].claims, Watches(key, u))
    BY <1>5, <2>3, <2>4, <2>5
  <2> QED BY <1>1, <2>1, <2>6, Zenon DEF Even
<1>14. LimitHeld'
  <2>1. \A x \in live : x \in Session /\ x # n
    BY <1>3, Numbers
  <2>2. CASE share
    <3>1. \A u \in Identified : (Serving(u) \ exempt)' \subseteq Serving(u) \ exempt
      BY <1>1, <1>7, <2>1, <2>2 DEF Serving, Of
    <3> QED BY <3>1, LimitKept
  <2>3. CASE ~share
    <3> SUFFICES ASSUME NEW u \in Identified
                 PROVE  \/ (Serving(u) \ exempt)' \subseteq Serving(u) \ exempt
                        \/ /\ Cardinality(Serving(u)) < Limit
                           /\ \E x : (Serving(u) \ exempt)' \subseteq Serving(u) \cup {x}
      BY LimitKept
    <3>1. CASE u = k[1]
      <4>1. Cardinality(Serving(u)) < Limit
        BY <1>1, <2>3, <3>1 DEF Admits, BelowLimit
      <4>2. (Serving(u) \ exempt)' \subseteq Serving(u) \cup {n}
        BY <1>1, <1>7, <2>1 DEF Serving, Of
      <4> QED BY <4>1, <4>2
    <3>2. CASE u # k[1]
      BY <1>1, <1>7, <2>1, <2>3, <3>2 DEF Serving, Of
    <3> QED BY <3>1, <3>2
  <2> QED BY <2>2, <2>3
<1> QED BY <1>8, <1>9, <1>10, <1>11, <1>12, <1>13, <1>14 DEF IInv

\* addBytes: one chunk more, served and pending, whether the session lives or not.
LEMMA AddBytesStep ==
    ASSUME IInv, NEW s \in Session, AddBytes(s)
    PROVE  IInv'
<1> DEFINE v == key[s][1]
<1>1. /\ handles[s] > 0
      /\ pending' = [pending EXCEPT ![s] = pending[s] + 1]
      /\ served' = [served EXCEPT ![v] = served[v] + 1]
      /\ tail' = IF s \in live THEN tail ELSE [tail EXCEPT ![s] = tail[s] + 1]
      /\ quiet' = quiet \ {s}
      /\ UNCHANGED <<opened, key, live, finalised, reads, handles, exempt, twice, rollup, row, stop,
                     flush, phase, recovered>>
  BY DEF AddBytes, process
<1>2. s <= opened /\ key[s] \in Key /\ v \in User
  <2>1. ~(s > opened)
    BY <1>1, Bounds DEF IInv, KeysSound, TypeOK
  <2>2. s \in 1 .. opened
    BY <2>1, Numbers
  <2>3. key[s] \in Key
    BY <2>2 DEF IInv, KeysSound
  <2> QED BY <2>2, <2>3, Numbers DEF Key
<1>3. pending \in [Session -> Nat] /\ served \in [User -> Nat] /\ tail \in [Session -> Nat]
  BY DEF IInv, TypeOK
<1> HIDE DEF v
<1>4. /\ pending' \in [Session -> Nat] /\ served' \in [User -> Nat] /\ tail' \in [Session -> Nat]
      /\ pending'[s] = pending[s] + 1 /\ served'[v] = served[v] + 1
      /\ \A x \in Session : x # s => pending'[x] = pending[x] /\ tail'[x] = tail[x]
      /\ \A u \in User : u # v => served'[u] = served[u]
  BY <1>1, <1>2, <1>3
<1>5. TypeOK' /\ Shape'
  BY <1>1, <1>4 DEF IInv, TypeOK, Shape
<1>6. KeysSound'
  <2>1. \A x \in Session : x > opened => x # s
    BY <1>2, Numbers
  <2> QED BY <1>1, <1>4, <2>1 DEF IInv, KeysSound
<1>7. ReadsSound' /\ PassesSound' /\ RowsFollow' /\ RowsOwned'
  BY <1>1 DEF IInv, ReadsSound, PassesSound, RowsFollow, RowsOwned, Owned
<1>8. TailsSound'
  <2> SUFFICES ASSUME phase # "exiting", NEW x \in Session, x \notin live \cup finalised
               PROVE  pending'[x] <= tail'[x]
    BY <1>1 DEF TailsSound
  <2>1. pending[x] <= tail[x] /\ pending[x] \in Nat /\ tail[x] \in Nat
    BY <1>3 DEF IInv, TailsSound
  <2>2. CASE x # s
    BY <1>4, <2>1, <2>2
  <2>3. CASE x = s
    <3>1. tail'[x] = tail[x] + 1
      BY <1>1, <1>3, <2>3
    <3> QED BY <1>4, <2>1, <2>3, <3>1
  <2> QED BY <2>2, <2>3
<1>9. LimitHeld'
  BY <1>1, LimitShrinks
<1>10. Balanced'
  <2> SUFFICES ASSUME NEW u \in User
               PROVE  Even(u, key', pending', flush', rollup', served', twice')
    BY <1>5, Balance
  <2> DEFINE m == Watches(key, u)
  <2>1. /\ Even(u, key, pending, flush, rollup, served, twice)
        /\ m \subseteq Session /\ IsFiniteSet(m) /\ (s \in m <=> u = v)
        /\ SumOf(pending, m) \in Nat
        /\ \A p \in Pass : SumOf(flush[p].claims, m) \in Nat
        /\ rollup[u] \in Nat /\ served[u] \in Nat /\ twice[u] \in Nat
    BY UserEven DEF Watches, v
  <2>2. SumOf(flush["task"].claims, m) \in Nat /\ SumOf(flush["exit"].claims, m) \in Nat
    BY <2>1 DEF Pass
  <2> HIDE DEF m
  <2>3. \A x \in m : pending[x] \in Nat
    BY <1>3, <2>1
  <2>4. CASE u = v
    <3>1. SumOf(pending', m) = SumOf(pending, m) + 1
      <4>1. pending'[s] = pending[s] + 1 /\ \A y \in m \ {s} : pending'[y] = pending[y]
        BY <1>4, <2>1
      <4> QED BY <2>1, <2>3, <2>4, <4>1, SumOneMore
    <3> QED BY <1>1, <1>4, <2>1, <2>2, <2>4, <3>1 DEF Even, m
  <2>5. CASE u # v
    <3>1. SumOf(pending', m) = SumOf(pending, m)
      <4>1. \A y \in m : pending[y] = pending'[y]
        BY <1>4, <2>1, <2>5
      <4> QED BY <2>1, <4>1, SumSame
    <3>2. served'[u] = served[u]
      BY <1>4, <2>5
    <3> QED BY <1>1, <2>1, <3>1, <3>2, Zenon DEF Even, m
  <2> QED BY <2>4, <2>5
<1> QED BY <1>5, <1>6, <1>7, <1>8, <1>9, <1>10 DEF IInv

----------------------------------------------------------------------------
(* The rows *)

\* A step that only closes rows or asks for stops.
LEMMA RowStep ==
    ASSUME IInv, UNCHANGED <<registry, bytes, flush, phase, recovered>>,
           row' \in [Session -> {"none", "active", "ended"}], stop' \subseteq Session,
           \A s \in Session : row'[s] = "active" => row[s] = "active"
    PROVE  IInv'
<1>1. /\ UNCHANGED <<opened, key, live, finalised, reads, handles, quiet, exempt>>
      /\ UNCHANGED <<pending, served, twice, tail, rollup, flush, phase, recovered>>
  BY DEF registry, bytes
<1>2. TypeOK' /\ Shape'
  BY <1>1 DEF IInv, TypeOK, Shape
<1>3. KeysSound' /\ ReadsSound' /\ PassesSound' /\ RowsFollow' /\ TailsSound'
  BY <1>1 DEF IInv, KeysSound, ReadsSound, PassesSound, RowsFollow, TailsSound
<1>4. RowsOwned'
  BY <1>1 DEF IInv, RowsOwned, Owned
<1>5. Balanced'
  BY <1>1, <1>2, NothingMoves
<1>6. LimitHeld'
  BY <1>1, LimitShrinks
<1> QED BY <1>2, <1>3, <1>4, <1>5, <1>6 DEF IInv

\* stopStream for a row of another replica.
LEMMA RequestStopStep ==
    ASSUME IInv, NEW s \in Session, RequestStop(s)
    PROVE  IInv'
<1>1. UNCHANGED <<registry, bytes, flush, phase, recovered, row>> /\ stop' = stop \cup {s}
  BY DEF RequestStop, process
<1>2. row \in [Session -> {"none", "active", "ended"}] /\ stop' \subseteq Session
  BY <1>1 DEF IInv, TypeOK
<1> QED BY <1>1, <1>2, RowStep

\* stopStream of a row whose replica has fallen silent.
LEMMA EndSilentStep ==
    ASSUME IInv, NEW s \in Session, EndSilent(s)
    PROVE  IInv'
<1>1. UNCHANGED <<registry, bytes, flush, phase, recovered, stop>> /\ row' = [row EXCEPT ![s] = "ended"]
  BY DEF EndSilent, process
<1>2. row \in [Session -> {"none", "active", "ended"}] /\ stop' \subseteq Session
  BY <1>1 DEF IInv, TypeOK
<1>3. /\ row' \in [Session -> {"none", "active", "ended"}]
      /\ \A x \in Session : row'[x] = "active" => row[x] = "active"
  BY <1>1, <1>2
<1> QED BY <1>1, <1>2, <1>3, RowStep

----------------------------------------------------------------------------
(* The process *)

\* The idle pass holds nothing.
LEMMA IdlePass ==
    /\ Nothing \in [Session -> Nat] /\ \A s \in Session : Nothing[s] = 0
    /\ NoFlush \in Passes /\ NoFlush.pc = "idle" /\ NoFlush.rows = {} /\ NoFlush.closing = {}
    /\ NoFlush.claims = Nothing /\ \A s \in Session : Free(NoFlush, s)
<1>1. Nothing \in [Session -> Nat] /\ \A s \in Session : Nothing[s] = 0
  BY DEF Nothing
<1>2. /\ NoFlush.pc = "idle" /\ NoFlush.rows = {} /\ NoFlush.closing = {}
      /\ NoFlush.claims = Nothing /\ NoFlush.wrote = Nothing /\ NoFlush \in Passes
  BY <1>1 DEF NoFlush, Passes
<1> QED BY <1>1, <1>2 DEF Free

\* Where nobody holds a chunk, the rollup is all there is.
LEMMA EvenAtRest ==
    ASSUME NEW k, NEW u \in User, NEW r \in [User -> Nat], NEW f, f = [p \in Pass |-> NoFlush],
           NEW n, NEW d, n[u] + d[u] = r[u]
    PROVE  Even(u, k, Nothing, f, r, n, d)
<1>1. Watches(k, u) \subseteq Session /\ IsFiniteSet(Watches(k, u))
  <2>1. Watches(k, u) \subseteq Session
    BY DEF Watches
  <2> QED BY <2>1, Bounds, FS_Subset
<1>2. f["task"].claims = Nothing /\ f["exit"].claims = Nothing
  BY IdlePass DEF Pass
<1>3. SumOf(Nothing, Watches(k, u)) = 0
  BY <1>1, IdlePass, SumZero
<1> QED BY <1>2, <1>3 DEF Even

\* The end of the process: the registry is empty, and what was served and
\* not written is not counted any more.
LEMMA DownStep ==
    ASSUME IInv, Down
    PROVE  IInv'
<1>1. /\ phase' = "down" /\ live' = {} /\ finalised' = {} /\ exempt' = {} /\ quiet' = {}
      /\ reads' = Nothing /\ handles' = Nothing /\ pending' = Nothing /\ tail' = Nothing
      /\ served' = rollup /\ twice' = [u \in User |-> 0] /\ flush' = [p \in Pass |-> NoFlush]
      /\ UNCHANGED <<opened, key, rollup, row, stop, recovered>>
  BY DEF Down
<1>2. /\ flush' \in [Pass -> Passes] /\ \A p \in Pass : flush'[p] = NoFlush
      /\ Nothing \in [Session -> 0 .. MaxReads] /\ Nothing \in [Session -> Nat]
      /\ rollup \in [User -> Nat]
  BY <1>1, IdlePass, Bounds DEF Nothing, IInv, Shape
<1>3. TypeOK' /\ Shape'
  BY <1>1, <1>2 DEF IInv, TypeOK, Shape
<1>4. KeysSound' /\ ReadsSound'
  BY <1>1, <1>2, IdlePass DEF IInv, KeysSound, ReadsSound
<1>5. PassesSound' /\ RowsFollow' /\ RowsOwned' /\ TailsSound'
  <2>1. "task" \in Pass /\ "exit" \in Pass
    BY DEF Pass
  <2>2. \A s \in Session : pending'[s] <= tail'[s]
    BY <1>1, IdlePass
  <2> QED BY <1>1, <1>2, <2>1, <2>2, IdlePass DEF PassesSound, RowsFollow, RowsOwned, TailsSound
<1>6. LimitHeld'
  BY <1>1, LimitShrinks
<1>7. Balanced'
  <2> SUFFICES ASSUME NEW u \in User
               PROVE  Even(u, key', pending', flush', rollup', served', twice')
    BY <1>3, Balance
  <2>1. served'[u] + twice'[u] = rollup'[u] /\ rollup' \in [User -> Nat]
    BY <1>1, <1>2
  <2> QED BY <1>1, <2>1, EvenAtRest
<1> QED BY <1>3, <1>4, <1>5, <1>6, <1>7 DEF IInv

\* recoverOrphans closes every row, or the process runs with its past open.
LEMMA BootStep ==
    ASSUME IInv, Boot
    PROVE  IInv'
<1>1. /\ UNCHANGED <<opened, key, live, finalised, reads, handles, quiet, exempt>>
      /\ UNCHANGED <<pending, served, twice, tail, rollup, flush, stop>>
      /\ phase = "down" /\ phase' = "up" /\ recovered' \in BOOLEAN
      /\ row' = [s \in Session |-> IF recovered' /\ row[s] = "active" THEN "ended" ELSE row[s]]
  BY DEF Boot, registry, bytes
<1>2. row' \in [Session -> {"none", "active", "ended"}]
  BY <1>1 DEF IInv, TypeOK
<1>3. TypeOK' /\ Shape'
  BY <1>1, <1>2 DEF IInv, TypeOK, Shape
<1>4. KeysSound' /\ ReadsSound' /\ TailsSound'
  BY <1>1 DEF IInv, KeysSound, ReadsSound, TailsSound
<1>5. PassesSound' /\ RowsFollow'
  <2>1. "task" \in Pass /\ flush["task"].pc = "idle"
    BY <1>1 DEF IInv, PassesSound, Pass
  <2>2. flush["task"].rows = {}
    BY <2>1 DEF IInv, PassesSound
  <2> QED BY <1>1, <2>1, <2>2 DEF IInv, PassesSound, RowsFollow
<1>6. RowsOwned'
  BY <1>1 DEF RowsOwned
<1>7. Balanced'
  BY <1>1, <1>3, NothingMoves
<1>8. LimitHeld'
  BY <1>1, LimitShrinks
<1> QED BY <1>3, <1>4, <1>5, <1>6, <1>7, <1>8 DEF IInv

----------------------------------------------------------------------------
(* What a pass takes *)

\* A pass that starts takes the registry's bytes, rows and ended sessions.
LEMMA CollectFacts ==
    ASSUME IInv, NEW p \in Pass, NEW ended \in SUBSET live, Collect(p, ended)
    PROVE  /\ UNCHANGED <<opened, key, handles>>
           /\ live' = live \ ended /\ finalised' = {}
           /\ quiet' = quiet \ ended /\ exempt' = exempt \ ended
           /\ reads' = [s \in Session |-> IF s \in ended THEN 0 ELSE reads[s]]
           /\ flush' \in [Pass -> Passes]
           /\ flush'[p].rows = live' /\ flush'[p].closing = finalised \cup ended
           /\ \A s \in Session :
                 flush'[p].pc # "bandwidth" \/ s \notin flush'[p].rows \cup flush'[p].closing
                   => Free(flush'[p], s)
           /\ flush'[p].pc \notin {"bandwidth", "upsert"} => flush'[p].closing = {} /\ flush'[p].rows = {}
           /\ \A q \in Pass : q # p => flush'[q] = flush[q]
           /\ pending' \in [Session -> Nat] /\ \A s \in Session : flush'[p].wrote[s] = 0
           /\ \A s \in Session :
                 /\ pending[s] = pending'[s] + flush'[p].claims[s]
                 /\ flush'[p].claims[s] \in Nat /\ pending'[s] \in Nat
                 /\ pending'[s] = IF s \in flush'[p].rows \cup flush'[p].closing THEN 0 ELSE pending[s]
<1> DEFINE alive == live \ ended
           closing == finalised \cup ended
           taken == [s \in Session |-> IF s \in alive \cup closing THEN pending[s] ELSE 0]
           pass(pc) == [NoFlush EXCEPT !.pc = pc, !.claims = taken, !.rows = alive, !.closing = closing]
<1>1. /\ UNCHANGED <<opened, key, handles>>
      /\ live' = live \ ended /\ finalised' = {}
      /\ quiet' = quiet \ ended /\ exempt' = exempt \ ended
      /\ reads' = [s \in Session |-> IF s \in ended THEN 0 ELSE reads[s]]
      /\ pending' = [s \in Session |-> pending[s] - taken[s]]
  BY DEF Collect
<1>2. PICK pc \in FirstStep(taken # Nothing, alive \cup closing # {}) :
         flush' = [flush EXCEPT ![p] = pass(pc)]
  BY DEF Collect
<1>3. pending \in [Session -> Nat]
  BY DEF IInv, TypeOK
<1>4. taken \in [Session -> Nat] /\ alive \subseteq Session /\ closing \subseteq Session
  <2>1. taken \in [Session -> Nat]
    BY <1>3
  <2> QED BY <2>1, Numbers
<1>5. /\ pc \in {"idle", "bandwidth", "upsert", "refresh", "stops"}
      /\ pc # "bandwidth" => taken = Nothing
      /\ pc \notin {"bandwidth", "upsert"} => alive \cup closing = {}
  <2> HIDE DEF taken, alive, closing
  <2> QED BY <1>2 DEF FirstStep
<1>6. \A s \in Session : taken[s] = IF s \in alive \cup closing THEN pending[s] ELSE 0
  OBVIOUS
<1> HIDE DEF taken
<1>7. pending' \in [Session -> Nat]
      /\ \A s \in Session : /\ pending[s] = pending'[s] + taken[s]
                            /\ taken[s] \in Nat /\ pending'[s] \in Nat
                            /\ pending'[s] = IF s \in alive \cup closing THEN 0 ELSE pending[s]
  <2>1. ASSUME NEW s \in Session
        PROVE  /\ pending[s] = pending'[s] + taken[s]
               /\ taken[s] \in Nat /\ pending'[s] \in Nat
               /\ pending'[s] = IF s \in alive \cup closing THEN 0 ELSE pending[s]
               /\ pending[s] - taken[s] \in Nat
    <3>1. pending'[s] = pending[s] - taken[s] /\ pending[s] \in Nat
      BY <1>1, <1>3
    <3>2. taken[s] = IF s \in alive \cup closing THEN pending[s] ELSE 0
      BY <1>6
    <3> HIDE DEF alive, closing
    <3>3. CASE s \in alive \cup closing
      BY <3>1, <3>2, <3>3
    <3>4. CASE s \notin alive \cup closing
      BY <3>1, <3>2, <3>4
    <3> QED BY <3>3, <3>4
  <2> HIDE DEF alive, closing
  <2>2. pending' \in [Session -> Nat]
    BY <1>1, <2>1
  <2> QED BY <2>1, <2>2
<1>8. /\ pass(pc).pc = pc /\ pass(pc).claims = taken /\ pass(pc).wrote = Nothing
      /\ pass(pc).rows = alive /\ pass(pc).closing = closing /\ pass(pc) \in Passes
  <2> HIDE DEF alive, closing
  <2> QED BY <1>4, <1>5, IdlePass DEF Passes, NoFlush
<1> HIDE DEF pass
<1>9. flush' \in [Pass -> Passes] /\ flush'[p] = pass(pc) /\ \A q \in Pass : q # p => flush'[q] = flush[q]
  <2>1. flush \in [Pass -> Passes]
    BY DEF IInv, Shape
  <2> QED BY <1>2, <1>8, <2>1
<1>10. flush'[p].rows = live' /\ flush'[p].rows = alive /\ flush'[p].closing = finalised \cup ended
       /\ flush'[p].closing = closing /\ flush'[p].claims = taken /\ flush'[p].wrote = Nothing
       /\ flush'[p].pc = pc
  BY <1>1, <1>8, <1>9
<1> HIDE DEF alive, closing
<1>11. \A s \in Session :
          flush'[p].pc # "bandwidth" \/ s \notin flush'[p].rows \cup flush'[p].closing => Free(flush'[p], s)
  BY <1>5, <1>6, <1>10, IdlePass DEF Free
<1>12. flush'[p].pc \notin {"bandwidth", "upsert"} => flush'[p].closing = {} /\ flush'[p].rows = {}
  BY <1>5, <1>10
<1>13. /\ \A s \in Session : flush'[p].wrote[s] = 0
       /\ \A s \in Session :
             /\ pending[s] = pending'[s] + flush'[p].claims[s]
             /\ flush'[p].claims[s] \in Nat /\ pending'[s] \in Nat
             /\ pending'[s] = IF s \in flush'[p].rows \cup flush'[p].closing THEN 0 ELSE pending[s]
  BY <1>7, <1>10, IdlePass
<1>14. flush'[p].rows = live' /\ flush'[p].closing = finalised \cup ended /\ pending' \in [Session -> Nat]
  BY <1>7, <1>10
<1> QED BY <1>1, <1>9, <1>11, <1>12, <1>13, <1>14

\* The start of a pass, the scheduled one or the exit's.
LEMMA CollectStep ==
    ASSUME IInv, NEW p \in Pass, NEW ended \in SUBSET live, Collect(p, ended),
           phase = "up", flush[p].pc = "idle",
           phase' = IF p = "task" THEN "up" ELSE "exiting",
           UNCHANGED <<served, twice, tail, rollup, row, stop, recovered>>
    PROVE  IInv'
<1>1. /\ UNCHANGED <<opened, key, handles>>
      /\ live' = live \ ended /\ finalised' = {}
      /\ quiet' = quiet \ ended /\ exempt' = exempt \ ended
      /\ reads' = [s \in Session |-> IF s \in ended THEN 0 ELSE reads[s]]
  BY CollectFacts
<1>2. /\ flush' \in [Pass -> Passes]
      /\ flush'[p].rows = live' /\ flush'[p].closing = finalised \cup ended
      /\ flush'[p].pc \notin {"bandwidth", "upsert"} => flush'[p].closing = {} /\ flush'[p].rows = {}
      /\ \A q \in Pass : q # p => flush'[q] = flush[q]
      /\ \A s \in Session :
            flush'[p].pc # "bandwidth" \/ s \notin flush'[p].rows \cup flush'[p].closing
              => Free(flush'[p], s)
  BY CollectFacts
<1>3. /\ pending' \in [Session -> Nat] /\ \A s \in Session : flush'[p].wrote[s] = 0
      /\ \A s \in Session :
            /\ pending[s] = pending'[s] + flush'[p].claims[s]
            /\ flush'[p].claims[s] \in Nat /\ pending'[s] \in Nat
            /\ pending'[s] = IF s \in flush'[p].rows \cup flush'[p].closing THEN 0 ELSE pending[s]
  BY CollectFacts
<1>4. 0 \in 0 .. MaxReads
  BY Bounds
<1>5. TypeOK' /\ Shape'
  BY <1>1, <1>2, <1>3, <1>4 DEF IInv, TypeOK, Shape
<1>6. KeysSound'
  <2>1. \A s \in Session : s > opened =>
           pending[s] = 0 /\ handles[s] = 0 /\ \A q \in Pass : Free(flush[q], s)
    BY DEF IInv, KeysSound
  <2>2. ASSUME NEW s \in Session, s > opened
        PROVE  pending'[s] = 0 /\ Free(flush'[p], s)
    BY <1>3, <2>1, <2>2 DEF Free
  <2>3. \A s \in Session : s > opened => \A q \in Pass : Free(flush'[q], s)
    BY <1>2, <2>1, <2>2
  <2> QED BY <1>1, <2>1, <2>2, <2>3 DEF IInv, KeysSound
<1>7. ReadsSound'
  <2> SUFFICES ASSUME NEW s \in Session
               PROVE  reads'[s] <= handles'[s] /\ (reads'[s] > 0 => s \in live')
    BY DEF ReadsSound
  <2>1. reads[s] <= handles[s] /\ (reads[s] > 0 => s \in live) /\ handles[s] \in Nat
    BY Bounds DEF IInv, ReadsSound, TypeOK
  <2>2. reads'[s] = IF s \in ended THEN 0 ELSE reads[s]
    BY <1>1
  <2> QED BY <1>1, <2>1, <2>2
<1>8. PassesSound'
  <2>1. ASSUME NEW q \in Pass
        PROVE  /\ flush'[q].closing \subseteq 1 .. opened' /\ flush'[q].closing \cap live' = {}
               /\ \A s \in Session :
                     flush'[q].pc # "bandwidth" \/ s \notin flush'[q].rows \cup flush'[q].closing
                       => Free(flush'[q], s)
               /\ flush'[q].pc \notin {"bandwidth", "upsert"} => flush'[q].closing = {} /\ flush'[q].rows = {}
    <3>1. CASE q = p
      BY <1>1, <1>2, <3>1 DEF IInv, TypeOK
    <3>2. CASE q # p
      BY <1>1, <1>2, <3>2 DEF IInv, PassesSound
    <3> QED BY <3>1, <3>2
  <2>2. phase' # "exiting" => flush'["exit"].pc = "idle"
    BY <1>2 DEF IInv, PassesSound, Pass
  <2> QED BY <2>1, <2>2 DEF PassesSound
<1>9. RowsFollow'
  BY <1>2 DEF RowsFollow
<1>10. TailsSound'
  <2> SUFFICES ASSUME NEW s \in Session PROVE s \in live' \cup finalised' \/ pending'[s] <= tail'[s]
    BY DEF TailsSound
  <2>1. pending[s] \in Nat /\ tail[s] \in Nat /\ (s \in live \cup finalised \/ pending[s] <= tail[s])
    BY DEF IInv, TypeOK, TailsSound
  <2>2. CASE s \in flush'[p].rows \cup flush'[p].closing
    BY <1>3, <2>1, <2>2
  <2>3. CASE s \notin flush'[p].rows \cup flush'[p].closing
    <3>1. s \notin live \cup finalised
      BY <1>1, <1>2, <2>3
    <3> QED BY <1>3, <2>1, <2>3, <3>1
  <2> QED BY <2>2, <2>3
<1>11. RowsOwned'
  <2> SUFFICES ASSUME phase' = "up", recovered', NEW s \in Session, row'[s] = "active"
               PROVE  Owned(s)'
    BY DEF RowsOwned
  <2>1. p = "task" /\ "task" \in Pass
    BY DEF Pass
  <2>2. Owned(s)
    BY DEF IInv, RowsOwned
  <2>3. flush[p].closing = {}
    BY DEF IInv, PassesSound
  <2> QED BY <1>1, <1>2, <2>2, <2>3 DEF Owned
<1>12. LimitHeld'
  <2>1. live \subseteq Session
    BY Numbers
  <2>2. ASSUME NEW x \in live', reads'[x] > 0, x \notin exempt'
        PROVE  x \in live /\ reads[x] > 0 /\ x \notin exempt
    BY <1>1, <2>1, <2>2
  <2> QED BY <1>1, <2>2, LimitShrinks
<1>13. Balanced'
  <2> SUFFICES ASSUME NEW u \in User
               PROVE  Even(u, key', pending', flush', rollup', served', twice')
    BY <1>5, Balance
  <2> DEFINE m == Watches(key, u)
  <2>1. /\ Even(u, key, pending, flush, rollup, served, twice)
        /\ m \subseteq Session /\ IsFiniteSet(m)
        /\ \A q \in Pass : SumOf(flush[q].claims, m) \in Nat
        /\ rollup[u] \in Nat
    BY UserEven
  <2> HIDE DEF m
  <2>2. SumOf(flush[p].claims, m) = 0
    <3>1. \A x \in m : flush[p].claims[x] = 0
      BY <2>1 DEF IInv, PassesSound, Free
    <3> QED BY <2>1, <3>1, SumZero
  <2>3. /\ SumOf(pending, m) = SumOf(pending', m) + SumOf(flush'[p].claims, m)
        /\ SumOf(pending', m) \in Nat /\ SumOf(flush'[p].claims, m) \in Nat
    <3>1. \A x \in m : /\ pending[x] = pending'[x] + flush'[p].claims[x]
                       /\ pending'[x] \in Nat /\ flush'[p].claims[x] \in Nat
      BY <1>3, <2>1
    <3> QED BY <2>1, <3>1, SumPlus, SumType
  <2>4. p = "task" \/ p = "exit"
    BY DEF Pass
  <2>5. \A q \in Pass : q # p => SumOf(flush'[q].claims, m) = SumOf(flush[q].claims, m)
    BY <1>2, Zenon
  <2>6. "task" \in Pass /\ "exit" \in Pass
    BY DEF Pass
  <2>7. served[u] + twice[u] = rollup[u] + SumOf(pending', m)
                 + (SumOf(flush'["task"].claims, m) + SumOf(flush'["exit"].claims, m))
    <3>1. served[u] + twice[u]
            = rollup[u] + SumOf(pending, m) + (SumOf(flush["task"].claims, m) + SumOf(flush["exit"].claims, m))
      BY <2>1 DEF Even, m
    <3>2. /\ SumOf(flush["task"].claims, m) \in Nat /\ SumOf(flush["exit"].claims, m) \in Nat
      BY <2>1, <2>6
    <3>3. CASE p = "task"
      <4>1. SumOf(flush'["exit"].claims, m) = SumOf(flush["exit"].claims, m)
        BY <2>5, <2>6, <3>3
      <4> QED BY <2>1, <2>2, <2>3, <3>1, <3>2, <3>3, <4>1
    <3>4. CASE p = "exit"
      <4>1. SumOf(flush'["task"].claims, m) = SumOf(flush["task"].claims, m)
        BY <2>5, <2>6, <3>4
      <4> QED BY <2>1, <2>2, <2>3, <3>1, <3>2, <3>4, <4>1
    <3> QED BY <2>4, <3>3, <3>4
  <2> QED BY <1>1, <2>7 DEF Even, m
<1> QED BY <1>5, <1>6, <1>7, <1>8, <1>9, <1>10, <1>11, <1>12, <1>13 DEF IInv

\* The scheduled flush starts.
LEMMA FlushStartsStep ==
    ASSUME IInv, FlushStarts
    PROVE  IInv'
<1>1. phase = "up" /\ flush["task"].pc = "idle" /\ phase' = "up"
      /\ UNCHANGED <<served, twice, tail, rollup, row, stop, recovered>>
  BY DEF FlushStarts, process
<1>2. PICK S \in SUBSET live : Collect("task", S)
  BY DEF FlushStarts
<1>3. "task" \in Pass
  BY DEF Pass
<1> QED BY <1>1, <1>2, <1>3, CollectStep

\* shutdown: everything ends and the exit's own pass starts.
LEMMA ExitStep ==
    ASSUME IInv, Exit
    PROVE  IInv'
<1>1. phase = "up" /\ phase' = "exiting" /\ Collect("exit", live)
      /\ UNCHANGED <<served, twice, tail, rollup, row, stop, recovered>>
  BY DEF Exit
<1>2. "exit" \in Pass /\ flush["exit"].pc = "idle"
  BY <1>1 DEF Pass, IInv, PassesSound
<1> QED BY <1>1, <1>2, CollectStep

----------------------------------------------------------------------------
(* The steps of a pass *)

\* A pass that is done with its bytes and rows holds nothing.
LEMMA Settled ==
    ASSUME IInv, NEW p \in Pass, NEW pc \in {"idle", "refresh", "stops"},
           flush' = [flush EXCEPT ![p] = [NoFlush EXCEPT !.pc = pc]],
           flush[p].pc # "idle", phase # "down", phase' = phase,
           opened' = opened, live' \subseteq live
    PROVE  /\ flush' \in [Pass -> Passes]
           /\ flush'[p].rows = {} /\ flush'[p].closing = {}
           /\ \A s \in Session : flush'[p].claims[s] = 0 /\ Free(flush'[p], s)
           /\ \A q \in Pass : q # p => flush'[q] = flush[q]
           /\ PassesSound'
<1>1. PICK n : n = [NoFlush EXCEPT !.pc = pc]
  OBVIOUS
<1>2. /\ n.pc = pc /\ n.rows = {} /\ n.closing = {} /\ n \in Passes
      /\ \A s \in Session : n.claims[s] = 0 /\ Free(n, s)
  BY <1>1, IdlePass DEF NoFlush, Passes, Free
<1>3. flush \in [Pass -> Passes]
  BY DEF IInv, Shape
<1>4. flush' \in [Pass -> Passes] /\ flush'[p] = n /\ \A q \in Pass : q # p => flush'[q] = flush[q]
  BY <1>1, <1>2, <1>3
<1>5. PassesSound'
  <2>1. ASSUME NEW q \in Pass
        PROVE  /\ flush'[q].closing \subseteq 1 .. opened' /\ flush'[q].closing \cap live' = {}
               /\ \A s \in Session :
                     flush'[q].pc # "bandwidth" \/ s \notin flush'[q].rows \cup flush'[q].closing
                       => Free(flush'[q], s)
               /\ flush'[q].pc \notin {"bandwidth", "upsert"} => flush'[q].closing = {} /\ flush'[q].rows = {}
    <3>1. CASE q = p
      BY <1>2, <1>4, <3>1
    <3>2. CASE q # p
      BY <1>4, <3>2 DEF IInv, PassesSound
    <3> QED BY <3>1, <3>2
  <2>2. phase' # "exiting" => flush'["exit"].pc = "idle"
    <3>1. phase # "exiting" => flush["exit"].pc = "idle"
      BY DEF IInv, PassesSound
    <3>2. phase # "exiting" => p # "exit"
      BY <3>1
    <3> QED BY <1>4, <3>1, <3>2 DEF Pass
  <2> QED BY <2>1, <2>2 DEF PassesSound
<1> QED BY <1>2, <1>4, <1>5

\* enforceBandwidth and applyRemoteStops: all that ends is still to be written.
LEMMA EndsInPass ==
    ASSUME IInv, RegistryKept,
           NEW p \in Pass, NEW pc \in {"idle", "refresh", "stops"},
           flush' = [flush EXCEPT ![p] = [NoFlush EXCEPT !.pc = pc]],
           flush[p].pc \in {"refresh", "stops"}, phase # "down",
           UNCHANGED <<pending, served, twice, tail, rollup, row, stop, phase, recovered>>
    PROVE  IInv'
<1> USE DEF RegistryKept
<1>1. /\ flush' \in [Pass -> Passes]
      /\ flush'[p].rows = {} /\ flush'[p].closing = {}
      /\ \A s \in Session : flush'[p].claims[s] = 0 /\ Free(flush'[p], s)
      /\ \A q \in Pass : q # p => flush'[q] = flush[q]
      /\ PassesSound'
  BY Settled
<1>2. /\ flush[p].closing = {} /\ flush[p].rows = {}
      /\ \A s \in Session : flush[p].claims[s] = 0
  BY DEF IInv, PassesSound, Free
<1>3. \A q \in Pass : \A s \in Session : flush'[q].claims[s] = flush[q].claims[s]
  <2> SUFFICES ASSUME NEW q \in Pass, NEW s \in Session
               PROVE  flush'[q].claims[s] = flush[q].claims[s]
    OBVIOUS
  <2>1. CASE q = p
    BY <1>1, <1>2, <2>1
  <2>2. CASE q # p
    BY <1>1, <2>2
  <2> QED BY <2>1, <2>2
<1>4. \A q \in Pass : flush'[q].rows = flush[q].rows /\ flush'[q].closing = flush[q].closing
  <2> SUFFICES ASSUME NEW q \in Pass
               PROVE  flush'[q].rows = flush[q].rows /\ flush'[q].closing = flush[q].closing
    OBVIOUS
  <2>1. CASE q = p
    BY <1>1, <1>2, <2>1
  <2>2. CASE q # p
    BY <1>1, <2>2
  <2> QED BY <2>1, <2>2
<1>5. TypeOK' /\ Shape'
  BY <1>1 DEF IInv, TypeOK, Shape
<1>6. KeysSound'
  <2>1. \A s \in Session : s > opened => \A q \in Pass : Free(flush'[q], s)
    BY <1>1 DEF IInv, KeysSound
  <2> QED BY <2>1 DEF IInv, KeysSound
<1>7. RowsFollow' /\ TailsSound'
  BY <1>4 DEF IInv, RowsFollow, TailsSound, Pass
<1>8. RowsOwned'
  BY <1>4 DEF IInv, RowsOwned, Owned
<1>9. Balanced'
  BY <1>3, <1>5, NothingMoves
<1> QED BY <1>1, <1>5, <1>6, <1>7, <1>8, <1>9 DEF IInv

\* A registry left alone is kept.
LEMMA RegistryIdle ==
    ASSUME IInv, UNCHANGED registry
    PROVE  RegistryKept
<1>1. UNCHANGED <<opened, key, live, finalised, reads, handles, quiet, exempt>>
  BY DEF registry
<1>2. LimitHeld'
  BY <1>1, LimitShrinks
<1> QED BY <1>1, <1>2 DEF RegistryKept, IInv, TypeOK, ReadsSound, KeysSound

\* The usage is read again and who is over the cap ends.
LEMMA RefreshStep ==
    ASSUME IInv, NEW p \in Pass, Refresh(p)
    PROVE  IInv'
<1>1. /\ flush[p].pc = "refresh" /\ phase # "down" /\ Finalise(Enforced(usage'))
      /\ flush' = [flush EXCEPT ![p] = [NoFlush EXCEPT !.pc = "stops"]]
      /\ UNCHANGED <<pending, served, twice, tail, rollup, row, stop, phase, recovered>>
  BY DEF Refresh, In, Step, Running, bytes, process
<1>2. Enforced(usage') \in SUBSET Session
  <2>1. live \subseteq Session
    BY Numbers
  <2> QED BY <2>1 DEF Enforced
<1>3. RegistryKept
  BY <1>1, <1>2, FinaliseKeeps
<1> QED BY <1>1, <1>3, EndsInPass

\* The stops that other replicas asked for.
LEMMA ApplyStopsStep ==
    ASSUME IInv, NEW p \in Pass, ApplyStops(p)
    PROVE  IInv'
<1>1. /\ flush[p].pc = "stops" /\ phase # "down"
      /\ Finalise(Stopped) \/ UNCHANGED registry
      /\ flush' = [flush EXCEPT ![p] = NoFlush]
      /\ UNCHANGED <<pending, served, twice, tail, rollup, row, stop, phase, recovered>>
  BY DEF ApplyStops, In, Step, Running, bytes, process
<1>2. Stopped \in SUBSET Session
  <2>1. live \subseteq Session
    BY Numbers
  <2> QED BY <2>1 DEF Stopped
<1>3. RegistryKept
  BY <1>1, <1>2, FinaliseKeeps, RegistryIdle
<1>4. NoFlush = [NoFlush EXCEPT !.pc = "idle"]
  BY DEF NoFlush
<1> QED BY <1>1, <1>3, <1>4, EndsInPass

\* A pass that has written some lines of the rollup: their chunks moved from
\* its claims to the rollup, and it remembers them while others are left.
WroteSome(p, now) ==
    LET n == flush'[p]
    IN  /\ now \in [Session -> Nat]
        /\ \A s \in Session : /\ n.claims[s] \in Nat
                              /\ flush[p].claims[s] = n.claims[s] + now[s]
        /\ n.rows = flush[p].rows /\ n.closing = flush[p].closing
        /\ \/ n.pc = "upsert" /\ \A s \in Session : Free(n, s)
           \/ n.pc = "bandwidth" /\ \A s \in Session : n.wrote[s] = flush[p].wrote[s] + now[s]

\* A statement of addBandwidth.
LEMMA StatementFacts ==
    ASSUME IInv, NEW p \in Pass, WriteBytes(p)
    PROVE  /\ flush[p].pc = "bandwidth" /\ phase # "down"
           /\ UNCHANGED <<opened, key, live, finalised, reads, handles, quiet, exempt>>
           /\ UNCHANGED <<pending, served, twice, tail, row, stop, phase, recovered>>
           /\ flush' \in [Pass -> Passes] /\ \A q \in Pass : q # p => flush'[q] = flush[q]
           /\ \E now : WroteSome(p, now) /\ rollup' = [u \in User |-> rollup[u] + SumOver(now, Watches(key, u))]
<1>1. /\ flush[p].pc = "bandwidth" /\ phase # "down"
      /\ UNCHANGED <<opened, key, live, finalised, reads, handles, quiet, exempt>>
      /\ UNCHANGED <<pending, served, twice, tail, row, stop, phase, recovered>>
  BY DEF WriteBytes, In, Running, registry, process
<1>2. flush \in [Pass -> Passes] /\ flush[p] \in Passes
  BY DEF IInv, Shape
<1>3. PICK lines :
         /\ rollup' = [u \in User |-> rollup[u]
               + SumOver([s \in Session |-> IF Line(s) \in lines THEN flush[p].claims[s] ELSE 0], Mine(u))]
         /\ flush' = [flush EXCEPT ![p] =
               IF [s \in Session |-> IF Line(s) \in lines THEN 0 ELSE flush[p].claims[s]] = Nothing
               THEN [flush[p] EXCEPT !.pc = "upsert",
                        !.claims = [s \in Session |-> IF Line(s) \in lines THEN 0 ELSE flush[p].claims[s]],
                        !.wrote = Nothing]
               ELSE [flush[p] EXCEPT
                        !.claims = [s \in Session |-> IF Line(s) \in lines THEN 0 ELSE flush[p].claims[s]],
                        !.wrote = Plus(@, [s \in Session |->
                                              IF Line(s) \in lines THEN flush[p].claims[s] ELSE 0])]]
  BY Zenon DEF WriteBytes, Step
<1>4. PICK c : c = flush[p].claims
  OBVIOUS
<1> DEFINE now == [s \in Session |-> IF Line(s) \in lines THEN c[s] ELSE 0]
           left == [s \in Session |-> IF Line(s) \in lines THEN 0 ELSE c[s]]
<1>5. /\ flush[p].claims \in [Session -> Nat] /\ flush[p].wrote \in [Session -> Nat]
      /\ now \in [Session -> Nat] /\ left \in [Session -> Nat]
      /\ \A s \in Session : flush[p].claims[s] = left[s] + now[s]
  <2>1. c \in [Session -> Nat] /\ flush[p].wrote \in [Session -> Nat]
    BY <1>2, <1>4 DEF Passes
  <2>2. now \in [Session -> Nat] /\ left \in [Session -> Nat]
    BY <2>1
  <2>3. ASSUME NEW s \in Session PROVE c[s] = left[s] + now[s]
    <3>1. c[s] \in Nat
      BY <2>1
    <3>2. CASE Line(s) \in lines
      BY <3>1, <3>2
    <3>3. CASE Line(s) \notin lines
      BY <3>1, <3>3
    <3> QED BY <3>2, <3>3
  <2> QED BY <1>4, <2>1, <2>2, <2>3
<1>6. PICK n : n = IF left = Nothing
                   THEN [flush[p] EXCEPT !.pc = "upsert", !.claims = left, !.wrote = Nothing]
                   ELSE [flush[p] EXCEPT !.claims = left, !.wrote = Plus(flush[p].wrote, now)]
  OBVIOUS
<1>7. flush' = [flush EXCEPT ![p] = n]
  BY <1>3, <1>4, <1>6
<1> HIDE DEF now, left
<1>8. /\ n \in Passes /\ n.claims = left /\ n.rows = flush[p].rows /\ n.closing = flush[p].closing
      /\ \/ n.pc = "upsert" /\ \A s \in Session : Free(n, s)
         \/ n.pc = "bandwidth" /\ \A s \in Session : n.wrote[s] = flush[p].wrote[s] + now[s]
  <2>1. CASE left = Nothing
    <3>1. n = [flush[p] EXCEPT !.pc = "upsert", !.claims = left, !.wrote = Nothing]
      BY <1>6, <2>1
    <3>2. /\ n.pc = "upsert" /\ n.claims = left /\ n.wrote = Nothing /\ n.rows = flush[p].rows
          /\ n.closing = flush[p].closing /\ n \in Passes
      BY <1>2, <1>5, <3>1, IdlePass DEF Passes
    <3> QED BY <2>1, <3>2, IdlePass DEF Free
  <2>2. CASE left # Nothing
    <3>1. PICK w : w = Plus(flush[p].wrote, now)
      OBVIOUS
    <3>2. w \in [Session -> Nat] /\ \A s \in Session : w[s] = flush[p].wrote[s] + now[s]
      BY <1>5, <3>1 DEF Plus
    <3>3. n = [flush[p] EXCEPT !.claims = left, !.wrote = w]
      BY <1>6, <2>2, <3>1
    <3>4. /\ n.pc = "bandwidth" /\ n.claims = left /\ n.wrote = w /\ n.rows = flush[p].rows
          /\ n.closing = flush[p].closing /\ n \in Passes
      BY <1>1, <1>2, <1>5, <3>2, <3>3 DEF Passes
    <3> QED BY <3>2, <3>4
  <2> QED BY <2>1, <2>2
<1>9. flush' \in [Pass -> Passes] /\ flush'[p] = n /\ \A q \in Pass : q # p => flush'[q] = flush[q]
  BY <1>2, <1>7, <1>8
<1>10. WroteSome(p, now)
  BY <1>5, <1>8, <1>9 DEF WroteSome
<1>11. rollup' = [u \in User |-> rollup[u] + SumOver(now, Watches(key, u))]
  BY <1>3, <1>4 DEF Mine, Watches, now
<1> QED BY <1>1, <1>9, <1>10, <1>11

\* addBandwidth, one statement of it: some of what the pass claimed is rolled up.
LEMMA WriteBytesStep ==
    ASSUME IInv, NEW p \in Pass, WriteBytes(p)
    PROVE  IInv'
<1>1. /\ flush[p].pc = "bandwidth" /\ phase # "down"
      /\ UNCHANGED <<opened, key, live, finalised, reads, handles, quiet, exempt>>
      /\ UNCHANGED <<pending, served, twice, tail, row, stop, phase, recovered>>
      /\ flush' \in [Pass -> Passes] /\ \A q \in Pass : q # p => flush'[q] = flush[q]
  BY StatementFacts
<1>2. PICK now : WroteSome(p, now) /\ rollup' = [u \in User |-> rollup[u] + SumOver(now, Watches(key, u))]
  BY StatementFacts
<1>3. /\ now \in [Session -> Nat]
      /\ \A s \in Session : /\ flush'[p].claims[s] \in Nat
                            /\ flush[p].claims[s] = flush'[p].claims[s] + now[s]
      /\ flush'[p].rows = flush[p].rows /\ flush'[p].closing = flush[p].closing
      /\ \/ flush'[p].pc = "upsert" /\ \A s \in Session : Free(flush'[p], s)
         \/ flush'[p].pc = "bandwidth" /\ \A s \in Session : flush'[p].wrote[s] = flush[p].wrote[s] + now[s]
  BY <1>2 DEF WroteSome
<1>4. ASSUME NEW s \in Session, Free(flush[p], s) PROVE Free(flush'[p], s)
  <2>1. flush[p].claims[s] = 0 /\ flush[p].wrote[s] = 0 /\ now[s] \in Nat /\ flush'[p].claims[s] \in Nat
    BY <1>3, <1>4 DEF Free
  <2>2. flush'[p].claims[s] = 0 /\ now[s] = 0
    BY <1>3, <2>1
  <2> QED BY <1>3, <2>1, <2>2 DEF Free
<1>5. \A q \in Pass : flush'[q].rows = flush[q].rows /\ flush'[q].closing = flush[q].closing
  <2> SUFFICES ASSUME NEW q \in Pass
               PROVE  flush'[q].rows = flush[q].rows /\ flush'[q].closing = flush[q].closing
    OBVIOUS
  <2>1. CASE q = p
    BY <1>3, <2>1
  <2>2. CASE q # p
    BY <1>1, <2>2
  <2> QED BY <2>1, <2>2
<1>6. ASSUME NEW u \in User
      PROVE  /\ rollup'[u] = rollup[u] + SumOf(now, Watches(key, u))
             /\ SumOf(now, Watches(key, u)) \in Nat /\ rollup[u] \in Nat
  <2>1. /\ Watches(key, u) \subseteq Session /\ IsFiniteSet(Watches(key, u)) /\ rollup[u] \in Nat
    BY UserEven
  <2>2. \A x \in Watches(key, u) : now[x] \in Nat
    BY <1>3, <2>1
  <2> QED BY <1>2, <2>1, <2>2, SumType, SumsAreSums
<1>7. rollup' \in [User -> Nat]
  BY <1>2, <1>6
<1>8. TypeOK' /\ Shape'
  BY <1>1, <1>7 DEF IInv, TypeOK, Shape
<1>9. KeysSound'
  <2>1. \A s \in Session : s > opened => \A q \in Pass : Free(flush'[q], s)
    BY <1>1, <1>4 DEF IInv, KeysSound
  <2> QED BY <1>1, <2>1 DEF IInv, KeysSound
<1>10. ReadsSound'
  BY <1>1 DEF IInv, ReadsSound
<1>11. PassesSound'
  <2>1. ASSUME NEW q \in Pass
        PROVE  /\ flush'[q].closing \subseteq 1 .. opened' /\ flush'[q].closing \cap live' = {}
               /\ \A s \in Session :
                     flush'[q].pc # "bandwidth" \/ s \notin flush'[q].rows \cup flush'[q].closing
                       => Free(flush'[q], s)
               /\ flush'[q].pc \notin {"bandwidth", "upsert"} => flush'[q].closing = {} /\ flush'[q].rows = {}
    <3>1. /\ flush[q].closing \subseteq 1 .. opened /\ flush[q].closing \cap live = {}
          /\ \A s \in Session :
                flush[q].pc # "bandwidth" \/ s \notin flush[q].rows \cup flush[q].closing
                  => Free(flush[q], s)
          /\ flush[q].pc \notin {"bandwidth", "upsert"} => flush[q].closing = {} /\ flush[q].rows = {}
      BY DEF IInv, PassesSound
    <3>2. CASE q = p
      <4>1. flush'[p].closing \subseteq 1 .. opened' /\ flush'[p].closing \cap live' = {}
        BY <1>1, <1>3, <3>1, <3>2
      <4>2. flush'[p].pc \in {"bandwidth", "upsert"}
        BY <1>3
      <4>3. ASSUME NEW s \in Session,
                   flush'[p].pc # "bandwidth" \/ s \notin flush'[p].rows \cup flush'[p].closing
            PROVE  Free(flush'[p], s)
        <5>1. CASE flush'[p].pc # "bandwidth"
          BY <1>3, <5>1
        <5>2. CASE s \notin flush'[p].rows \cup flush'[p].closing
          BY <1>3, <1>4, <3>1, <3>2, <5>2
        <5> QED BY <4>3, <5>1, <5>2
      <4> QED BY <3>2, <4>1, <4>2, <4>3
    <3>3. CASE q # p
      BY <1>1, <3>1, <3>3
    <3> QED BY <3>2, <3>3
  <2>2. phase' # "exiting" => flush'["exit"].pc = "idle"
    <3>1. phase # "exiting" => flush["exit"].pc = "idle"
      BY DEF IInv, PassesSound
    <3>2. phase # "exiting" => p # "exit"
      BY <1>1, <3>1
    <3> QED BY <1>1, <3>1, <3>2 DEF Pass
  <2> QED BY <1>1, <2>1, <2>2 DEF PassesSound
<1>12. RowsFollow' /\ TailsSound'
  BY <1>1, <1>5 DEF IInv, RowsFollow, TailsSound, Pass
<1>13. RowsOwned'
  BY <1>1, <1>5 DEF IInv, RowsOwned, Owned
<1>14. LimitHeld'
  BY <1>1, LimitShrinks
<1>15. Balanced'
  <2> SUFFICES ASSUME NEW u \in User
               PROVE  Even(u, key', pending', flush', rollup', served', twice')
    BY <1>8, Balance
  <2> DEFINE m == Watches(key, u)
  <2>1. /\ Even(u, key, pending, flush, rollup, served, twice)
        /\ m \subseteq Session /\ IsFiniteSet(m) /\ SumOf(pending, m) \in Nat
        /\ \A q \in Pass : SumOf(flush[q].claims, m) \in Nat
        /\ rollup[u] \in Nat
    BY UserEven
  <2>2. rollup'[u] = rollup[u] + SumOf(now, m) /\ SumOf(now, m) \in Nat
    BY <1>6
  <2> HIDE DEF m
  <2>3. /\ SumOf(flush[p].claims, m) = SumOf(flush'[p].claims, m) + SumOf(now, m)
        /\ SumOf(flush'[p].claims, m) \in Nat
    <3>1. \A x \in m : /\ flush'[p].claims[x] \in Nat /\ now[x] \in Nat
                       /\ flush[p].claims[x] = flush'[p].claims[x] + now[x]
      BY <1>3, <2>1
    <3> QED BY <2>1, <3>1, SumPlus, SumType
  <2>4. \A q \in Pass : q # p => SumOf(flush'[q].claims, m) = SumOf(flush[q].claims, m)
    BY <1>1, Zenon
  <2>5. (p = "task" \/ p = "exit") /\ "task" \in Pass /\ "exit" \in Pass
    BY DEF Pass
  <2>6. served[u] + twice[u] = rollup[u] + SumOf(pending, m)
                                 + (SumOf(flush["task"].claims, m) + SumOf(flush["exit"].claims, m))
    BY <2>1 DEF Even, m
  <2>7. SumOf(flush["task"].claims, m) \in Nat /\ SumOf(flush["exit"].claims, m) \in Nat
    BY <2>1, <2>5
  <2>8. served[u] + twice[u] = rollup'[u] + SumOf(pending, m)
                                 + (SumOf(flush'["task"].claims, m) + SumOf(flush'["exit"].claims, m))
    <3>1. CASE p = "task"
      <4>1. SumOf(flush'["exit"].claims, m) = SumOf(flush["exit"].claims, m)
        BY <2>4, <2>5, <3>1
      <4> QED BY <2>1, <2>2, <2>3, <2>6, <2>7, <3>1, <4>1
    <3>2. CASE p = "exit"
      <4>1. SumOf(flush'["task"].claims, m) = SumOf(flush["task"].claims, m)
        BY <2>4, <2>5, <3>2
      <4> QED BY <2>1, <2>2, <2>3, <2>6, <2>7, <3>2, <4>1
    <3> QED BY <2>5, <3>1, <3>2
  <2> QED BY <1>1, <2>8 DEF Even, m
<1> QED BY <1>8, <1>9, <1>10, <1>11, <1>12, <1>13, <1>14, <1>15 DEF IInv

\* Only what the pass took to be live becomes active, whatever part is written.
LEMMA WrittenRows ==
    ASSUME IInv, NEW p \in Pass, NEW done \in SUBSET Session, row' = Written(p, done)
    PROVE  /\ row' \in [Session -> {"none", "active", "ended"}]
           /\ \A s \in Session : row'[s] = "active" =>
                 \/ s \in done /\ s \notin flush[p].closing
                 \/ s \notin done /\ row[s] = "active"
<1>1. row \in [Session -> {"none", "active", "ended"}]
  BY DEF IInv, TypeOK
<1>2. row' = [s \in Session |-> CASE s \notin done -> row[s]
                                  [] s \in done \cap flush[p].closing -> "ended"
                                  [] OTHER -> "active"]
  BY DEF Written
<1>3. ASSUME NEW s \in Session
      PROVE  \/ s \notin done /\ row'[s] = row[s]
             \/ s \in done /\ s \in flush[p].closing /\ row'[s] = "ended"
             \/ s \in done /\ s \notin flush[p].closing /\ row'[s] = "active"
  <2>1. row'[s] = CASE s \notin done -> row[s]
                    [] s \in done \cap flush[p].closing -> "ended"
                    [] OTHER -> "active"
    BY <1>2
  <2>2. CASE s \notin done
    BY <2>1, <2>2
  <2>3. CASE s \in done
    BY <2>1, <2>3
  <2> QED BY <2>2, <2>3
<1>4. row' \in [Session -> {"none", "active", "ended"}]
  <2>1. \A s \in Session : row'[s] \in {"none", "active", "ended"}
    BY <1>1, <1>3
  <2>2. row' = [s \in Session |-> row'[s]]
    BY <1>2
  <2> QED BY <2>1, <2>2
<1> QED BY <1>3, <1>4

\* While the process is up it is the task's pass that runs, whose live
\* sessions live or are still to be written.
LEMMA PassOfTask ==
    ASSUME IInv, NEW p \in Pass, flush[p].pc # "idle", phase = "up"
    PROVE  p = "task" /\ flush[p].rows \subseteq live \cup finalised
BY DEF IInv, PassesSound, RowsFollow, Pass

\* The catch: what was claimed goes back to the registry, and so do the ended
\* sessions; of what was claimed `wrote` is in the rollup and will be again.
LEMMA FailStep ==
    ASSUME IInv, NEW p \in Pass, flush[p].pc \in {"bandwidth", "upsert"}, phase # "down",
           WriteFails(p),
           pending' \in [Session -> Nat],
           \A s \in Session : pending'[s] = pending[s] + (flush[p].claims[s] + flush[p].wrote[s]),
           twice' \in [User -> Nat],
           \A u \in User : twice'[u] = twice[u] + SumOver(flush[p].wrote, Watches(key, u)),
           row' \in [Session -> {"none", "active", "ended"}],
           \A s \in Session : row'[s] = "active" => row[s] = "active" \/ s \in flush[p].rows
    PROVE  IInv'
<1>1. /\ finalised' = finalised \cup flush[p].closing
      /\ flush' = [flush EXCEPT ![p] = [NoFlush EXCEPT !.pc = "refresh"]]
      /\ UNCHANGED <<opened, key, live, reads, handles, quiet, exempt, served, tail, rollup, stop,
                     phase, recovered>>
  BY DEF WriteFails, Kept, Step
<1>2. /\ flush' \in [Pass -> Passes]
      /\ flush'[p].rows = {} /\ flush'[p].closing = {}
      /\ \A s \in Session : flush'[p].claims[s] = 0 /\ Free(flush'[p], s)
      /\ \A q \in Pass : q # p => flush'[q] = flush[q]
      /\ PassesSound'
  BY <1>1, Settled
<1>3. /\ flush[p].closing \subseteq 1 .. opened /\ flush[p].closing \cap live = {}
      /\ flush \in [Pass -> Passes] /\ flush[p] \in Passes
      /\ \A s \in Session : s \notin flush[p].rows \cup flush[p].closing => Free(flush[p], s)
  BY DEF IInv, PassesSound, Shape
<1>4. TypeOK' /\ Shape'
  BY <1>1, <1>2, <1>3 DEF IInv, TypeOK, Shape
<1>5. KeysSound'
  <2>1. \A s \in Session : s > opened =>
           pending[s] = 0 /\ handles[s] = 0 /\ \A q \in Pass : Free(flush[q], s)
    BY DEF IInv, KeysSound
  <2>2. \A s \in Session : s > opened => pending'[s] = 0
    BY <2>1 DEF Free
  <2>3. \A s \in Session : s > opened => \A q \in Pass : Free(flush'[q], s)
    BY <1>2, <2>1
  <2> QED BY <1>1, <2>1, <2>2, <2>3 DEF IInv, KeysSound
<1>6. ReadsSound'
  BY <1>1 DEF IInv, ReadsSound
<1>7. RowsFollow'
  <2> SUFFICES ASSUME phase' = "up" PROVE flush'["task"].rows \subseteq live' \cup finalised'
    BY DEF RowsFollow
  <2>1. p = "task"
    BY <1>1, PassOfTask
  <2> QED BY <1>2, <2>1
<1>8. TailsSound'
  <2> SUFFICES ASSUME phase' # "exiting", NEW s \in Session, s \notin live' \cup finalised'
               PROVE  pending'[s] <= tail'[s]
    BY DEF TailsSound
  <2>1. phase = "up"
    BY <1>1 DEF IInv, Shape
  <2>2. flush[p].rows \subseteq live \cup finalised
    BY <2>1, PassOfTask
  <2>3. s \notin live \cup finalised /\ Free(flush[p], s)
    BY <1>1, <1>3, <2>2
  <2>4. pending[s] <= tail[s] /\ pending[s] \in Nat /\ tail[s] \in Nat
    BY <2>1, <2>3 DEF IInv, TailsSound, TypeOK
  <2>5. pending'[s] = pending[s] + (0 + 0)
    BY <2>3 DEF Free
  <2> QED BY <1>1, <2>4, <2>5
<1>9. RowsOwned'
  <2> SUFFICES ASSUME phase' = "up", recovered', NEW s \in Session, row'[s] = "active"
               PROVE  Owned(s)'
    BY DEF RowsOwned
  <2>1. CASE row[s] = "active"
    <3>1. Owned(s)
      BY <1>1, <2>1 DEF IInv, RowsOwned
    <3>2. \A q \in Pass : s \in flush[q].closing => s \in finalised' \/ s \in flush'[q].closing
      BY <1>1, <1>2
    <3> QED BY <1>1, <3>1, <3>2 DEF Owned
  <2>2. CASE s \in flush[p].rows
    BY <1>1, <2>2, PassOfTask DEF Owned
  <2> QED BY <2>1, <2>2
<1>10. LimitHeld'
  BY <1>1, LimitShrinks
<1>11. Balanced'
  <2> SUFFICES ASSUME NEW u \in User
               PROVE  Even(u, key', pending', flush', rollup', served', twice')
    BY <1>4, Balance
  <2> DEFINE m == Watches(key, u)
  <2>1. /\ Even(u, key, pending, flush, rollup, served, twice)
        /\ m \subseteq Session /\ IsFiniteSet(m) /\ SumOf(pending, m) \in Nat
        /\ \A q \in Pass : SumOf(flush[q].claims, m) \in Nat
        /\ rollup[u] \in Nat /\ served[u] \in Nat /\ twice[u] \in Nat
    BY UserEven
  <2>2. twice'[u] = twice[u] + SumOf(flush[p].wrote, m)
    BY SumsAreSums
  <2> HIDE DEF m
  <2>3. PICK held : held = [s \in Session |-> flush[p].claims[s] + flush[p].wrote[s]]
    OBVIOUS
  <2>4. \A x \in m : /\ pending[x] \in Nat /\ flush[p].claims[x] \in Nat /\ flush[p].wrote[x] \in Nat
                     /\ held[x] \in Nat /\ held[x] = flush[p].claims[x] + flush[p].wrote[x]
                     /\ pending'[x] = pending[x] + held[x]
    <3>1. ASSUME NEW x \in m
          PROVE  /\ pending[x] \in Nat /\ flush[p].claims[x] \in Nat /\ flush[p].wrote[x] \in Nat
                 /\ held[x] = flush[p].claims[x] + flush[p].wrote[x]
                 /\ pending'[x] = pending[x] + (flush[p].claims[x] + flush[p].wrote[x])
      BY <1>3, <2>1, <2>3 DEF IInv, TypeOK, Passes
    <3> QED BY <3>1
  <2>5. /\ SumOf(held, m) = SumOf(flush[p].claims, m) + SumOf(flush[p].wrote, m)
        /\ SumOf(flush[p].wrote, m) \in Nat
    BY <2>1, <2>4, SumPlus, SumType
  <2>6. SumOf(pending', m) = SumOf(pending, m) + SumOf(held, m)
    BY <2>1, <2>4, SumPlus
  <2>7. SumOf(flush'[p].claims, m) = 0
    <3>1. \A x \in m : flush'[p].claims[x] = 0
      BY <1>2, <2>1
    <3> QED BY <2>1, <3>1, SumZero
  <2>8. \A q \in Pass : q # p => SumOf(flush'[q].claims, m) = SumOf(flush[q].claims, m)
    BY <1>2, Zenon
  <2>9. (p = "task" \/ p = "exit") /\ "task" \in Pass /\ "exit" \in Pass
    BY DEF Pass
  <2>10. served[u] + twice[u] = rollup[u] + SumOf(pending, m)
                                  + (SumOf(flush["task"].claims, m) + SumOf(flush["exit"].claims, m))
    BY <2>1 DEF Even, m
  <2>11. SumOf(flush["task"].claims, m) \in Nat /\ SumOf(flush["exit"].claims, m) \in Nat
    BY <2>1, <2>9
  <2>12. served[u] + twice'[u] = rollup[u] + SumOf(pending', m)
                                   + (SumOf(flush'["task"].claims, m) + SumOf(flush'["exit"].claims, m))
    <3>1. CASE p = "task"
      <4>1. SumOf(flush'["exit"].claims, m) = SumOf(flush["exit"].claims, m)
        BY <2>8, <2>9, <3>1
      <4> QED BY <2>1, <2>2, <2>5, <2>6, <2>7, <2>10, <2>11, <3>1, <4>1
    <3>2. CASE p = "exit"
      <4>1. SumOf(flush'["task"].claims, m) = SumOf(flush["task"].claims, m)
        BY <2>8, <2>9, <3>2
      <4> QED BY <2>1, <2>2, <2>5, <2>6, <2>7, <2>10, <2>11, <3>2, <4>1
    <3> QED BY <2>9, <3>1, <3>2
  <2> QED BY <1>1, <2>12 DEF Even, m
<1> QED BY <1>2, <1>4, <1>5, <1>6, <1>7, <1>8, <1>9, <1>10, <1>11 DEF IInv

\* What a pass wrote of a user's chunks is a number.
LEMMA WroteType ==
    ASSUME IInv, NEW p \in Pass, NEW u \in User
    PROVE  /\ SumOver(flush[p].wrote, Watches(key, u)) \in Nat
           /\ (\A s \in Session : flush[p].wrote[s] = 0) => SumOver(flush[p].wrote, Watches(key, u)) = 0
<1>1. Watches(key, u) \subseteq Session /\ IsFiniteSet(Watches(key, u))
  BY UserEven
<1>2. \A x \in Watches(key, u) : flush[p].wrote[x] \in Nat
  BY <1>1 DEF IInv, Shape, Passes
<1>3. SumOf(flush[p].wrote, Watches(key, u)) \in Nat
  BY <1>1, <1>2, SumType
<1>4. (\A s \in Session : flush[p].wrote[s] = 0) => SumOf(flush[p].wrote, Watches(key, u)) = 0
  BY <1>1, SumZero
<1> QED BY <1>3, <1>4, SumsAreSums

\* The bytes could not be written, or not all of them.
LEMMA BytesFailStep ==
    ASSUME IInv, NEW p \in Pass, BytesFail(p)
    PROVE  IInv'
<1>1. /\ flush[p].pc = "bandwidth" /\ phase # "down" /\ WriteFails(p) /\ row' = row
      /\ pending' = [s \in Session |-> pending[s] + (flush[p].claims[s] + flush[p].wrote[s])]
      /\ twice' = [u \in User |-> twice[u] + SumOver(flush[p].wrote, Watches(key, u))]
  <2>1. Restored(p) = [s \in Session |-> pending[s] + (flush[p].claims[s] + flush[p].wrote[s])]
    BY DEF Restored, Plus
  <2> QED BY <2>1 DEF BytesFail, In, Running, Mine, Watches
<1>2. ASSUME NEW s \in Session
      PROVE  /\ pending'[s] = pending[s] + (flush[p].claims[s] + flush[p].wrote[s])
             /\ pending[s] + (flush[p].claims[s] + flush[p].wrote[s]) \in Nat
  <2>1. pending[s] \in Nat /\ flush[p].claims[s] \in Nat /\ flush[p].wrote[s] \in Nat
    BY DEF IInv, TypeOK, Shape, Passes
  <2> QED BY <1>1, <2>1
<1>3. pending' \in [Session -> Nat]
  BY <1>1, <1>2
<1>4. ASSUME NEW u \in User
      PROVE  /\ twice'[u] = twice[u] + SumOver(flush[p].wrote, Watches(key, u))
             /\ twice[u] + SumOver(flush[p].wrote, Watches(key, u)) \in Nat
  <2>1. twice[u] \in Nat /\ SumOver(flush[p].wrote, Watches(key, u)) \in Nat
    BY UserEven, WroteType
  <2> QED BY <1>1, <2>1
<1>5. twice' \in [User -> Nat]
  BY <1>1, <1>4
<1>6. /\ row' \in [Session -> {"none", "active", "ended"}]
      /\ \A s \in Session : row'[s] = "active" => row[s] = "active" \/ s \in flush[p].rows
  BY <1>1 DEF IInv, TypeOK
<1> QED BY <1>1, <1>2, <1>3, <1>4, <1>5, <1>6, FailStep

\* Some of the rows could not be written.
LEMMA RowsFailStep ==
    ASSUME IInv, NEW p \in Pass, RowsFail(p)
    PROVE  IInv'
<1>1. flush[p].pc = "upsert" /\ phase # "down" /\ WriteFails(p) /\ pending' = pending /\ twice' = twice
  BY DEF RowsFail, In, Running
<1>2. PICK done \in SUBSET (flush[p].rows \cup flush[p].closing) : row' = Written(p, done)
  BY DEF RowsFail
<1>3. done \in SUBSET Session
  BY DEF IInv, Shape, Passes
<1>4. /\ row' \in [Session -> {"none", "active", "ended"}]
      /\ \A s \in Session : row'[s] = "active" =>
            \/ s \in done /\ s \notin flush[p].closing
            \/ s \notin done /\ row[s] = "active"
  BY <1>2, <1>3, WrittenRows
<1>5. \A s \in Session : row'[s] = "active" => row[s] = "active" \/ s \in flush[p].rows
  BY <1>4
<1>6. \A s \in Session : flush[p].claims[s] = 0 /\ flush[p].wrote[s] = 0
  BY <1>1 DEF IInv, PassesSound, Free
<1>7. /\ pending' \in [Session -> Nat]
      /\ \A s \in Session : pending'[s] = pending[s] + (flush[p].claims[s] + flush[p].wrote[s])
  <2>1. pending \in [Session -> Nat]
    BY DEF IInv, TypeOK
  <2> QED BY <1>1, <1>6, <2>1
<1>8. /\ twice' \in [User -> Nat]
      /\ \A u \in User : twice'[u] = twice[u] + SumOver(flush[p].wrote, Watches(key, u))
  <2>1. twice \in [User -> Nat]
    BY DEF IInv, TypeOK
  <2>2. \A u \in User : SumOver(flush[p].wrote, Watches(key, u)) = 0
    BY <1>6, WroteType
  <2> QED BY <1>1, <2>1, <2>2
<1> QED BY <1>1, <1>4, <1>5, <1>7, <1>8, FailStep

\* upsertMany: the rows are what the pass took, and what it closes is done with.
LEMMA WriteRowsStep ==
    ASSUME IInv, NEW p \in Pass, WriteRows(p)
    PROVE  IInv'
<1> DEFINE done == flush[p].rows \cup flush[p].closing
<1>1. /\ flush[p].pc = "upsert" /\ phase # "down" /\ row' = Written(p, done) /\ stop' = stop
      /\ flush' = [flush EXCEPT ![p] = [NoFlush EXCEPT !.pc = "refresh"]]
      /\ UNCHANGED <<opened, key, live, finalised, reads, handles, quiet, exempt>>
      /\ UNCHANGED <<pending, served, twice, tail, rollup, phase, recovered>>
  BY DEF WriteRows, In, Running, Step, FlagsAfter, bytes, registry
<1>2. /\ flush' \in [Pass -> Passes]
      /\ flush'[p].rows = {} /\ flush'[p].closing = {}
      /\ \A s \in Session : flush'[p].claims[s] = 0 /\ Free(flush'[p], s)
      /\ \A q \in Pass : q # p => flush'[q] = flush[q]
      /\ PassesSound'
  BY <1>1, Settled
<1>3. done \in SUBSET Session
  BY DEF IInv, Shape, Passes
<1>4. /\ row' \in [Session -> {"none", "active", "ended"}]
      /\ \A s \in Session : row'[s] = "active" =>
            \/ s \in done /\ s \notin flush[p].closing
            \/ s \notin done /\ row[s] = "active"
  <2> HIDE DEF done
  <2> QED BY <1>1, <1>3, WrittenRows
<1>5. \A q \in Pass : \A s \in Session : flush'[q].claims[s] = flush[q].claims[s]
  <2> SUFFICES ASSUME NEW q \in Pass, NEW s \in Session
               PROVE  flush'[q].claims[s] = flush[q].claims[s]
    OBVIOUS
  <2>1. CASE q = p
    <3>1. flush[p].claims[s] = 0
      BY <1>1 DEF IInv, PassesSound, Free
    <3> QED BY <1>2, <2>1, <3>1
  <2>2. CASE q # p
    BY <1>2, <2>2
  <2> QED BY <2>1, <2>2
<1>6. TypeOK' /\ Shape'
  BY <1>1, <1>2, <1>4 DEF IInv, TypeOK, Shape
<1>7. KeysSound'
  <2>1. \A s \in Session : s > opened => \A q \in Pass : Free(flush'[q], s)
    BY <1>2 DEF IInv, KeysSound
  <2> QED BY <1>1, <2>1 DEF IInv, KeysSound
<1>8. ReadsSound' /\ TailsSound'
  BY <1>1 DEF IInv, ReadsSound, TailsSound
<1>9. RowsFollow'
  <2> SUFFICES ASSUME phase' = "up" PROVE flush'["task"].rows \subseteq live' \cup finalised'
    BY DEF RowsFollow
  <2>1. p = "task"
    BY <1>1, PassOfTask
  <2> QED BY <1>2, <2>1
<1>10. RowsOwned'
  <2> SUFFICES ASSUME phase' = "up", recovered', NEW s \in Session, row'[s] = "active"
               PROVE  Owned(s)'
    BY DEF RowsOwned
  <2>1. CASE s \in done /\ s \notin flush[p].closing
    BY <1>1, <2>1, PassOfTask DEF Owned
  <2>2. CASE s \notin done /\ row[s] = "active"
    <3>1. Owned(s)
      BY <1>1, <2>2 DEF IInv, RowsOwned
    <3>2. \A q \in Pass : s \in flush[q].closing => s \in flush'[q].closing
      BY <1>2, <2>2
    <3> QED BY <1>1, <3>1, <3>2 DEF Owned
  <2> QED BY <1>4, <2>1, <2>2
<1>11. LimitHeld'
  BY <1>1, LimitShrinks
<1>12. Balanced'
  BY <1>1, <1>5, <1>6, NothingMoves
<1> QED BY <1>2, <1>6, <1>7, <1>8, <1>9, <1>10, <1>11, <1>12 DEF IInv

----------------------------------------------------------------------------
(* The invariant *)

\* Nothing is open, served or written at first.
LEMMA InitInv == Init => IInv
<1> SUFFICES ASSUME Init PROVE IInv
  OBVIOUS
<1>1. /\ opened = 0 /\ key = [s \in Session |-> None]
      /\ live = {} /\ finalised = {} /\ exempt = {} /\ quiet = {} /\ stop = {}
      /\ reads = Nothing /\ handles = Nothing /\ pending = Nothing /\ tail = Nothing
      /\ served = [u \in User |-> 0] /\ twice = served /\ rollup = served
      /\ row = [s \in Session |-> "none"] /\ flush = [p \in Pass |-> NoFlush]
      /\ phase = "up" /\ recovered = TRUE
  BY DEF Init
<1>2. /\ flush \in [Pass -> Passes] /\ \A p \in Pass : flush[p] = NoFlush
      /\ Nothing \in [Session -> 0 .. MaxReads] /\ Nothing \in [Session -> Nat]
      /\ 0 \in 0 .. MaxSessions
  BY <1>1, IdlePass, Bounds DEF Nothing
<1>3. TypeOK /\ Shape
  BY <1>1, <1>2 DEF TypeOK, Shape
<1>4. KeysSound /\ ReadsSound
  <2>1. 1 .. opened = {}
    BY <1>1
  <2> QED BY <1>1, <1>2, <2>1, IdlePass DEF KeysSound, ReadsSound
<1>5. PassesSound /\ RowsFollow /\ RowsOwned /\ TailsSound
  <2>1. "task" \in Pass /\ "exit" \in Pass
    BY DEF Pass
  <2>2. \A s \in Session : pending[s] <= tail[s]
    BY <1>1, IdlePass
  <2> QED BY <1>1, <1>2, <2>1, <2>2, IdlePass DEF PassesSound, RowsFollow, RowsOwned, TailsSound
<1>6. LimitHeld
  <2> SUFFICES ASSUME NEW u \in Identified PROVE Cardinality(Serving(u) \ exempt) <= Limit
    BY DEF LimitHeld
  <2>1. Serving(u) \ exempt = {}
    BY <1>1 DEF Serving, Of
  <2>2. Cardinality({}) = 0
    BY FS_EmptySet
  <2> QED BY <2>1, <2>2, Bounds
<1>7. Balanced
  <2> SUFFICES ASSUME NEW u \in User
               PROVE  Even(u, key, pending, flush, rollup, served, twice)
    BY <1>3, Balance
  <2>1. served[u] + twice[u] = rollup[u] /\ rollup \in [User -> Nat]
    BY <1>1
  <2> QED BY <1>1, <2>1, EvenAtRest
<1> QED BY <1>3, <1>4, <1>5, <1>6, <1>7 DEF IInv

\* Every step keeps the inductive invariant.
LEMMA NextInv == IInv /\ [Next]_vars => IInv'
<1> SUFFICES ASSUME IInv, [Next]_vars PROVE IInv'
  OBVIOUS
<1>1. ASSUME NEW s \in Session,
             AddBytes(s) \/ Close(s) \/ Silence(s) \/ Kill(s) \/ RequestStop(s) \/ EndSilent(s)
      PROVE  IInv'
  BY <1>1, AddBytesStep, CloseStep, SilenceStep, KillStep, RequestStopStep, EndSilentStep
<1>2. ASSUME NEW share \in BOOLEAN, NEW s \in Session, Join(s, share) PROVE IInv'
  BY <1>2, JoinStep
<1>3. ASSUME NEW share \in BOOLEAN, NEW k \in Key, Open(k, share) PROVE IInv'
  BY <1>3, OpenStep
<1>4. ASSUME NEW p \in Pass, FlushStep(p) PROVE IInv'
  BY <1>4, WriteBytesStep, BytesFailStep, WriteRowsStep, RowsFailStep, RefreshStep, ApplyStopsStep DEF FlushStep
<1>5. CASE FlushStarts \/ Exit
  BY <1>5, FlushStartsStep, ExitStep
<1>6. CASE Exited \/ Crash
  BY <1>6, DownStep DEF Exited, Crash
<1>7. CASE Boot
  BY <1>7, BootStep
<1>8. CASE UNCHANGED vars
  <2>1. UNCHANGED <<registry, bytes, flush, phase, recovered, row, stop>>
    BY <1>8 DEF vars, registry, bytes
  <2>2. row \in [Session -> {"none", "active", "ended"}] /\ stop \subseteq Session
    BY DEF IInv, TypeOK
  <2> QED BY <2>1, <2>2, RowStep
<1> QED BY <1>1, <1>2, <1>3, <1>4, <1>5, <1>6, <1>7, <1>8 DEF Next

\* IInv always holds.
THEOREM Invariance == Spec => []IInv
<1>1. Init => IInv
  BY InitInv
<1>2. IInv /\ [Next]_vars => IInv'
  BY NextInv
<1> QED BY <1>1, <1>2, PTL DEF Spec

\* Whatever statements fail and processes end, an active row of a process that
\* closed the rows of its past belongs to a session that lives or is still to
\* be written: none stays open for good.
THEOREM SessionsAlwaysSound == Spec => []SessionsSound
<1>1. IInv => SessionsSound
  BY DEF IInv, SessionsSound
<1> QED BY <1>1, Invariance, PTL

\* Every chunk served is in the rollup, in the hands of one pass, or pending,
\* once for all of them but those a pass that failed between two statements
\* will write again; and what is pending of a session that no pass will take
\* any more came after its end.
THEOREM BytesAlwaysCounted == Spec => []BytesCounted
<1>1. IInv => BytesCounted
  <2> SUFFICES ASSUME IInv PROVE OnlyTailsLost
    BY DEF IInv, BytesCounted
  <2> QED BY DEF IInv, TailsSound, OnlyTailsLost, Owned
<1> QED BY <1>1, Invariance, PTL

\* The sessions of an identified user that are read and that the limit was
\* held against, on opening or on resuming after the grace, are within it.
THEOREM OnlyExemptPass == Spec => []LimitHeld
<1>1. IInv => LimitHeld
  BY DEF IInv
<1> QED BY <1>1, Invariance, PTL

================================================================================
