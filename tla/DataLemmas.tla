------------------------------- MODULE DataLemmas -------------------------------
(***************************************************************************)
(* Facts about natural numbers, finite sets, sequences and sums that the   *)
(* proofs of several components need.  The induction principles are stated *)
(* over the set of the cases that hold, so that a proof can instantiate    *)
(* them.                                                                   *)
(***************************************************************************)
EXTENDS Integers, Sequences, SequencesExt, SubSequences, FiniteSetTheorems, SequenceTheorems,
        WellFoundedInduction, TLAPS

--------------------------------------------------------------------------------
(* Induction *)

\* What holds of 0 and of every successor holds of every natural number.
LEMMA NatInductive ==
  ASSUME NEW G, 0 \in G, \A n \in Nat : n \in G => n + 1 \in G
  PROVE  Nat \subseteq G
<1> DEFINE Bad == Nat \ G
<1> SUFFICES ASSUME Bad # {} PROVE FALSE
  OBVIOUS
<1>1. Bad \subseteq Nat
  OBVIOUS
<1> HIDE DEF Bad
<1>2. PICK n \in Bad : \A m \in Bad : ~(<<m, n>> \in OpToRel(<, Nat))
  BY <1>1, WFMin, NatLessThanWellFounded
<1>3. n \in Nat /\ n \notin G
  BY DEF Bad
<1>4. n # 0 /\ n - 1 \in Nat /\ (n - 1) + 1 = n
  BY <1>3
<1>5. n - 1 \in Bad
  BY <1>3, <1>4 DEF Bad
<1>6. <<n - 1, n>> \in OpToRel(<, Nat)
  BY <1>3, <1>4 DEF OpToRel
<1> QED BY <1>2, <1>5, <1>6

\* What holds of a set whenever it holds of its strict subsets holds of every
\* subset of a finite set.
LEMMA SubsetInduction ==
  ASSUME NEW S, IsFiniteSet(S), NEW G,
         \A T \in SUBSET S : (\A U \in SUBSET T : U # T => U \in G) => T \in G
  PROVE  SUBSET S \subseteq G
<1> DEFINE Bad == (SUBSET S) \ G
<1> SUFFICES ASSUME Bad # {} PROVE FALSE
  OBVIOUS
<1>1. IsWellFoundedOn(StrictSubsetOrdering(S), SUBSET S)
  <2>1. FiniteSubsetsOf(S) = SUBSET S
    BY FS_FiniteSubsetsOfFinite, Zenon
  <2>2. IsWellFoundedOn(StrictSubsetOrdering(S), FiniteSubsetsOf(S))
    BY FS_StrictSubsetOrderingWellFounded, Zenon
  <2> QED BY <2>1, <2>2, Zenon
<1>2. Bad \subseteq SUBSET S
  OBVIOUS
<1> HIDE DEF Bad
<1>3. PICK T \in Bad : \A U \in Bad : ~(<<U, T>> \in StrictSubsetOrdering(S))
  BY <1>1, <1>2, WFMin
<1>4. T \in SUBSET S /\ T \notin G
  BY DEF Bad
<1>5. ASSUME NEW U \in SUBSET T, U # T PROVE U \in G
  BY <1>3, <1>4, <1>5 DEF Bad, StrictSubsetOrdering
<1> QED BY <1>4, <1>5

\* The first position of a sequence at which G holds, or the one behind its end.
LEMMA FirstWith ==
  ASSUME NEW n \in Nat, NEW G
  PROVE  \E m \in 1..(n + 1) : (\A i \in 1..n : i \in G => m <= i) /\ (m <= n => m \in G)
<1> DEFINE B == {i \in 1..(n + 1) : i = n + 1 \/ i \in G}
<1>1. B \subseteq Nat /\ B # {}
  OBVIOUS
<1>2. \A i \in B : i \in 1..(n + 1)
  OBVIOUS
<1>3. \A i \in 1..(n + 1) : i \in B <=> i = n + 1 \/ i \in G
  OBVIOUS
<1> HIDE DEF B
<1>4. PICK m \in B : \A i \in B : ~(<<i, m>> \in OpToRel(<, Nat))
  BY <1>1, WFMin, NatLessThanWellFounded
<1>5. \A i \in B : m <= i
  <2> SUFFICES ASSUME NEW i \in B PROVE m <= i
    OBVIOUS
  <2>1. ~(<<i, m>> \in OpToRel(<, Nat))
    BY <1>4
  <2>2. i \in Nat /\ m \in Nat
    BY <1>1
  <2>3. ~(i < m)
    BY <2>1, <2>2 DEF OpToRel
  <2> QED BY <2>2, <2>3
<1> QED BY <1>2, <1>3, <1>5

\* A finite set of integers that has members has a largest one.
LEMMA MaxFacts ==
  ASSUME NEW S, IsFiniteSet(S), S \subseteq Int, S # {}
  PROVE  Max(S) \in S /\ \A y \in S : Max(S) >= y
<1> DEFINE Largest(T) == \E x \in T : \A y \in T : x >= y
           G == {T \in SUBSET S : T # {} => Largest(T)}
<1>1. ASSUME NEW T \in SUBSET S, \A U \in SUBSET T : U # T => U \in G
      PROVE  T \in G
  <2> SUFFICES ASSUME T # {} PROVE Largest(T)
    OBVIOUS
  <2> PICK x \in T : TRUE
    OBVIOUS
  <2>1. T \ {x} # {} => Largest(T \ {x})
    <3>1. T \ {x} \in SUBSET T /\ T \ {x} # T
      OBVIOUS
    <3>2. T \ {x} \in G
      BY <1>1, <3>1, Zenon
    <3> QED BY <3>2, Zenon
  <2>2. CASE T \ {x} = {}
    BY <2>2
  <2>3. CASE T \ {x} # {}
    <3> PICK z \in T \ {x} : \A y \in T \ {x} : z >= y
      BY <2>1, <2>3
    <3>1. CASE x >= z
      BY <3>1
    <3>2. CASE ~(x >= z)
      BY <3>2
    <3> QED BY <3>1, <3>2
  <2> QED BY <2>2, <2>3
<1> HIDE DEF G
<1>2. SUBSET S \subseteq G
  BY <1>1, SubsetInduction, Zenon
<1>3. \E x \in S : \A y \in S : x >= y
  BY <1>2 DEF G
<1> QED BY <1>3 DEF Max

--------------------------------------------------------------------------------
(* Sequences *)

\* What a sequence holds is what stands at its positions.
LEMMA RangeMembers == \A q : Range(q) = {q[i] : i \in DOMAIN q}
BY DEF Range

\* push: the old elements keep their places and the new one comes last.
LEMMA AppendFacts ==
  ASSUME NEW S, NEW q \in Seq(S), NEW e \in S
  PROVE  /\ Append(q, e) \in Seq(S)
         /\ DOMAIN Append(q, e) = 1..(Len(q) + 1) /\ DOMAIN q = 1..Len(q) /\ Len(q) \in Nat
         /\ \A i \in 1..Len(q) : Append(q, e)[i] = q[i]
         /\ Append(q, e)[Len(q) + 1] = e
         /\ Range(Append(q, e)) = Range(q) \union {e}
<1>1. /\ Append(q, e) \in Seq(S)
      /\ DOMAIN Append(q, e) = 1..(Len(q) + 1) /\ DOMAIN q = 1..Len(q) /\ Len(q) \in Nat
      /\ \A i \in 1..Len(q) : Append(q, e)[i] = q[i]
      /\ Append(q, e)[Len(q) + 1] = e
  OBVIOUS
<1>2. \A i \in 1..(Len(q) + 1) : i = Len(q) + 1 \/ i \in 1..Len(q)
  BY <1>1
<1>3. Len(q) + 1 \in 1..(Len(q) + 1) /\ 1..Len(q) \subseteq 1..(Len(q) + 1)
  BY <1>1
<1>4. Range(Append(q, e)) = Range(q) \union {e}
  BY <1>1, <1>2, <1>3, RangeMembers
<1> QED BY <1>1, <1>4

\* Array.prototype.splice(i, 0, e): e enters at i, the rest keep their order.
LEMMA InsertAtProperties ==
  ASSUME NEW S, NEW s \in Seq(S), NEW e \in S, NEW i \in 1..(Len(s) + 1)
  PROVE  /\ InsertAt(s, i, e) \in Seq(S)
         /\ Len(InsertAt(s, i, e)) = Len(s) + 1
         /\ \A j \in 1..(Len(s) + 1) :
              InsertAt(s, i, e)[j] = IF j < i THEN s[j] ELSE IF j = i THEN e ELSE s[j - 1]
<1>0. Len(s) \in Nat /\ i \in Nat
  BY LenProperties
<1> DEFINE a == SubSeq(s, 1, i - 1)
           b == SubSeq(s, i, Len(s))
           m == a \o <<e>>
<1>1. /\ a \in Seq(S) /\ Len(a) = i - 1
      /\ \A j \in 1..(i - 1) : a[j] = s[j]
  <2>1. \A j \in 1..(i - 1) : s[j] \in S
    BY <1>0, ElementOfSeq
  <2> QED BY <2>1, <1>0, SubSeqProperties
<1>2. /\ b \in Seq(S) /\ Len(b) = Len(s) - i + 1
      /\ \A j \in 1..(Len(s) - i + 1) : b[j] = s[i + j - 1]
  <2>1. \A j \in i..Len(s) : s[j] \in S
    BY <1>0, ElementOfSeq
  <2>2. /\ b \in Seq(S)
        /\ Len(b) = IF i <= Len(s) THEN Len(s) - i + 1 ELSE 0
        /\ \A j \in 1..(Len(s) - i + 1) : b[j] = s[i + j - 1]
    BY <2>1, <1>0, SubSeqProperties
  <2> QED BY <2>2, <1>0
<1>3. /\ m \in Seq(S) /\ Len(m) = i
      /\ \A j \in 1..i : m[j] = IF j < i THEN s[j] ELSE e
  <2>1. <<e>> \in Seq(S) /\ Len(<<e>>) = 1 /\ <<e>>[1] = e
    OBVIOUS
  <2>2. /\ m \in Seq(S) /\ Len(m) = Len(a) + 1
        /\ \A j \in 1..(Len(a) + 1) : m[j] = IF j <= Len(a) THEN a[j] ELSE <<e>>[j - Len(a)]
    BY <2>1, <1>1, ConcatProperties
  <2> HIDE DEF a, m
  <2>3. Len(m) = i
    BY <2>2, <1>0, <1>1
  <2>4. ASSUME NEW j \in 1..i
        PROVE  m[j] = IF j < i THEN s[j] ELSE e
    <3>1. j \in 1..(Len(a) + 1) /\ (j <= Len(a) <=> j < i) /\ (j < i => j \in 1..(i - 1)) /\ (~(j < i) => j - Len(a) = 1)
      BY <1>0, <1>1
    <3>2. m[j] = IF j <= Len(a) THEN a[j] ELSE <<e>>[j - Len(a)]
      BY <2>2, <3>1
    <3> QED BY <2>1, <3>1, <3>2, <1>1
  <2> QED BY <2>2, <2>3, <2>4
<1>4. /\ m \o b \in Seq(S)
      /\ Len(m \o b) = Len(m) + Len(b)
      /\ \A j \in 1..(Len(m) + Len(b)) : (m \o b)[j] = IF j <= Len(m) THEN m[j] ELSE b[j - Len(m)]
  BY <1>3, <1>2, ConcatProperties, ZenonT(30)
<1>5. InsertAt(s, i, e) = m \o b
  BY DEF InsertAt
<1> HIDE DEF m, b
<1>6. ASSUME NEW j \in 1..(Len(s) + 1)
      PROVE  (m \o b)[j] = IF j < i THEN s[j] ELSE IF j = i THEN e ELSE s[j - 1]
  <2>1. (m \o b)[j] = IF j <= i THEN m[j] ELSE b[j - i]
    BY <1>0, <1>2, <1>3, <1>4
  <2>2. CASE j <= i
    BY <2>1, <2>2, <1>0, <1>3
  <2>3. CASE ~(j <= i)
    <3>1. j - i \in 1..(Len(s) - i + 1) /\ i + (j - i) - 1 = j - 1
      BY <2>3, <1>0
    <3> QED BY <3>1, <2>1, <2>3, <1>0, <1>2
  <2> QED BY <2>2, <2>3
<1> QED BY <1>0, <1>2, <1>3, <1>4, <1>5, <1>6

\* One element leaves, the rest keep their order.
LEMMA RemoveAtProperties ==
  ASSUME NEW S, NEW s \in Seq(S), NEW i \in 1..Len(s)
  PROVE  /\ RemoveAt(s, i) \in Seq(S)
         /\ Len(RemoveAt(s, i)) = Len(s) - 1
         /\ \A j \in 1..(Len(s) - 1) : RemoveAt(s, i)[j] = IF j < i THEN s[j] ELSE s[j + 1]
<1>0. Len(s) \in Nat /\ i \in Nat
  BY LenProperties
<1> DEFINE a == SubSeq(s, 1, i - 1)
           b == SubSeq(s, i + 1, Len(s))
<1>1. /\ a \in Seq(S) /\ Len(a) = i - 1
      /\ \A j \in 1..(i - 1) : a[j] = s[j]
  <2>1. \A j \in 1..(i - 1) : s[j] \in S
    BY <1>0, ElementOfSeq
  <2> QED BY <2>1, <1>0, SubSeqProperties
<1>2. /\ b \in Seq(S) /\ Len(b) = Len(s) - i
      /\ \A j \in 1..(Len(s) - i) : b[j] = s[i + j]
  <2>1. \A j \in (i + 1)..Len(s) : s[j] \in S
    BY <1>0, ElementOfSeq
  <2>2. /\ b \in Seq(S)
        /\ Len(b) = IF i + 1 <= Len(s) THEN Len(s) - (i + 1) + 1 ELSE 0
        /\ \A j \in 1..(Len(s) - (i + 1) + 1) : b[j] = s[(i + 1) + j - 1]
    BY <2>1, <1>0, SubSeqProperties
  <2> QED BY <2>2, <1>0
<1>3. RemoveAt(s, i) = a \o b
  BY DEF RemoveAt
<1>4. /\ a \o b \in Seq(S)
      /\ Len(a \o b) = Len(a) + Len(b)
      /\ \A j \in 1..(Len(a) + Len(b)) : (a \o b)[j] = IF j <= Len(a) THEN a[j] ELSE b[j - Len(a)]
  BY <1>1, <1>2, ConcatProperties
<1> HIDE DEF a, b
<1>5. ASSUME NEW j \in 1..(Len(s) - 1)
      PROVE  (a \o b)[j] = IF j < i THEN s[j] ELSE s[j + 1]
  <2>1. (a \o b)[j] = IF j <= i - 1 THEN a[j] ELSE b[j - (i - 1)]
    BY <1>0, <1>1, <1>2, <1>4
  <2>2. CASE j < i
    BY <2>1, <2>2, <1>0, <1>1
  <2>3. CASE ~(j < i)
    <3>1. j - (i - 1) \in 1..(Len(s) - i) /\ i + (j - (i - 1)) = j + 1
      BY <2>3, <1>0
    <3> QED BY <3>1, <2>1, <2>3, <1>0, <1>2
  <2> QED BY <2>2, <2>3
<1> QED BY <1>0, <1>1, <1>2, <1>3, <1>4, <1>5

Distinct(q) == \A i, j \in DOMAIN q : q[i] = q[j] => i = j

\* A new element at the end keeps a sequence free of repetitions.
LEMMA AppendDistinct ==
  ASSUME NEW S, NEW q \in Seq(S), NEW e \in S, Distinct(q), e \notin Range(q)
  PROVE  Distinct(Append(q, e))
<1>1. /\ DOMAIN Append(q, e) = 1..(Len(q) + 1) /\ DOMAIN q = 1..Len(q) /\ Len(q) \in Nat
      /\ \A i \in 1..Len(q) : Append(q, e)[i] = q[i]
      /\ Append(q, e)[Len(q) + 1] = e
  BY AppendFacts
<1>2. \A i \in 1..Len(q) : q[i] # e
  BY <1>1, RangeMembers
<1>3. \A i \in 1..(Len(q) + 1) : i = Len(q) + 1 \/ i \in 1..Len(q)
  BY <1>1
<1>4. ASSUME NEW i \in 1..(Len(q) + 1), NEW j \in 1..(Len(q) + 1), Append(q, e)[i] = Append(q, e)[j]
      PROVE  i = j
  BY <1>1, <1>2, <1>3, <1>4, Zenon DEF Distinct
<1> QED BY <1>1, <1>4, Zenon DEF Distinct

\* One sequence after another.
LEMMA ConcatFacts ==
  ASSUME NEW S, NEW p \in Seq(S), NEW q \in Seq(S)
  PROVE  /\ p \o q \in Seq(S) /\ Range(p \o q) = Range(p) \union Range(q)
         /\ Distinct(p) /\ Distinct(q) /\ Range(p) \intersect Range(q) = {} => Distinct(p \o q)
<1> DEFINE m == Len(p)
           n == Len(q)
           w == p \o q
<1>1. m \in Nat /\ n \in Nat /\ DOMAIN p = 1..m /\ DOMAIN q = 1..n
  OBVIOUS
<1>2. /\ w \in Seq(S) /\ DOMAIN w = 1..(m + n)
      /\ \A i \in 1..m : w[i] = p[i]
      /\ \A i \in 1..n : w[m + i] = q[i]
  OBVIOUS
<1> HIDE DEF m, n, w
<1>3. \A i \in 1..(m + n) : i \in 1..m \/ (i - m \in 1..n /\ i = m + (i - m))
  BY <1>1
<1>4. (\A i \in 1..m : i \in 1..(m + n)) /\ (\A i \in 1..n : m + i \in 1..(m + n))
  BY <1>1
<1>5. Range(p) = {p[i] : i \in 1..m} /\ Range(q) = {q[i] : i \in 1..n} /\ Range(w) = {w[i] : i \in 1..(m + n)}
  BY <1>1, <1>2, RangeMembers, Zenon
<1>6. ASSUME NEW i \in 1..(m + n) PROVE \/ i \in 1..m /\ w[i] = p[i]
                                        \/ \E j \in 1..n : i = m + j /\ w[i] = q[j]
  BY <1>2, <1>3
<1>7. ASSUME NEW x \in Range(w) PROVE x \in Range(p) \union Range(q)
  <2>1. PICK i \in 1..(m + n) : x = w[i]
    BY <1>5
  <2> QED BY <1>5, <1>6, <2>1, Zenon
<1>8. ASSUME NEW x \in Range(p) \union Range(q) PROVE x \in Range(w)
  <2>1. CASE x \in Range(p)
    <3>1. PICK i \in 1..m : x = p[i]
      BY <1>5, <2>1
    <3> QED BY <1>2, <1>4, <1>5, <3>1, Zenon
  <2>2. CASE x \in Range(q)
    <3>1. PICK i \in 1..n : x = q[i]
      BY <1>5, <2>2
    <3>2. w[m + i] = x /\ m + i \in 1..(m + n)
      BY <1>2, <1>4, <3>1
    <3> QED BY <1>5, <3>2, Zenon
  <2> QED BY <2>1, <2>2
<1>9. ASSUME Distinct(p), Distinct(q), Range(p) \intersect Range(q) = {}
      PROVE  Distinct(w)
  <2> SUFFICES ASSUME NEW i \in 1..(m + n), NEW j \in 1..(m + n), w[i] = w[j]
               PROVE  i = j
    BY <1>2 DEF Distinct
  <2>1. CASE i \in 1..m /\ j \in 1..m
    BY <1>1, <1>2, <1>9, <2>1, Zenon DEF Distinct
  <2>2. CASE i \notin 1..m /\ j \notin 1..m
    <3>1. PICK k \in 1..n : i = m + k /\ w[i] = q[k]
      BY <1>6, <2>2
    <3>2. PICK l \in 1..n : j = m + l /\ w[j] = q[l]
      BY <1>6, <2>2
    <3>3. k = l
      BY <1>1, <1>9, <3>1, <3>2, Zenon DEF Distinct
    <3> QED BY <3>1, <3>2, <3>3, Zenon
  <2>3. CASE (i \in 1..m) # (j \in 1..m)
    <3>1. ASSUME NEW k \in 1..(m + n), k \in 1..m PROVE w[k] \in Range(p)
      BY <1>2, <1>5, <3>1, Zenon
    <3>2. ASSUME NEW k \in 1..(m + n), k \notin 1..m PROVE w[k] \in Range(q)
      BY <1>5, <1>6, <3>2, Zenon
    <3> QED BY <1>9, <2>3, <3>1, <3>2
  <2> QED BY <2>1, <2>2, <2>3
<1> QED BY <1>2, <1>7, <1>8, <1>9 DEF w

\* A finite set in some order.
LEMMA SetToSeqFacts ==
  ASSUME NEW S, IsFiniteSet(S)
  PROVE  /\ SetToSeq(S) \in Seq(S) /\ Range(SetToSeq(S)) = S /\ Distinct(SetToSeq(S))
<1>1. Cardinality(S) \in Nat /\ ExistsBijection(1..Cardinality(S), S)
  BY FS_CardinalityType
<1> DEFINE q == SetToSeq(S)
<1>2. q \in [1..Cardinality(S) -> S] /\ IsInjective(q)
  BY <1>1 DEF SetToSeq, ExistsBijection, Bijection, Injection
<1>3. q \in Seq(S)
  BY <1>1, <1>2, IsASeq
<1>4. Distinct(q)
  BY <1>2 DEF IsInjective, Distinct
<1>5. Range(q) = S
  <2>1. q \in Injection(1..Cardinality(S), S)
    BY <1>2 DEF Injection
  <2>2. q \in Surjection(1..Cardinality(S), S)
    <3> DEFINE n == Cardinality(S)
    <3>1. IsFiniteSet(1..n) /\ Cardinality(1..n) = n
      BY <1>1, FS_Interval
    <3> HIDE DEF n, q
    <3>2. q \in Injection(1..n, S)
      BY <2>1 DEF n
    <3>3. q \in Surjection(1..n, S)
      BY <3>1, <3>2, FS_Injection DEF n
    <3> QED BY <3>3 DEF n
  <2> QED BY <2>2, RangeMembers DEF Surjection
<1> QED BY <1>3, <1>4, <1>5

--------------------------------------------------------------------------------
(* What a filter keeps *)

\* The function Only is computed by.
OnlyStep(q, S, g, n) ==
  IF n = 0 THEN <<>> ELSE IF q[n] \in S THEN Append(g[n - 1], q[n]) ELSE g[n - 1]
IsOnly(q, S, m, g) == g = [n \in 0..m |-> OnlyStep(q, S, g, n)]
Onlys(q, S, m) == CHOOSE g : IsOnly(q, S, m, g)

\* A filter's result is the last value of that function.
LEMMA OnlyUnfold == \A q, S : Only(q, S) = Onlys(q, S, Len(q))[Len(q)]
BY DEF Only, Onlys, IsOnly, OnlyStep

\* It exists: each value is computed from the one before.
LEMMA OnlyExists ==
  ASSUME NEW q, NEW S, NEW N \in Nat
  PROVE  IsOnly(q, S, N, Onlys(q, S, N))
<1> DEFINE G == {m \in Nat : \E g : IsOnly(q, S, m, g)}
<1>1. 0 \in G
  <2> DEFINE g == [n \in 0..0 |-> <<>>]
  <2>1. g = [n \in 0..0 |-> OnlyStep(q, S, g, n)]
    BY DEF OnlyStep
  <2> QED BY <2>1 DEF IsOnly
<1>2. ASSUME NEW m \in Nat, m \in G
      PROVE  m + 1 \in G
  <2>1. PICK g : IsOnly(q, S, m, g)
    BY <1>2
  <2> DEFINE last == IF q[m + 1] \in S THEN Append(g[m], q[m + 1]) ELSE g[m]
             h == [n \in 0..(m + 1) |-> IF n = m + 1 THEN last ELSE g[n]]
  <2>2. ASSUME NEW n \in 0..(m + 1)
        PROVE  h[n] = OnlyStep(q, S, h, n)
    <3>1. CASE n = m + 1
      <4>1. h[n] = last /\ h[n - 1] = g[m] /\ n # 0 /\ q[n] = q[m + 1]
        BY <3>1
      <4> QED BY <4>1, <3>1 DEF OnlyStep
    <3>2. CASE n # m + 1
      <4>1. n \in 0..m /\ h[n] = g[n]
        BY <3>2
      <4>2. g[n] = OnlyStep(q, S, g, n)
        BY <2>1, <4>1 DEF IsOnly
      <4>3. n # 0 => n - 1 \in 0..(m + 1) /\ n - 1 # m + 1 /\ h[n - 1] = g[n - 1]
        BY <4>1
      <4> QED BY <4>1, <4>2, <4>3 DEF OnlyStep
    <3> QED BY <3>1, <3>2
  <2>3. h = [n \in 0..(m + 1) |-> h[n]]
    OBVIOUS
  <2> HIDE DEF h
  <2>4. IsOnly(q, S, m + 1, h)
    BY <2>2, <2>3 DEF IsOnly
  <2> QED BY <2>4
<1> HIDE DEF G
<1>3. Nat \subseteq G
  BY <1>1, <1>2, NatInductive, Zenon
<1> QED BY <1>3 DEF Onlys, G

\* x stands somewhere before y.
Before(q, x, y) == \E i, j \in DOMAIN q : i < j /\ q[i] = x /\ q[j] = y

\* h holds what is in S of the first n elements of q, in their order.
KeptOf(T, q, S, n, h) ==
  /\ h \in Seq(T) /\ Range(h) = {q[i] : i \in 1..n} \intersect S
  /\ \A i, j \in DOMAIN h : i < j => \E a, b \in 1..n : a < b /\ q[a] = h[i] /\ q[b] = h[j]

\* A filter keeps exactly what is in the set, in the order it had.
LEMMA OnlyFacts ==
  ASSUME NEW T, NEW q \in Seq(T), NEW S
  PROVE  /\ Only(q, S) \in Seq(T) /\ Range(Only(q, S)) = Range(q) \intersect S
         /\ \A x, y : Before(Only(q, S), x, y) => Before(q, x, y)
         /\ Distinct(q) => Distinct(Only(q, S))
<1> DEFINE g == Onlys(q, S, Len(q))
           Up(n) == {q[i] : i \in 1..n}
           Right(n) == KeptOf(T, q, S, n, g[n])
           G == {n \in Nat : n <= Len(q) => Right(n)}
<1>1. Len(q) \in Nat /\ DOMAIN q = 1..Len(q) /\ \A i \in 1..Len(q) : q[i] \in T
  OBVIOUS
<1>2. \A n \in 0..Len(q) : g[n] = OnlyStep(q, S, g, n)
  <2>1. IsOnly(q, S, Len(q), g)
    BY <1>1, OnlyExists
  <2> HIDE DEF g
  <2> QED BY <2>1 DEF IsOnly
<1> HIDE DEF g
<1>3. 0 \in G
  <2>1. g[0] = <<>>
    BY <1>1, <1>2 DEF OnlyStep
  <2>2. <<>> \in Seq(T) /\ DOMAIN <<>> = {}
    OBVIOUS
  <2>3. Range(<<>>) = {} /\ Up(0) = {}
    BY <2>2, RangeMembers
  <2>4. Right(0)
    BY <2>1, <2>2, <2>3, Zenon DEF KeptOf
  <2> HIDE DEF Right
  <2> QED BY <2>4
<1>4. ASSUME NEW n \in Nat, n \in G
      PROVE  n + 1 \in G
  <2> SUFFICES ASSUME n + 1 <= Len(q)
               PROVE  Right(n + 1)
    BY DEF G
  <2>0. n <= Len(q) /\ n \in 0..Len(q) /\ n + 1 \in 0..Len(q) /\ n + 1 \in 1..Len(q) /\ q[n + 1] \in T
    BY <1>1
  <2>1. Right(n)
    <3> HIDE DEF Right
    <3> QED BY <2>0, <1>4
  <2>2. g[n + 1] = IF q[n + 1] \in S THEN Append(g[n], q[n + 1]) ELSE g[n]
    BY <1>2, <2>0 DEF OnlyStep
  <2>3. Up(n + 1) = Up(n) \union {q[n + 1]}
    <3>1. 1..(n + 1) = (1..n) \union {n + 1}
      OBVIOUS
    <3> QED BY <3>1
  <2>4. \A a, b \in 1..n : a \in 1..(n + 1) /\ b \in 1..(n + 1)
    OBVIOUS
  <2>5. CASE q[n + 1] \notin S
    <3>1. g[n + 1] = g[n] /\ Up(n + 1) \intersect S = Up(n) \intersect S
      BY <2>2, <2>3, <2>5
    <3>2. g[n + 1] \in Seq(T) /\ Range(g[n + 1]) = {q[i] : i \in 1..(n + 1)} \intersect S
      BY <2>1, <3>1 DEF KeptOf
    <3>3. \A i, j \in DOMAIN g[n + 1] : i < j =>
            \E a, b \in 1..(n + 1) : a < b /\ q[a] = g[n + 1][i] /\ q[b] = g[n + 1][j]
      BY <2>1, <2>4, <3>1 DEF KeptOf
    <3> QED BY <3>2, <3>3, Zenon DEF KeptOf
  <2>6. CASE q[n + 1] \in S
    <3> DEFINE k == Len(g[n])
    <3>1. /\ g[n + 1] \in Seq(T) /\ DOMAIN g[n + 1] = 1..(k + 1) /\ DOMAIN g[n] = 1..k /\ k \in Nat
          /\ \A i \in 1..k : g[n + 1][i] = g[n][i]
          /\ g[n + 1][k + 1] = q[n + 1]
          /\ Range(g[n + 1]) = Range(g[n]) \union {q[n + 1]}
      BY <2>1, <2>2, <2>6, <2>0, AppendFacts DEF KeptOf
    <3> HIDE DEF k
    <3>2. Range(g[n + 1]) = Up(n + 1) \intersect S
      BY <2>1, <2>3, <2>6, <3>1 DEF KeptOf
    <3>3. ASSUME NEW i \in DOMAIN g[n + 1], NEW j \in DOMAIN g[n + 1], i < j
          PROVE  \E a, b \in 1..(n + 1) : a < b /\ q[a] = g[n + 1][i] /\ q[b] = g[n + 1][j]
      <4>0. i \in 1..k /\ g[n + 1][i] = g[n][i]
        BY <3>1, <3>3
      <4>1. CASE j = k + 1
        <5>1. g[n][i] \in Range(g[n])
          BY <3>1, <4>0, RangeMembers
        <5>2. PICK a \in 1..n : q[a] = g[n][i]
          BY <2>1, <5>1 DEF KeptOf
        <5>3. a < n + 1 /\ a \in 1..(n + 1) /\ n + 1 \in 1..(n + 1)
          OBVIOUS
        <5> QED BY <5>2, <5>3, <3>1, <4>0, <4>1
      <4>2. CASE j # k + 1
        <5>1. j \in 1..k /\ g[n + 1][j] = g[n][j]
          BY <3>1, <3>3, <4>2
        <5>2. i \in DOMAIN g[n] /\ j \in DOMAIN g[n]
          BY <3>1, <4>0, <5>1
        <5>3. PICK a, b \in 1..n : a < b /\ q[a] = g[n][i] /\ q[b] = g[n][j]
          BY <5>2, <3>3, <2>1 DEF KeptOf
        <5> QED BY <5>1, <5>3, <4>0, <2>4
      <4> QED BY <4>1, <4>2
    <3> QED BY <3>1, <3>2, <3>3 DEF KeptOf
  <2> QED BY <2>5, <2>6
<1>5. Nat \subseteq G
  <2> HIDE DEF G
  <2> QED BY <1>3, <1>4, NatInductive, Zenon
<1>6. Only(q, S) = g[Len(q)] /\ Up(Len(q)) = Range(q)
  BY <1>1, OnlyUnfold, RangeMembers DEF g
<1>7. Right(Len(q))
  <2> HIDE DEF Right
  <2> QED BY <1>1, <1>5
<1>8. /\ Only(q, S) \in Seq(T) /\ Range(Only(q, S)) = Range(q) \intersect S
       /\ \A i, j \in DOMAIN Only(q, S) : i < j =>
            \E a, b \in 1..Len(q) : a < b /\ q[a] = Only(q, S)[i] /\ q[b] = Only(q, S)[j]
  <2>1. KeptOf(T, q, S, Len(q), Only(q, S))
    BY <1>6, <1>7, Zenon
  <2> HIDE DEF g
  <2>2. Only(q, S) \in Seq(T) /\ Range(Only(q, S)) = Range(q) \intersect S
    BY <1>6, <2>1, Zenon DEF KeptOf
  <2> QED BY <2>1, <2>2, Zenon DEF KeptOf
<1> HIDE DEF Up, Right
<1>9. \A x, y : Before(Only(q, S), x, y) => Before(q, x, y)
  BY <1>1, <1>8 DEF Before
<1>10. Distinct(q) => Distinct(Only(q, S))
  <2> SUFFICES ASSUME Distinct(q), NEW i \in DOMAIN Only(q, S), NEW j \in DOMAIN Only(q, S),
                      Only(q, S)[i] = Only(q, S)[j], i < j
               PROVE  FALSE
    <3>1. DOMAIN Only(q, S) \subseteq Nat
      BY <1>8
    <3> QED BY <3>1 DEF Distinct
  <2>1. PICK a, b \in 1..Len(q) : a < b /\ q[a] = Only(q, S)[i] /\ q[b] = Only(q, S)[j]
    BY <1>8, <1>1
  <2> QED BY <1>1, <2>1 DEF Distinct
<1> QED BY <1>8, <1>9, <1>10

\* In a filtered sequence without repetitions what is kept keeps its order.
LEMMA OnlyBefore ==
  ASSUME NEW T, NEW q \in Seq(T), Distinct(q), NEW S, NEW x \in S, NEW y \in S, Before(q, x, y)
  PROVE  Before(Only(q, S), x, y)
<1>1. PICK i, j \in DOMAIN q : i < j /\ q[i] = x /\ q[j] = y
  BY DEF Before
<1>2. /\ Range(Only(q, S)) = Range(q) \intersect S
      /\ \A u, v : Before(Only(q, S), u, v) => Before(q, u, v)
      /\ Only(q, S) \in Seq(T)
  BY OnlyFacts
<1>3. x \in Range(Only(q, S)) /\ y \in Range(Only(q, S))
  BY <1>1, <1>2, RangeMembers
<1>4. PICK a, b \in DOMAIN Only(q, S) : Only(q, S)[a] = x /\ Only(q, S)[b] = y
  BY <1>3, RangeMembers
<1>5. DOMAIN q \subseteq Nat /\ DOMAIN Only(q, S) \subseteq Nat
  BY <1>2
<1>6. x # y
  BY <1>1, <1>5 DEF Distinct
<1>7. CASE b < a
  <2>1. Before(q, y, x)
    BY <1>2, <1>4, <1>7 DEF Before
  <2>2. PICK k, l \in DOMAIN q : k < l /\ q[k] = y /\ q[l] = x
    BY <2>1 DEF Before
  <2>3. k = j /\ l = i
    BY <1>1, <2>2 DEF Distinct
  <2> QED BY <1>1, <1>5, <2>2, <2>3
<1> QED BY <1>4, <1>5, <1>6, <1>7 DEF Before

\* What stands before what in two sequences joined.
LEMMA ConcatBefore ==
  ASSUME NEW S, NEW p \in Seq(S), NEW q \in Seq(S)
  PROVE  \A x, y : Before(p \o q, x, y) <=>
           Before(p, x, y) \/ Before(q, x, y) \/ (x \in Range(p) /\ y \in Range(q))
<1> DEFINE m == Len(p)
           n == Len(q)
           w == p \o q
<1>1. /\ DOMAIN p = 1..m /\ DOMAIN q = 1..n /\ m \in Nat /\ n \in Nat
      /\ DOMAIN w = 1..(m + n)
      /\ \A i \in 1..m : w[i] = p[i]
      /\ \A i \in 1..n : w[m + i] = q[i]
  OBVIOUS
<1>2. Range(p) = {p[i] : i \in 1..m} /\ Range(q) = {q[i] : i \in 1..n}
  BY <1>1, RangeMembers
<1> HIDE DEF w, m, n
<1> SUFFICES ASSUME NEW x, NEW y
             PROVE  Before(w, x, y) <=>
                      Before(p, x, y) \/ Before(q, x, y) \/ (x \in Range(p) /\ y \in Range(q))
  BY DEF w
<1>3. ASSUME Before(w, x, y)
      PROVE  Before(p, x, y) \/ Before(q, x, y) \/ (x \in Range(p) /\ y \in Range(q))
  <2>1. PICK i, j \in 1..(m + n) : i < j /\ w[i] = x /\ w[j] = y
    BY <1>1, <1>3 DEF Before
  <2>2. CASE j <= m
    <3>1. i \in 1..m /\ j \in 1..m
      BY <1>1, <2>1, <2>2
    <3>2. p[i] = x /\ p[j] = y
      BY <1>1, <2>1, <3>1
    <3> QED BY <1>1, <2>1, <3>1, <3>2 DEF Before
  <2>3. CASE i > m
    <3>1. i - m \in 1..n /\ j - m \in 1..n /\ i - m < j - m /\ m + (i - m) = i /\ m + (j - m) = j
      BY <1>1, <2>1, <2>3
    <3>2. q[i - m] = x /\ q[j - m] = y
      BY <1>1, <2>1, <3>1
    <3> QED BY <1>1, <3>1, <3>2 DEF Before
  <2>4. CASE i <= m /\ j > m
    <3>1. i \in 1..m /\ j - m \in 1..n /\ m + (j - m) = j
      BY <1>1, <2>1, <2>4
    <3>2. p[i] = x /\ q[j - m] = y
      BY <1>1, <2>1, <3>1
    <3> QED BY <1>2, <3>1, <3>2
  <2> QED BY <1>1, <2>1, <2>2, <2>3, <2>4
<1>4. ASSUME Before(p, x, y)
      PROVE  Before(w, x, y)
  <2>1. PICK i, j \in 1..m : i < j /\ p[i] = x /\ p[j] = y
    BY <1>1, <1>4 DEF Before
  <2>2. i \in 1..(m + n) /\ j \in 1..(m + n)
    BY <1>1
  <2> QED BY <1>1, <2>1, <2>2 DEF Before
<1>5. ASSUME Before(q, x, y)
      PROVE  Before(w, x, y)
  <2>1. PICK i, j \in 1..n : i < j /\ q[i] = x /\ q[j] = y
    BY <1>1, <1>5 DEF Before
  <2>2. m + i \in 1..(m + n) /\ m + j \in 1..(m + n) /\ m + i < m + j
    BY <1>1, <2>1
  <2>3. w[m + i] = x /\ w[m + j] = y
    BY <1>1, <2>1
  <2> QED BY <1>1, <2>2, <2>3 DEF Before
<1>6. ASSUME x \in Range(p), y \in Range(q)
      PROVE  Before(w, x, y)
  <2>1. PICK i \in 1..m, j \in 1..n : p[i] = x /\ q[j] = y
    BY <1>2, <1>6
  <2>2. i \in 1..(m + n) /\ m + j \in 1..(m + n) /\ i < m + j
    BY <1>1, <2>1
  <2>3. w[i] = x /\ w[m + j] = y
    BY <1>1, <2>1
  <2> QED BY <1>1, <2>2, <2>3 DEF Before
<1> QED BY <1>3, <1>4, <1>5, <1>6

\* One element alone.
LEMMA SingleFacts ==
  ASSUME NEW S, NEW e \in S
  PROVE  /\ <<e>> \in Seq(S) /\ Range(<<e>>) = {e} /\ Distinct(<<e>>)
         /\ \A x, y : ~Before(<<e>>, x, y)
<1>1. <<e>> \in Seq(S) /\ DOMAIN <<e>> = {1} /\ <<e>>[1] = e
  OBVIOUS
<1>2. Range(<<e>>) = {e}
  BY <1>1, RangeMembers
<1> QED BY <1>1, <1>2 DEF Distinct, Before

--------------------------------------------------------------------------------
(* Sums over finite sets *)

SumOf(f, S) == MapThenSumSet(LAMBDA x : f[x], S)

\* MapThenSumSet folds with a recursive function: it takes an element out,
\* sums the rest, and adds.
Pick(S) == CHOOSE x \in S : TRUE
SumStep(f, g, s) == IF s = {} THEN 0 ELSE f[Pick(s)] + g[s \ {Pick(s)}]
IsSum(f, S, g) == g = [s \in SUBSET S |-> SumStep(f, g, s)]
Sums(f, S) == CHOOSE g : IsSum(f, S, g)

\* A sum is the value at the whole set of the function it is computed by.
LEMMA Unfold == \A f, S : SumOf(f, S) = Sums(f, S)[S]
BY DEF SumOf, MapThenSumSet, MapThenFoldSet, Sums, IsSum, SumStep, Pick

\* The element a step of the sum takes is one of the set's.
LEMMA PickIn == \A S : S # {} => Pick(S) \in S
BY DEF Pick

\* Two functions that compute sums of f agree wherever both are defined.
LEMMA SumsAgree ==
  ASSUME NEW f, NEW S, IsFiniteSet(S), NEW T, NEW g, NEW h,
         S \subseteq T, IsSum(f, S, g), IsSum(f, T, h)
  PROVE  \A s \in SUBSET S : g[s] = h[s]
<1> DEFINE G == {s \in SUBSET S : g[s] = h[s]}
<1>1. ASSUME NEW s \in SUBSET S, \A u \in SUBSET s : u # s => u \in G
      PROVE  s \in G
  <2>1. g[s] = SumStep(f, g, s)
    BY DEF IsSum
  <2>2. h[s] = SumStep(f, h, s)
    BY DEF IsSum
  <2>3. CASE s = {}
    BY <2>1, <2>2, <2>3 DEF SumStep
  <2>4. CASE s # {}
    <3>1. s \ {Pick(s)} \in SUBSET s /\ s \ {Pick(s)} # s
      BY <2>4, PickIn
    <3>2. s \ {Pick(s)} \in G
      BY <3>1, <1>1
    <3>3. g[s \ {Pick(s)}] = h[s \ {Pick(s)}]
      BY <3>2
    <3> QED BY <2>1, <2>2, <2>4, <3>3 DEF SumStep
  <2> QED BY <2>3, <2>4
<1> HIDE DEF G
<1>2. SUBSET S \subseteq G
  BY <1>1, SubsetInduction, Zenon
<1> QED BY <1>2 DEF G

\* The function a sum is computed by exists: the recursion is well founded.
LEMMA SumExists ==
  ASSUME NEW f, NEW S, IsFiniteSet(S)
  PROVE  IsSum(f, S, Sums(f, S))
<1> DEFINE G == {T \in SUBSET S : \E g : IsSum(f, T, g)}
<1>1. \A T \in G : IsSum(f, T, Sums(f, T))
  BY Zenon DEF Sums
<1>2. ASSUME NEW T \in SUBSET S, \A u \in SUBSET T : u # T => u \in G
      PROVE  T \in G
  <2> DEFINE At(r) == Sums(f, r)[r]
  <2> DEFINE h == [s \in SUBSET T |-> IF s = {} THEN 0 ELSE f[Pick(s)] + At(s \ {Pick(s)})]
  <2>1. ASSUME NEW r \in SUBSET T, r # T
        PROVE  h[r] = At(r)
    <3>1. IsSum(f, r, Sums(f, r))
      BY <1>1, <1>2, <2>1
    <3>2. At(r) = SumStep(f, Sums(f, r), r)
      BY <3>1 DEF IsSum
    <3>3. CASE r = {}
      BY <3>2, <3>3 DEF SumStep
    <3>4. CASE r # {}
      <4> DEFINE q == r \ {Pick(r)}
      <4>1. q \in SUBSET T /\ q # T /\ q \subseteq r
        BY <2>1
      <4>2. IsSum(f, q, Sums(f, q))
        BY <1>1, <1>2, <4>1
      <4>3. IsFiniteSet(q)
        BY FS_Subset, <4>1
      <4> HIDE DEF q
      <4>4. Sums(f, q)[q] = Sums(f, r)[q]
        BY <3>1, <4>1, <4>2, <4>3, SumsAgree
      <4>5. At(r) = f[Pick(r)] + Sums(f, r)[q]
        BY <3>2, <3>4 DEF SumStep, q
      <4>6. h[r] = f[Pick(r)] + At(q)
        BY <3>4, <2>1 DEF q
      <4> QED BY <4>4, <4>5, <4>6
    <3> QED BY <3>3, <3>4
  <2>2. ASSUME NEW s \in SUBSET T
        PROVE  h[s] = SumStep(f, h, s)
    <3>1. CASE s = {}
      BY <3>1 DEF SumStep
    <3>2. CASE s # {}
      <4> DEFINE q == s \ {Pick(s)}
      <4>1. q \in SUBSET T /\ q # T
        BY <3>2, PickIn
      <4>2. h[q] = At(q)
        BY <4>1, <2>1
      <4>3. h[s] = f[Pick(s)] + At(q)
        BY <3>2
      <4> QED BY <3>2, <4>2, <4>3 DEF SumStep
    <3> QED BY <3>1, <3>2
  <2>3. h = [s \in SUBSET T |-> h[s]]
    OBVIOUS
  <2> HIDE DEF h
  <2>4. IsSum(f, T, h)
    BY <2>2, <2>3 DEF IsSum
  <2> QED BY <2>4
<1> HIDE DEF G
<1>3. SUBSET S \subseteq G
  BY <1>2, SubsetInduction, Zenon
<1> QED BY <1>3, <1>1

\* Nothing sums to zero.
LEMMA SumEmpty == \A f : SumOf(f, {}) = 0
<1> SUFFICES ASSUME NEW f PROVE SumOf(f, {}) = 0
  OBVIOUS
<1>1. IsFiniteSet({})
  BY FS_EmptySet
<1>2. IsSum(f, {}, Sums(f, {}))
  BY <1>1, SumExists
<1> QED BY <1>2, Unfold DEF IsSum, SumStep

\* One step of the computation of a sum.
LEMMA SumPick ==
  ASSUME NEW f, NEW S, IsFiniteSet(S), S # {}
  PROVE  SumOf(f, S) = f[Pick(S)] + SumOf(f, S \ {Pick(S)})
<1> DEFINE q == S \ {Pick(S)}
<1>1. IsSum(f, S, Sums(f, S))
  BY SumExists
<1>2. IsFiniteSet(q) /\ q \subseteq S
  BY FS_Subset
<1>3. IsSum(f, q, Sums(f, q))
  BY <1>2, SumExists
<1> HIDE DEF q
<1>4. Sums(f, q)[q] = Sums(f, S)[q]
  BY <1>1, <1>2, <1>3, SumsAgree
<1>5. Sums(f, S)[S] = SumStep(f, Sums(f, S), S)
  BY <1>1 DEF IsSum
<1> QED BY <1>4, <1>5, Unfold DEF SumStep, q

\* A sum of naturals is a natural.
LEMMA SumType ==
  ASSUME NEW f, NEW S, IsFiniteSet(S), \A x \in S : f[x] \in Nat
  PROVE  SumOf(f, S) \in Nat
<1> DEFINE G == {T \in SUBSET S : SumOf(f, T) \in Nat}
<1>1. ASSUME NEW T \in SUBSET S, \A U \in SUBSET T : U # T => U \in G
      PROVE  T \in G
  <2>1. CASE T = {}
    BY <2>1, SumEmpty
  <2>2. CASE T # {}
    <3>1. Pick(T) \in T /\ IsFiniteSet(T)
      BY <2>2, PickIn, FS_Subset
    <3>2. SumOf(f, T) = f[Pick(T)] + SumOf(f, T \ {Pick(T)})
      BY <2>2, <3>1, SumPick
    <3>3. SumOf(f, T \ {Pick(T)}) \in Nat
      BY <1>1, <3>1
    <3> QED BY <3>1, <3>2, <3>3
  <2> QED BY <2>1, <2>2
<1> HIDE DEF G
<1>2. SUBSET S \subseteq G
  BY <1>1, SubsetInduction, Zenon
<1> QED BY <1>2 DEF G

\* Any element may be taken out of a sum first.
LEMMA SumAdd ==
  ASSUME NEW f, NEW S, IsFiniteSet(S), \A x \in S : f[x] \in Nat
  PROVE  \A x \in S : SumOf(f, S) = f[x] + SumOf(f, S \ {x})
<1> DEFINE G == {T \in SUBSET S : \A x \in T : SumOf(f, T) = f[x] + SumOf(f, T \ {x})}
<1>1. ASSUME NEW T \in SUBSET S, \A U \in SUBSET T : U # T => U \in G
      PROVE  T \in G
  <2> SUFFICES ASSUME NEW x \in T PROVE SumOf(f, T) = f[x] + SumOf(f, T \ {x})
    OBVIOUS
  <2> DEFINE y == Pick(T)
  <2>1. y \in T /\ IsFiniteSet(T)
    BY PickIn, FS_Subset
  <2>2. SumOf(f, T) = f[y] + SumOf(f, T \ {y})
    BY <2>1, SumPick
  <2> HIDE DEF y
  <2>3. CASE x = y
    BY <2>2, <2>3
  <2>4. CASE x # y
    <3>1. SumOf(f, T \ {y}) = f[x] + SumOf(f, (T \ {y}) \ {x})
      BY <1>1, <2>1, <2>4
    <3>2. SumOf(f, T \ {x}) = f[y] + SumOf(f, (T \ {x}) \ {y})
      BY <1>1, <2>1, <2>4
    <3>3. (T \ {x}) \ {y} = (T \ {y}) \ {x}
      OBVIOUS
    <3>4. SumOf(f, (T \ {y}) \ {x}) \in Nat
      <4>1. IsFiniteSet((T \ {y}) \ {x})
        BY <2>1, FS_Subset
      <4>2. \A z \in (T \ {y}) \ {x} : f[z] \in Nat
        OBVIOUS
      <4> QED BY <4>1, <4>2, SumType
    <3> QED BY <2>1, <2>2, <3>1, <3>2, <3>3, <3>4
  <2> QED BY <2>3, <2>4
<1> HIDE DEF G
<1>2. SUBSET S \subseteq G
  BY <1>1, SubsetInduction, Zenon
<1> QED BY <1>2 DEF G

\* The sum reads f on S alone.
LEMMA SumSame ==
  ASSUME NEW f, NEW g, NEW S, IsFiniteSet(S), \A x \in S : f[x] = g[x]
  PROVE  SumOf(f, S) = SumOf(g, S)
<1> DEFINE G == {T \in SUBSET S : SumOf(f, T) = SumOf(g, T)}
<1>1. ASSUME NEW T \in SUBSET S, \A U \in SUBSET T : U # T => U \in G
      PROVE  T \in G
  <2>1. CASE T = {}
    BY <2>1, SumEmpty
  <2>2. CASE T # {}
    <3>1. Pick(T) \in T /\ IsFiniteSet(T)
      BY <2>2, PickIn, FS_Subset
    <3>2. SumOf(f, T) = f[Pick(T)] + SumOf(f, T \ {Pick(T)})
      BY <2>2, <3>1, SumPick
    <3>3. SumOf(g, T) = g[Pick(T)] + SumOf(g, T \ {Pick(T)})
      BY <2>2, <3>1, SumPick
    <3>4. SumOf(f, T \ {Pick(T)}) = SumOf(g, T \ {Pick(T)})
      BY <1>1, <3>1
    <3> QED BY <3>1, <3>2, <3>3, <3>4
  <2> QED BY <2>1, <2>2
<1> HIDE DEF G
<1>2. SUBSET S \subseteq G
  BY <1>1, SubsetInduction, Zenon
<1> QED BY <1>2 DEF G

\* The sum over one element.
LEMMA SumSingle ==
  ASSUME NEW f, NEW x, f[x] \in Nat
  PROVE  SumOf(f, {x}) = f[x]
<1>1. IsFiniteSet({x}) /\ \A y \in {x} : f[y] \in Nat
  BY FS_Singleton
<1>2. SumOf(f, {x}) = f[x] + SumOf(f, {x} \ {x})
  BY <1>1, SumAdd
<1>3. {x} \ {x} = {}
  OBVIOUS
<1>4. SumOf(f, {x} \ {x}) = 0
  BY <1>3, SumEmpty, Zenon
<1> QED BY <1>2, <1>4

\* Disjoint parts add up.
LEMMA SumSplit ==
  ASSUME NEW f, NEW S, IsFiniteSet(S), \A x \in S : f[x] \in Nat
  PROVE  \A R \in SUBSET S : SumOf(f, S) = SumOf(f, R) + SumOf(f, S \ R)
<1> SUFFICES ASSUME NEW R0 \in SUBSET S PROVE SumOf(f, S) = SumOf(f, R0) + SumOf(f, S \ R0)
  OBVIOUS
<1> DEFINE G == {R \in SUBSET R0 : SumOf(f, S) = SumOf(f, R) + SumOf(f, S \ R)}
<1>0. IsFiniteSet(R0)
  BY FS_Subset
<1>1. ASSUME NEW R \in SUBSET R0, \A U \in SUBSET R : U # R => U \in G
      PROVE  R \in G
  <2>1. CASE R = {}
    <3>1. SumOf(f, S) \in Nat /\ S \ {} = S
      BY SumType
    <3> QED BY <2>1, <3>1, SumEmpty
  <2>2. CASE R # {}
    <3> PICK x \in R : TRUE
      BY <2>2
    <3> DEFINE Q == R \ {x}
    <3>1. IsFiniteSet(R) /\ IsFiniteSet(Q) /\ IsFiniteSet(S \ R) /\ IsFiniteSet(S \ Q)
      BY FS_Subset
    <3>2. SumOf(f, S) = SumOf(f, Q) + SumOf(f, S \ Q)
      BY <1>1
    <3>3. SumOf(f, R) = f[x] + SumOf(f, Q)
      BY <3>1, SumAdd
    <3>4. SumOf(f, S \ Q) = f[x] + SumOf(f, (S \ Q) \ {x})
      BY <3>1, SumAdd
    <3>5. (S \ Q) \ {x} = S \ R
      OBVIOUS
    <3>6. SumOf(f, Q) \in Nat /\ SumOf(f, S \ R) \in Nat /\ f[x] \in Nat
      BY <3>1, SumType
    <3> QED BY <3>2, <3>3, <3>4, <3>5, <3>6
  <2> QED BY <2>1, <2>2
<1> HIDE DEF G
<1>2. SUBSET R0 \subseteq G
  BY <1>0, <1>1, SubsetInduction, Zenon
<1> QED BY <1>2 DEF G

\* Sums over disjoint sets add up.
LEMMA SumUnion ==
  ASSUME NEW f, NEW A, NEW B, IsFiniteSet(A), IsFiniteSet(B), A \intersect B = {},
         \A x \in A \union B : f[x] \in Nat
  PROVE  SumOf(f, A \union B) = SumOf(f, A) + SumOf(f, B)
<1>1. IsFiniteSet(A \union B)
  BY FS_Union
<1>2. SumOf(f, A \union B) = SumOf(f, A) + SumOf(f, (A \union B) \ A)
  BY <1>1, SumSplit
<1>3. (A \union B) \ A = B
  OBVIOUS
<1> QED BY <1>2, <1>3

\* What is left of the sum once R is given up, wherever f changes on R.
LEMMA SumRetire ==
  ASSUME NEW f, NEW g, NEW S, NEW R \in SUBSET S, IsFiniteSet(S),
         \A x \in S : f[x] \in Nat, \A x \in S \ R : g[x] = f[x]
  PROVE  /\ SumOf(g, S \ R) = SumOf(f, S) - SumOf(f, R)
         /\ SumOf(g, S \ R) \in Nat /\ SumOf(f, R) \in Nat
<1>1. IsFiniteSet(R) /\ IsFiniteSet(S \ R)
  BY FS_Subset
<1>2. SumOf(f, S) = SumOf(f, R) + SumOf(f, S \ R)
  BY SumSplit
<1>3. SumOf(g, S \ R) = SumOf(f, S \ R)
  BY <1>1, SumSame
<1>4. SumOf(f, R) \in Nat /\ SumOf(f, S \ R) \in Nat
  BY <1>1, SumType
<1> QED BY <1>2, <1>3, <1>4

\* ... and once x has come in its place.
LEMMA SumReplace ==
  ASSUME NEW f, NEW g, NEW S, NEW R \in SUBSET S, NEW x, IsFiniteSet(S), x \notin S \ R,
         \A y \in S : f[y] \in Nat, \A y \in S \ R : g[y] = f[y], g[x] \in Nat
  PROVE  SumOf(g, (S \ R) \union {x}) = SumOf(f, S) - SumOf(f, R) + g[x]
<1> DEFINE T == (S \ R) \union {x}
<1>1. IsFiniteSet(S \ R)
  BY FS_Subset
<1>2. IsFiniteSet(T)
  BY <1>1, FS_AddElement
<1>3. \A y \in T : g[y] \in Nat
  OBVIOUS
<1>4. T \ {x} = S \ R /\ x \in T
  OBVIOUS
<1> HIDE DEF T
<1>5. SumOf(g, T) = g[x] + SumOf(g, T \ {x})
  BY <1>2, <1>3, <1>4, SumAdd
<1>6. /\ SumOf(g, S \ R) = SumOf(f, S) - SumOf(f, R)
      /\ SumOf(g, S \ R) \in Nat
  BY SumRetire
<1>7. SumOf(f, S) \in Nat /\ SumOf(f, R) \in Nat
  BY SumType, FS_Subset
<1>8. SumOf(g, T \ {x}) = SumOf(g, S \ R)
  BY <1>4, Zenon
<1>9. SumOf(g, T) = SumOf(f, S) - SumOf(f, R) + g[x]
  BY <1>5, <1>6, <1>7, <1>8
<1> QED BY <1>9 DEF T

\* Sums are additive in what is summed.
LEMMA SumPlus ==
  ASSUME NEW f, NEW g, NEW h, NEW S, IsFiniteSet(S),
         \A x \in S : f[x] \in Nat /\ g[x] \in Nat /\ h[x] = f[x] + g[x]
  PROVE  SumOf(h, S) = SumOf(f, S) + SumOf(g, S)
<1> DEFINE G == {T \in SUBSET S : SumOf(h, T) = SumOf(f, T) + SumOf(g, T)}
<1>1. ASSUME NEW T \in SUBSET S, \A U \in SUBSET T : U # T => U \in G
      PROVE  T \in G
  <2>1. CASE T = {}
    BY <2>1, SumEmpty
  <2>2. CASE T # {}
    <3> DEFINE x == Pick(T)
               R == T \ {x}
    <3>1. x \in T /\ IsFiniteSet(T)
      BY <2>2, PickIn, FS_Subset
    <3>2. /\ SumOf(f, T) = f[x] + SumOf(f, R)
          /\ SumOf(g, T) = g[x] + SumOf(g, R)
          /\ SumOf(h, T) = h[x] + SumOf(h, R)
      BY <2>2, <3>1, SumPick
    <3>3. SumOf(h, R) = SumOf(f, R) + SumOf(g, R)
      BY <1>1, <3>1
    <3>4. SumOf(f, R) \in Nat /\ SumOf(g, R) \in Nat
      <4>1. IsFiniteSet(R) /\ \A y \in R : f[y] \in Nat /\ g[y] \in Nat
        BY <3>1, FS_Subset
      <4> QED BY <4>1, SumType
    <3> HIDE DEF x, R
    <3>5. f[x] \in Nat /\ g[x] \in Nat /\ h[x] = f[x] + g[x]
      BY <3>1
    <3> QED BY <3>2, <3>3, <3>4, <3>5
  <2> QED BY <2>1, <2>2
<1> HIDE DEF G
<1>2. SUBSET S \subseteq G
  BY <1>1, SubsetInduction
<1>3. S \in G
  BY <1>2
<1> QED BY <1>3 DEF G

\* Summing nothing but zeros.
LEMMA SumZero ==
  ASSUME NEW f, NEW S, IsFiniteSet(S), \A x \in S : f[x] = 0
  PROVE  SumOf(f, S) = 0
<1>1. SumOf(f, S) = SumOf(f, S) + SumOf(f, S)
  BY SumPlus
<1>2. SumOf(f, S) \in Nat
  BY SumType
<1>3. \A n \in Nat : n = n + n => n = 0
  OBVIOUS
<1> QED BY <1>1, <1>2, <1>3, Zenon

\* A sum of naturals is at least each of them.
LEMMA SumBounds ==
  ASSUME NEW f, NEW S, IsFiniteSet(S), \A x \in S : f[x] \in Nat
  PROVE  \A x \in S : f[x] <= SumOf(f, S)
<1> SUFFICES ASSUME NEW x \in S PROVE f[x] <= SumOf(f, S)
  OBVIOUS
<1>1. SumOf(f, S) = f[x] + SumOf(f, S \ {x})
  BY SumAdd
<1>2. IsFiniteSet(S \ {x}) /\ \A y \in S \ {x} : f[y] \in Nat
  BY FS_Subset
<1>3. SumOf(f, S \ {x}) \in Nat
  BY <1>2, SumType
<1> QED BY <1>1, <1>3

\* One more at one place.
LEMMA SumOneMore ==
  ASSUME NEW f, NEW g, NEW S, IsFiniteSet(S), \A x \in S : f[x] \in Nat,
         NEW x \in S, g[x] = f[x] + 1, \A y \in S \ {x} : g[y] = f[y]
  PROVE  SumOf(g, S) = SumOf(f, S) + 1
<1>1. IsFiniteSet(S \ {x})
  BY FS_Subset
<1>2. SumOf(f, S \ {x}) = SumOf(g, S \ {x})
  BY <1>1, SumSame
<1>3. SumOf(f, S) = f[x] + SumOf(f, S \ {x})
  BY SumAdd
<1>4. \A y \in S : g[y] \in Nat
  OBVIOUS
<1>5. SumOf(g, S) = g[x] + SumOf(g, S \ {x})
  BY <1>4, SumAdd
<1>6. SumOf(f, S \ {x}) \in Nat /\ f[x] \in Nat
  BY <1>1, SumType
<1> QED BY <1>2, <1>3, <1>5, <1>6

\* An element that counts for nothing may be added or left out.
LEMMA SumIdle ==
  ASSUME NEW f, NEW S, NEW T, NEW x, IsFiniteSet(S), \A y \in S : f[y] \in Nat,
         f[x] = 0, T \ {x} = S \ {x}
  PROVE  SumOf(f, T) = SumOf(f, S)
<1> DEFINE R == S \ {x}
<1>1. IsFiniteSet(R) /\ IsFiniteSet({x}) /\ IsFiniteSet(R \union {x})
  BY FS_Subset, FS_Singleton, FS_Union
<1>2. ASSUME NEW U, U \ {x} = R PROVE SumOf(f, U) = SumOf(f, R)
  <2>1. CASE x \notin U
    BY <1>2, <2>1 DEF R
  <2>2. CASE x \in U
    <3>1. U = R \union {x} /\ x \notin R /\ \A y \in R \union {x} : f[y] \in Nat
      BY <1>2, <2>2
    <3>2. SumOf(f, R \union {x}) = f[x] + SumOf(f, (R \union {x}) \ {x})
      BY <1>1, <3>1, SumAdd
    <3>3. (R \union {x}) \ {x} = R
      BY <3>1
    <3>4. SumOf(f, R) \in Nat
      BY <1>1, SumType
    <3> QED BY <3>1, <3>2, <3>3, <3>4
  <2> QED BY <2>1, <2>2
<1> QED BY <1>2

================================================================================
