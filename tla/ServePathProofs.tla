----------------------------- MODULE ServePathProofs -----------------------------
(***************************************************************************)
(* Proofs about what serves the bytes of a title: the failover between     *)
(* providers (SegmentFailover) and the stream that fetches ahead through   *)
(* it, slot pool and bank included (OrderedParallelStream).                *)
(*                                                                         *)
(* Whatever the providers, their number and their answers, the verdicts    *)
(* of the failover are honest (IInv: while the loop runs nobody has        *)
(* delivered, and no error but the known kinds came), its walk skips       *)
(* nobody (WInv), and its records bring a demoted provider back only by a  *)
(* body (RInv).                                                            *)
(*                                                                         *)
(* Whatever the tasks, lengths, slots, caps and budgets, StreamIInv says   *)
(* who has each slot, where each chunk that was pushed ends, and how much  *)
(* of the range is out; so no slot is reused while somebody reads it.      *)
(***************************************************************************)
EXTENDS SegmentFailover, OrderedParallelStream, DataLemmas

Reply == Answer \union {None}

IsCall(c) ==
  /\ c = [st |-> c.st, stat |-> c.stat, up |-> c.up, only |-> c.only, todo |-> c.todo, asked |-> c.asked,
          aborted |-> c.aborted, result |-> c.result, final |-> c.final]
  /\ c.asked \in [Provider -> Reply]
  /\ c.stat \in BOOLEAN /\ c.final \in BOOLEAN /\ c.aborted \in BOOLEAN

\* The loop goes on only past known failures.
Looping(c) ==
  c.st = "asking" =>
    /\ c.result = None /\ c.final = FALSE
    /\ \A p \in Provider : c.asked[p] # "served" /\ (c.stat = FALSE => c.asked[p] # "fatal")

HonestCall(c) ==
  /\ c.st = "done" /\ c.final => \A p \in Provider : c.asked[p] \in Definitive \union {None}
  /\ c.result \in Definitive => Said(c.asked, {c.result})
  /\ c.result = "unavailable" => ~Said(c.asked, Definitive)

GoodCall(c) == IsCall(c) /\ Looping(c) /\ HonestCall(c)

IInv ==
  /\ call = [f \in Call |-> call[f]]
  /\ \A f \in Call : GoodCall(call[f])

\* A call replaced by a good one leaves the others as they were.
LEMMA Replaced ==
  ASSUME IInv, NEW f \in Call, NEW c, GoodCall(c), call' = [call EXCEPT ![f] = c]
  PROVE  IInv'
<1>1. call' = [g \in Call |-> IF g = f THEN c ELSE call[g]]
  BY DEF IInv
<1>2. \A g \in Call : GoodCall(call'[g])
  BY <1>1 DEF IInv
<1>3. call' = [g \in Call |-> call'[g]]
  BY <1>1
<1> QED BY <1>2, <1>3 DEF IInv, GoodCall, IsCall, Looping, HonestCall, Said

\* Fresh calls know nothing.
LEMMA IdleGood == GoodCall(Idle)
  BY NoneAssumption DEF GoodCall, IsCall, Looping, HonestCall, Idle, Said, Definitive, Reply, Answer

Answered(old, p, answer) == [old EXCEPT !.asked[p] = answer]

\* One more answer: the loop knows of it and of what it knew before.
Learns(old, c, answer) ==
  /\ IsCall(c) /\ c.st = "asking" /\ c.result = None /\ c.final = FALSE /\ c.stat = old.stat
  /\ \A q \in Provider : c.asked[q] = "served" => answer = "served"
  /\ c.stat = FALSE => \A q \in Provider : c.asked[q] = "fatal" => answer = "fatal"

\* One answer adds to what the loop knows what was said, and of one provider only.
LEMMA OneAnswer ==
  ASSUME NEW old, GoodCall(old), old.st = "asking", NEW p, NEW answer \in Answer,
         NEW c, c = Answered(old, p, answer)
  PROVE  Learns(old, c, answer)
<1>1. c = [st |-> old.st, stat |-> old.stat, up |-> old.up, only |-> old.only, todo |-> old.todo,
           asked |-> [old.asked EXCEPT ![p] = answer],
           aborted |-> old.aborted, result |-> old.result, final |-> old.final]
  BY DEF GoodCall, IsCall, Answered
<1>2. [old.asked EXCEPT ![p] = answer] \in [Provider -> Reply]
  BY DEF GoodCall, IsCall, Reply
<1>3. \A q \in Provider : [old.asked EXCEPT ![p] = answer][q] \in {answer, old.asked[q]}
  BY DEF GoodCall, IsCall
<1>4. IsCall(c) /\ c.st = "asking" /\ c.result = None /\ c.final = FALSE /\ c.stat = old.stat
  BY <1>1, <1>2 DEF GoodCall, IsCall, Looping
<1>5. \A q \in Provider : c.asked[q] = answer \/ c.asked[q] = old.asked[q]
  BY <1>1, <1>3
<1> QED BY <1>4, <1>5 DEF GoodCall, Looping, Learns

\* The next provider is asked.
LEMMA AskingGood ==
  ASSUME NEW c, IsCall(c), c.st = "asking", c.result = None, c.final = FALSE, NEW todo,
         \A q \in Provider : c.asked[q] # "served" /\ (c.stat = FALSE => c.asked[q] # "fatal")
  PROVE  GoodCall([c EXCEPT !.todo = todo])
<1> DEFINE n == [c EXCEPT !.todo = todo]
<1>1. n = [st |-> c.st, stat |-> c.stat, up |-> c.up, only |-> c.only, todo |-> todo, asked |-> c.asked,
           aborted |-> c.aborted, result |-> c.result, final |-> c.final]
  BY DEF IsCall
<1>2. IsCall(n) /\ n.asked = c.asked /\ n.result = None /\ n.final = FALSE /\ n.stat = c.stat
  BY <1>1 DEF IsCall
<1>3. Looping(n)
  BY <1>2 DEF Looping
<1>4. HonestCall(n)
  BY <1>2, NoneAssumption DEF HonestCall, Definitive
<1> QED BY <1>2, <1>3, <1>4 DEF GoodCall

\* The fields of a call that ends.
LEMMA SettledFields ==
  ASSUME NEW c, NEW st, NEW todo, NEW result, NEW final,
         c = [st |-> c.st, stat |-> c.stat, up |-> c.up, only |-> c.only, todo |-> c.todo, asked |-> c.asked,
              aborted |-> c.aborted, result |-> c.result, final |-> c.final],
         NEW n, n = [c EXCEPT !.st = st, !.todo = todo, !.result = result, !.final = final]
  PROVE  n = [st |-> st, stat |-> c.stat, up |-> c.up, only |-> c.only, todo |-> todo, asked |-> c.asked,
              aborted |-> c.aborted, result |-> result, final |-> final]
  OBVIOUS

\* A settled call is good when its verdict is.
LEMMA SettledGood ==
  ASSUME NEW c, IsCall(c), NEW result, NEW final \in BOOLEAN,
         final => \A q \in Provider : c.asked[q] \in Definitive \union {None},
         result \in Definitive => Said(c.asked, {result}),
         result = "unavailable" => ~Said(c.asked, Definitive),
         NEW n, n = [c EXCEPT !.st = "done", !.todo = <<>>, !.result = result, !.final = final]
  PROVE  GoodCall(n)
<1>1. n = [st |-> "done", stat |-> c.stat, up |-> c.up, only |-> c.only, todo |-> <<>>, asked |-> c.asked,
           aborted |-> c.aborted, result |-> result, final |-> final]
  BY SettledFields DEF IsCall
<1>2. IsCall(n) /\ n.st = "done" /\ n.asked = c.asked /\ n.result = result /\ n.final = final
  BY <1>1 DEF IsCall
<1>3. Looping(n)
  BY <1>2 DEF Looping
<1>4. HonestCall(n)
  BY <1>2 DEF HonestCall
<1> QED BY <1>2, <1>3, <1>4 DEF GoodCall

\* What the verdict says was said.
LEMMA VerdictSays ==
  ASSUME NEW asked
  PROVE  /\ Verdict(asked) \in Definitive => Said(asked, {Verdict(asked)})
         /\ Verdict(asked) = "unavailable" => ~Said(asked, Definitive)
<1>1. CASE ~Said(asked, Definitive)
  BY <1>1 DEF Verdict, Definitive
<1>2. CASE Said(asked, Definitive) /\ Said(asked, {"corrupt"})
  BY <1>2 DEF Verdict
<1>3. CASE Said(asked, Definitive) /\ ~Said(asked, {"corrupt"})
  <2>1. Said(asked, {"missing"}) /\ Verdict(asked) = "missing"
    BY <1>3 DEF Verdict, Said, Definitive
  <2> QED BY <2>1
<1> QED BY <1>1, <1>2, <1>3

\* "exhausted": when all that was said is known and nobody delivered.
LEMMA VerdictGood ==
  ASSUME NEW c, IsCall(c), \A q \in Provider : c.asked[q] \notin {"served", "fatal"}
  PROVE  /\ Exhausted(c.asked) => \A q \in Provider : c.asked[q] \in Definitive \union {None}
         /\ Verdict(c.asked) \in Definitive => Said(c.asked, {Verdict(c.asked)})
         /\ Verdict(c.asked) = "unavailable" => ~Said(c.asked, Definitive)
<1>1. \A q \in Provider : c.asked[q] \in Reply
  BY DEF IsCall
<1>2. Exhausted(c.asked) => \A q \in Provider : c.asked[q] \in Definitive \union {None}
  BY <1>1 DEF Exhausted, Said, Reply, Answer, Definitive
<1> QED BY <1>2, VerdictSays

--------------------------------------------------------------------------------
(* The steps *)

\* The fields of a call that has just started.
LEMMA StartedFields ==
  ASSUME NEW up, NEW stat, NEW only, NEW order
  PROVE  Started(up, stat, only, order) =
           [st |-> IF order # <<>> THEN "asking" ELSE "done", stat |-> stat, up |-> up, only |-> only,
            todo |-> order, asked |-> [p \in Provider |-> None], aborted |-> FALSE,
            result |-> IF order # <<>> THEN None ELSE "unanswered", final |-> FALSE]
<1>1. PICK st : st = (IF order # <<>> THEN "asking" ELSE "done")
  OBVIOUS
<1>2. PICK result : result = (IF order # <<>> THEN None ELSE "unanswered")
  OBVIOUS
<1>3. Started(up, stat, only, order) =
        [Idle EXCEPT !.st = st, !.stat = stat, !.up = up, !.only = only, !.todo = order, !.result = result]
  BY <1>1, <1>2, Zenon DEF Started
<1>4. Started(up, stat, only, order) =
        [st |-> st, stat |-> stat, up |-> up, only |-> only, todo |-> order,
         asked |-> [p \in Provider |-> None], aborted |-> FALSE, result |-> result, final |-> FALSE]
  BY <1>3 DEF Idle
<1> QED BY <1>1, <1>2, <1>4

\* A call starts knowing nothing.
LEMMA StartGood ==
  ASSUME IInv, NEW f \in Call, NEW up \in SUBSET Provider, NEW only \in SUBSET Provider,
         NEW stat \in BOOLEAN, Start(f, up, stat, only)
  PROVE  IInv'
<1>1. PICK order \in Orders(up, only) : call' = [call EXCEPT ![f] = Started(up, stat, only, order)]
  BY DEF Start
<1>2. PICK c : c = Started(up, stat, only, order)
  OBVIOUS
<1>3. c.st \in {"asking", "done"} /\ (c.st = "asking" => c.result = None)
  BY <1>2, StartedFields
<1>4. IsCall(c) /\ c.asked = [p \in Provider |-> None] /\ c.final = FALSE /\ c.result \in {None, "unanswered"}
  BY <1>2, StartedFields DEF IsCall, Reply
<1>5. Looping(c) /\ HonestCall(c)
  BY <1>3, <1>4, NoneAssumption DEF Looping, HonestCall, Definitive
<1> QED BY <1>1, <1>2, <1>4, <1>5, Replaced DEF GoodCall

\* An abort changes no answer.
LEMMA AbortGood ==
  ASSUME IInv, NEW f \in Call, Abort(f)
  PROVE  IInv'
<1>1. PICK c : c = [call[f] EXCEPT !.aborted = TRUE]
  OBVIOUS
<1>2. GoodCall(call[f])
  BY DEF IInv
<1>3. c = [st |-> call[f].st, stat |-> call[f].stat, up |-> call[f].up, only |-> call[f].only, todo |-> call[f].todo,
           asked |-> call[f].asked, aborted |-> TRUE, result |-> call[f].result, final |-> call[f].final]
  BY <1>1, <1>2 DEF GoodCall, IsCall
<1>4. IsCall(c)
  BY <1>2, <1>3 DEF GoodCall, IsCall
<1>5. Looping(c) /\ HonestCall(c)
  BY <1>2, <1>3 DEF GoodCall, Looping, HonestCall
<1>6. call' = [call EXCEPT ![f] = c]
  BY <1>1 DEF IInv, Abort
<1> QED BY <1>4, <1>5, <1>6, Replaced DEF GoodCall

\* Settling call f as c with a verdict that is honest.
LEMMA Settled ==
  ASSUME IInv, NEW f \in Call, NEW c, IsCall(c), NEW result, NEW final \in BOOLEAN,
         Settle(f, c, result, final),
         final => \A q \in Provider : c.asked[q] \in Definitive \union {None},
         result \in Definitive => Said(c.asked, {result}),
         result = "unavailable" => ~Said(c.asked, Definitive)
  PROVE  IInv'
<1>1. PICK n : n = [c EXCEPT !.st = "done", !.todo = <<>>, !.result = result, !.final = final]
  OBVIOUS
<1>2. GoodCall(n)
  BY <1>1, SettledGood
<1>3. call' = [call EXCEPT ![f] = n]
  BY <1>1 DEF Settle
<1> QED BY <1>2, <1>3, Replaced

\* A body request is answered.
LEMMA BodyGood ==
  ASSUME IInv, NEW f \in Call, NEW answer \in Answer, BodyAnswered(f, answer)
  PROVE  IInv'
<1>1. PICK c : c = [call[f] EXCEPT !.asked[Head(call[f].todo)] = answer]
  OBVIOUS
<1>2. GoodCall(call[f]) /\ call[f].st = "asking"
  BY DEF IInv, BodyAnswered
<1>3. /\ IsCall(c) /\ c.st = "asking" /\ c.result = None /\ c.final = FALSE /\ c.stat = call[f].stat
      /\ \A q \in Provider : c.asked[q] = "served" => answer = "served"
      /\ c.stat = FALSE => \A q \in Provider : c.asked[q] = "fatal" => answer = "fatal"
  <2>1. c = Answered(call[f], Head(call[f].todo), answer)
    BY <1>1 DEF Answered
  <2>2. Learns(call[f], c, answer)
    BY <1>2, <2>1, OneAnswer
  <2> QED BY <2>2 DEF Learns
<1>4. c.stat = FALSE
  BY <1>2, <1>3 DEF BodyAnswered, GoodCall, IsCall
<1>5. \/ answer = "served" /\ Settle(f, c, "served", FALSE)
      \/ answer # "served" /\ c.aborted /\ Settle(f, c, "aborted", FALSE)
      \/ answer = "fatal" /\ ~c.aborted /\ Settle(f, c, "fatal", FALSE)
      \/ answer \notin {"served", "fatal"} /\ ~c.aborted /\ Continue(f, c)
  BY <1>1 DEF BodyAnswered
<1>6. ASSUME NEW result \in {"served", "aborted", "fatal"}, Settle(f, c, result, FALSE)
      PROVE  IInv'
  BY <1>3, <1>6, Settled DEF Definitive
<1>7. CASE answer \notin {"served", "fatal"} /\ Continue(f, c)
  <2>1. \A q \in Provider : c.asked[q] # "served" /\ c.asked[q] # "fatal"
    BY <1>3, <1>4, <1>7
  <2>2. CASE Len(c.todo) > 1
    <3>1. GoodCall([c EXCEPT !.todo = Rest(c.todo)])
      BY <2>1, <1>3, AskingGood
    <3>2. call' = [call EXCEPT ![f] = [c EXCEPT !.todo = Rest(c.todo)]]
      BY <1>7, <2>2 DEF Continue
    <3> QED BY <3>1, <3>2, Replaced
  <2>3. CASE ~(Len(c.todo) > 1)
    <3>1. Settle(f, c, Verdict(c.asked), Said(c.asked, Definitive) /\ Exhausted(c.asked))
      BY <1>7, <2>3 DEF Continue
    <3>2. (Said(c.asked, Definitive) /\ Exhausted(c.asked)) \in BOOLEAN
      BY DEF Said, Exhausted
    <3>3. /\ Exhausted(c.asked) => \A q \in Provider : c.asked[q] \in Definitive \union {None}
          /\ Verdict(c.asked) \in Definitive => Said(c.asked, {Verdict(c.asked)})
          /\ Verdict(c.asked) = "unavailable" => ~Said(c.asked, Definitive)
      BY <2>1, <1>3, VerdictGood
    <3> QED BY <3>1, <3>2, <3>3, <1>3, Settled
  <2> QED BY <2>2, <2>3
<1> QED BY <1>5, <1>6, <1>7

\* A STAT is answered.
LEMMA StatGood ==
  ASSUME IInv, NEW f \in Call, NEW answer \in Answer, StatAnswered(f, answer)
  PROVE  IInv'
<1>1. PICK c : c = [call[f] EXCEPT !.asked[Head(call[f].todo)] = answer]
  OBVIOUS
<1>2. GoodCall(call[f]) /\ call[f].st = "asking"
  BY DEF IInv, StatAnswered
<1>3. /\ IsCall(c) /\ c.st = "asking" /\ c.result = None /\ c.final = FALSE /\ c.stat = call[f].stat
      /\ \A q \in Provider : c.asked[q] = "served" => answer = "served"
  <2>1. c = Answered(call[f], Head(call[f].todo), answer)
    BY <1>1 DEF Answered
  <2>2. Learns(call[f], c, answer)
    BY <1>2, <2>1, OneAnswer
  <2> QED BY <2>2 DEF Learns
<1>4. c.stat = TRUE
  BY <1>2, <1>3 DEF StatAnswered, GoodCall, IsCall
<1>5. CASE answer = "served"
  <2>1. Settle(f, c, "served", FALSE)
    BY <1>1, <1>5 DEF StatAnswered
  <2> QED BY <2>1, <1>3, Settled DEF Definitive
<1>6. CASE answer # "served" /\ Len(c.todo) > 1
  <2>1. call' = [call EXCEPT ![f] = [c EXCEPT !.todo = Rest(c.todo)]]
    BY <1>1, <1>6 DEF StatAnswered
  <2>2. GoodCall([c EXCEPT !.todo = Rest(c.todo)])
    BY <1>3, <1>4, <1>6, AskingGood
  <2> QED BY <2>1, <2>2, Replaced
<1>7. CASE answer # "served" /\ ~(Len(c.todo) > 1)
  <2>1. Settle(f, c, Verdict(c.asked), FALSE)
    BY <1>1, <1>7 DEF StatAnswered
  <2>2. \A q \in Provider : c.asked[q] \in Reply
    BY <1>3 DEF IsCall
  <2>3. /\ Verdict(c.asked) \in Definitive => Said(c.asked, {Verdict(c.asked)})
        /\ Verdict(c.asked) = "unavailable" => ~Said(c.asked, Definitive)
    BY VerdictSays
  <2> QED BY <2>1, <2>3, <1>3, Settled
<1> QED BY <1>5, <1>6, <1>7

\* One step per action.
LEMMA Step == IInv /\ [Next]_vars => IInv'
<1> SUFFICES ASSUME IInv, [Next]_vars PROVE IInv'
  OBVIOUS
<1>1. ASSUME NEW f \in Call, NEW up \in SUBSET Provider, NEW only \in SUBSET Provider,
             NEW stat \in BOOLEAN, Start(f, up, stat, only)
      PROVE  IInv'
  BY <1>1, StartGood
<1>2. ASSUME NEW f \in Call, NEW answer \in Answer, BodyAnswered(f, answer)
      PROVE  IInv'
  BY <1>2, BodyGood
<1>3. ASSUME NEW f \in Call, NEW answer \in Answer, StatAnswered(f, answer)
      PROVE  IInv'
  BY <1>3, StatGood
<1>4. ASSUME NEW f \in Call, Abort(f)
      PROVE  IInv'
  BY <1>4, AbortGood
<1>5. ASSUME NEW f \in Call, Return(f)
      PROVE  IInv'
  BY <1>5, IdleGood, Replaced DEF Return
<1>6. CASE Expire \/ UNCHANGED vars
  <2>1. call' = call
    BY <1>6 DEF Expire, vars
  <2> QED BY <2>1 DEF IInv, GoodCall, IsCall, Looping, HonestCall, Said
<1> QED BY <1>1, <1>2, <1>3, <1>4, <1>5, <1>6 DEF Next

\* The loop goes on only past known failures, and what has ended is honest.
THEOREM LoopInvariance == Spec => []IInv
<1>1. Init => IInv
  <2> SUFFICES ASSUME Init PROVE IInv
    OBVIOUS
  <2>1. \A f \in Call : GoodCall(call[f])
    BY IdleGood DEF Init
  <2> QED BY <2>1 DEF Init, IInv
<1> QED BY <1>1, Step, PTL DEF Spec

\* A verdict is honest (submitWithFailover, segment-fetcher.ts:661): "missing" or
\* "corrupt" is what some provider answered, "unavailable" that none gave a
\* definitive answer, and a final verdict that all that were asked did.
THEOREM VerdictsAlwaysHonest == Spec => []VerdictsHonest
<1>1. IInv => VerdictsHonest
  BY DEF IInv, GoodCall, HonestCall, VerdictsHonest, Final
<1> QED BY <1>1, LoopInvariance, PTL

--------------------------------------------------------------------------------
(* The walk along the providers: whoever was healthy at the start has been *)
(* asked or is still to be asked, and nobody is asked twice.               *)

Walks(c) ==
  /\ c \in Calls
  /\ IsInjective(c.todo)
  /\ \A p \in ToSet(c.todo) : c.asked[p] = None
  /\ c.st = "asking" <=> c.todo # <<>>
  /\ c.st = "done" <=> c.result # None
  /\ \A p \in ToSet(c.todo) : p \in c.only
  /\ \A p \in Provider \ c.only : c.asked[p] = None
  /\ c.st = "asking" => \A p \in c.up \intersect c.only : p \in ToSet(c.todo) \/ c.asked[p] # None
  /\ c.result \in {"missing", "corrupt", "unavailable", "unanswered"} =>
       \A p \in c.up \intersect c.only : c.asked[p] # None

WInv ==
  /\ call = [f \in Call |-> call[f]]
  /\ \A f \in Call : Walks(call[f])
  /\ affinity \in [Provider -> [served : 0..MaxSamples, missed : 0..MaxSamples, demoted : BOOLEAN]]

\* Every permutation of a finite set lists all of it, once each.
LEMMA PermutationFacts ==
  ASSUME NEW S, IsFiniteSet(S), NEW list \in SetToSeqs(S)
  PROVE  list \in Seq(S) /\ IsInjective(list) /\ ToSet(list) = S
<1> DEFINE n == Cardinality(S)
<1>1. n \in Nat
  BY FS_CardinalityType
<1>2. list \in [1..n -> S] /\ \A i, j \in 1..n : i # j => list[i] # list[j]
  BY DEF SetToSeqs
<1>3. list \in Seq(S) /\ Len(list) = n /\ DOMAIN list = 1..n
  BY <1>1, <1>2, IsASeq
<1>4. list \in Injection(1..n, S)
  BY <1>2 DEF Injection, IsInjective
<1>5. IsFiniteSet(1..n) /\ Cardinality(1..n) = n
  BY <1>1, FS_Interval
<1>6. list \in Surjection(1..n, S)
  BY <1>4, <1>5, FS_Injection
<1>7. ToSet(list) = S
  BY <1>3, <1>2, <1>6 DEF ToSet, Surjection
<1>8. IsInjective(list)
  BY <1>3, <1>2 DEF IsInjective
<1> QED BY <1>3, <1>7, <1>8

\* No provider that the caller allows drops out of the order, whatever is demoted
\* or tripped, and none that it leaves out gets in.
LEMMA OrderFacts ==
  ASSUME NEW up \in SUBSET Provider, NEW only \in SUBSET Provider, NEW list \in Orders(up, only)
  PROVE  list \in Seq(Provider) /\ IsInjective(list) /\ up \intersect only \subseteq ToSet(list) /\ ToSet(list) \subseteq only
<1> DEFINE S == Candidates(up) \intersect only
<1>1. S \subseteq Provider /\ up \intersect only \subseteq S /\ S \subseteq only
  BY ProviderAssumption DEF Candidates, Tier
<1>2. IsFiniteSet(S)
  BY <1>1, ProviderAssumption, FS_Subset
<1>3. list \in SetToSeqs(S)
  BY DEF Orders
<1> HIDE DEF S
<1>4. list \in Seq(S) /\ IsInjective(list) /\ ToSet(list) = S
  BY <1>2, <1>3, PermutationFacts
<1>5. list \in Seq(Provider)
  BY <1>1, <1>4
<1> QED BY <1>1, <1>4, <1>5

\* Behind the head come the others.
LEMMA TailFacts ==
  ASSUME NEW S, NEW q \in Seq(S), q # <<>>, IsInjective(q)
  PROVE  /\ Tail(q) \in Seq(S) /\ IsInjective(Tail(q)) /\ Head(q) \in S /\ Head(q) \in ToSet(q)
         /\ ToSet(Tail(q)) = ToSet(q) \ {Head(q)}
         /\ Tail(q) # <<>> <=> Len(q) > 1
<1>1. /\ Len(q) \in Nat /\ Len(q) > 0 /\ DOMAIN q = 1..Len(q)
      /\ Head(q) = q[1] /\ Head(q) \in S
  OBVIOUS
<1>2. /\ Tail(q) \in Seq(S) /\ DOMAIN Tail(q) = 1..(Len(q) - 1) /\ Len(Tail(q)) = Len(q) - 1
      /\ \A i \in 1..(Len(q) - 1) : Tail(q)[i] = q[i + 1]
  BY <1>1
<1>3. \A i, j \in 1..Len(q) : q[i] = q[j] => i = j
  BY <1>1 DEF IsInjective
<1>4. IsInjective(Tail(q))
  <2> SUFFICES ASSUME NEW i \in 1..(Len(q) - 1), NEW j \in 1..(Len(q) - 1), Tail(q)[i] = Tail(q)[j]
               PROVE  i = j
    BY <1>2 DEF IsInjective
  <2>1. i + 1 \in 1..Len(q) /\ j + 1 \in 1..Len(q) /\ q[i + 1] = q[j + 1]
    BY <1>1, <1>2
  <2> QED BY <1>3, <2>1
<1>5. ToSet(Tail(q)) \subseteq ToSet(q) \ {Head(q)}
  <2> SUFFICES ASSUME NEW i \in 1..(Len(q) - 1) PROVE Tail(q)[i] \in ToSet(q) \ {Head(q)}
    BY <1>2 DEF ToSet
  <2>1. i + 1 \in 1..Len(q) /\ i + 1 # 1 /\ 1 \in 1..Len(q) /\ Tail(q)[i] = q[i + 1]
    BY <1>1, <1>2
  <2> QED BY <1>1, <1>3, <2>1 DEF ToSet
<1>6. ToSet(q) \ {Head(q)} \subseteq ToSet(Tail(q))
  <2> SUFFICES ASSUME NEW i \in 1..Len(q), q[i] # q[1] PROVE q[i] \in ToSet(Tail(q))
    BY <1>1 DEF ToSet
  <2>1. i # 1
    OBVIOUS
  <2>2. i - 1 \in 1..(Len(q) - 1) /\ q[i] = Tail(q)[i - 1]
    BY <1>1, <1>2, <2>1
  <2> QED BY <1>2, <2>2 DEF ToSet
<1>7. Head(q) \in ToSet(q)
  BY <1>1 DEF ToSet
<1>8. Tail(q) # <<>> <=> Len(q) > 1
  BY <1>1, <1>2
<1>9. ToSet(Tail(q)) = ToSet(q) \ {Head(q)}
  BY <1>5, <1>6
<1> QED BY <1>1, <1>2, <1>4, <1>7, <1>8, <1>9

\* Records of providers that rate one another stay within the bound.
LEMMA RecordTyped ==
  ASSUME WInv, NEW p \in Provider, NEW stat, NEW answer, Record(p, stat, answer)
  PROVE  affinity' \in [Provider -> [served : 0..MaxSamples, missed : 0..MaxSamples, demoted : BOOLEAN]]
<1> DEFINE T == [served : 0..MaxSamples, missed : 0..MaxSamples, demoted : BOOLEAN]
<1>1. affinity \in [Provider -> T]
  BY DEF WInv
<1>2. MaxSamples \in Nat
  BY RatioAssumption
<1>3. ASSUME NEW a \in T, a.served + a.missed < MaxSamples
      PROVE  /\ Rated(a.served + 1, a.missed, a.demoted) \in T
             /\ Rated(a.served, a.missed + 1, a.demoted) \in T
  <2>1. a.served \in 0..MaxSamples /\ a.missed \in 0..MaxSamples /\ a.demoted \in BOOLEAN
    OBVIOUS
  <2>2. a.served + 1 \in 0..MaxSamples /\ a.missed + 1 \in 0..MaxSamples
    BY <1>2, <1>3, <2>1
  <2>3. ASSUME NEW served \in 0..MaxSamples, NEW missed \in 0..MaxSamples
        PROVE  Rated(served, missed, a.demoted) \in T
    <3> DEFINE d == IF a.demoted THEN missed * 100 > RecoverPct * (served + missed)
                                 ELSE /\ served + missed >= MinSamples
                                      /\ missed * 100 >= DemotePct * (served + missed)
    <3>1. Rated(served, missed, a.demoted) = [served |-> served, missed |-> missed, demoted |-> d]
      BY Zenon DEF Rated
    <3>2. d \in BOOLEAN
      <4>1. CASE a.demoted
        <5>1. d = (missed * 100 > RecoverPct * (served + missed))
          BY <4>1, Zenon
        <5>2. (missed * 100 > RecoverPct * (served + missed)) \in BOOLEAN
          OBVIOUS
        <5> QED BY <5>1, <5>2, Zenon
      <4>2. CASE ~a.demoted
        <5>1. d = (/\ served + missed >= MinSamples
                   /\ missed * 100 >= DemotePct * (served + missed))
          BY <4>2, Zenon
        <5>2. (/\ served + missed >= MinSamples
               /\ missed * 100 >= DemotePct * (served + missed)) \in BOOLEAN
          OBVIOUS
        <5> QED BY <5>1, <5>2, Zenon
      <4> QED BY <4>1, <4>2
    <3> HIDE DEF d
    <3> QED BY <3>1, <3>2
  <2> HIDE DEF T
  <2> QED BY <2>1, <2>2, <2>3
<1>4. affinity[p] \in T
  BY <1>1
<1>5. \/ affinity' = affinity
      \/ /\ affinity[p].served + affinity[p].missed < MaxSamples
         /\ \/ affinity' = [affinity EXCEPT ![p] = Rated(affinity[p].served + 1, affinity[p].missed, affinity[p].demoted)]
            \/ affinity' = [affinity EXCEPT ![p] = Rated(affinity[p].served, affinity[p].missed + 1, affinity[p].demoted)]
  BY DEF Record
<1>6. ASSUME NEW r \in T, affinity' = [affinity EXCEPT ![p] = r]
      PROVE  affinity' \in [Provider -> T]
  BY <1>1, <1>6
<1>7. affinity' \in [Provider -> T]
  <2> HIDE DEF T
  <2> QED BY <1>1, <1>3, <1>4, <1>5, <1>6
<1> QED BY <1>7

\* A call replaced by one that walks.
LEMMA WalkReplaced ==
  ASSUME WInv, NEW f \in Call, NEW c, Walks(c), call' = [call EXCEPT ![f] = c],
         affinity' \in [Provider -> [served : 0..MaxSamples, missed : 0..MaxSamples, demoted : BOOLEAN]]
  PROVE  WInv'
<1>1. call' = [g \in Call |-> IF g = f THEN c ELSE call[g]]
  BY DEF WInv
<1>2. \A g \in Call : Walks(call'[g])
  BY <1>1 DEF WInv
<1>3. call' = [g \in Call |-> call'[g]]
  BY <1>1
<1> QED BY <1>2, <1>3 DEF WInv, Walks

\* A call not under way.
LEMMA IdleWalks == Walks(Idle)
<1>1. Idle \in Calls
  BY DEF Idle, Calls
<1>2. /\ Idle.st = "idle" /\ Idle.todo = <<>> /\ Idle.result = None
      /\ Idle.only = Provider
  BY DEF Idle
<1>3. ToSet(<<>>) = {} /\ IsInjective(<<>>)
  BY DEF ToSet, IsInjective
<1> QED BY <1>1, <1>2, <1>3, NoneAssumption DEF Walks

\* The fields of a call, and of one that differs from it in some of them.
LEMMA CallFields ==
  ASSUME NEW c \in Calls
  PROVE  /\ c.st \in {"idle", "asking", "done"} /\ c.stat \in BOOLEAN /\ c.up \in SUBSET Provider
         /\ c.only \in SUBSET Provider /\ c.todo \in Seq(Provider) /\ c.asked \in [Provider -> Answer \union {None}]
         /\ c.aborted \in BOOLEAN /\ c.final \in BOOLEAN
         /\ c.result \in {None, "served", "missing", "corrupt", "unavailable", "unanswered", "aborted", "fatal"}
BY DEF Calls

OnTo(c, todo) == [c EXCEPT !.todo = todo]
Done(c, result, final) == [c EXCEPT !.st = "done", !.todo = <<>>, !.result = result, !.final = final]

\* An answer is noted against its provider and changes nothing else.
LEMMA AnswerFields ==
  ASSUME NEW c \in Calls, NEW p, NEW answer \in Answer, NEW n, n = Answered(c, p, answer)
  PROVE  /\ n \in Calls /\ n.st = c.st /\ n.up = c.up /\ n.only = c.only /\ n.todo = c.todo /\ n.result = c.result
         /\ n.asked = [c.asked EXCEPT ![p] = answer]
<1>1. n = [c EXCEPT !.asked = [c.asked EXCEPT ![p] = answer]]
  BY DEF Calls, Answered
<1>2. [c.asked EXCEPT ![p] = answer] \in [Provider -> Answer \union {None}]
  BY CallFields
<1>3. ASSUME NEW asked \in [Provider -> Answer \union {None}], n = [c EXCEPT !.asked = asked]
      PROVE  /\ n \in Calls /\ n.st = c.st /\ n.up = c.up /\ n.only = c.only /\ n.todo = c.todo /\ n.result = c.result
             /\ n.asked = asked
  BY <1>3 DEF Calls
<1> QED BY <1>1, <1>2, <1>3

FieldsOfOnTo(c, todo, n) ==
  /\ n \in Calls /\ n.st = c.st /\ n.up = c.up /\ n.only = c.only /\ n.todo = todo /\ n.asked = c.asked
  /\ n.result = c.result

\* The fields of a call that goes on to the next provider.
LEMMA TodoFields ==
  ASSUME NEW c \in Calls, NEW todo \in Seq(Provider)
  PROVE  FieldsOfOnTo(c, todo, OnTo(c, todo))
<1> DEFINE n == OnTo(c, todo)
<1>1. /\ n \in Calls /\ n.st = c.st /\ n.up = c.up /\ n.only = c.only /\ n.todo = todo /\ n.asked = c.asked
      /\ n.result = c.result
  BY DEF Calls, OnTo
<1> QED BY <1>1, Zenon DEF FieldsOfOnTo

FieldsOfDone(c, result, n) ==
  /\ n \in Calls /\ n.st = "done" /\ n.up = c.up /\ n.only = c.only /\ n.todo = <<>> /\ n.asked = c.asked
  /\ n.result = result

\* The fields of a call that has ended.
LEMMA DoneFields ==
  ASSUME NEW c \in Calls, NEW final \in BOOLEAN,
         NEW result \in {"served", "missing", "corrupt", "unavailable", "unanswered", "aborted", "fatal"}
  PROVE  FieldsOfDone(c, result, Done(c, result, final))
<1> DEFINE n == Done(c, result, final)
<1>1. <<>> \in Seq(Provider)
  OBVIOUS
<1>2. /\ n \in Calls /\ n.st = "done" /\ n.up = c.up /\ n.only = c.only /\ n.todo = <<>> /\ n.asked = c.asked
      /\ n.result = result
  BY <1>1 DEF Calls, Done
<1> QED BY <1>2, Zenon DEF FieldsOfDone

\* One more answer: that provider is not asked again, the others are as they were.
Heard(old, c) ==
  /\ c \in Calls /\ c.st = "asking" /\ c.result = None
  /\ c.up = old.up /\ c.only = old.only /\ c.todo = old.todo /\ c.todo # <<>> /\ IsInjective(c.todo)
  /\ c.asked[Head(c.todo)] # None
  /\ \A p \in ToSet(Tail(c.todo)) : c.asked[p] = None
  /\ \A p \in c.up \intersect c.only : p \in ToSet(Tail(c.todo)) \/ c.asked[p] # None
  /\ \A p \in ToSet(Tail(c.todo)) : p \in c.only
  /\ \A p \in Provider \ c.only : c.asked[p] = None

\* The first in the list was not asked before, and is now.
LEMMA AnswerHeard ==
  ASSUME NEW old, Walks(old), old.st = "asking", NEW answer \in Answer,
         NEW c, c = Answered(old, Head(old.todo), answer)
  PROVE  /\ Heard(old, c) /\ Head(old.todo) \in Provider /\ old.asked[Head(old.todo)] = None
         /\ c.asked = [old.asked EXCEPT ![Head(old.todo)] = answer]
<1> DEFINE p == Head(old.todo)
<1>1. old \in Calls /\ old.todo # <<>> /\ IsInjective(old.todo) /\ old.todo \in Seq(Provider)
  BY CallFields DEF Walks
<1>2. /\ p \in Provider /\ p \in ToSet(old.todo)
      /\ ToSet(Tail(old.todo)) = ToSet(old.todo) \ {p}
  BY <1>1, TailFacts
<1>3. /\ c \in Calls /\ c.st = old.st /\ c.up = old.up /\ c.only = old.only /\ c.todo = old.todo /\ c.result = old.result
      /\ c.asked = [old.asked EXCEPT ![p] = answer]
      /\ old.asked \in [Provider -> Answer \union {None}] /\ old.up \in SUBSET Provider /\ old.only \in SUBSET Provider
  BY <1>1, CallFields, AnswerFields
<1>4. c.asked[p] = answer /\ answer # None
  BY <1>2, <1>3, NoneAssumption DEF Answer
<1>5. \A q \in Provider : q # p => c.asked[q] = old.asked[q]
  BY <1>2, <1>3
<1>6. \A q \in ToSet(old.todo) : old.asked[q] = None /\ q \in Provider
  BY <1>1 DEF Walks, ToSet
<1>7. \A q \in ToSet(Tail(c.todo)) : c.asked[q] = None
  BY <1>2, <1>3, <1>5, <1>6
<1>8. \A q \in c.up \intersect c.only : q \in ToSet(Tail(c.todo)) \/ c.asked[q] # None
  <2> SUFFICES ASSUME NEW q \in c.up \intersect c.only, q # p PROVE q \in ToSet(Tail(c.todo)) \/ c.asked[q] # None
    BY <1>4
  <2>1. q \in ToSet(old.todo) \/ old.asked[q] # None
    BY <1>3 DEF Walks
  <2> QED BY <2>1, <1>2, <1>3, <1>5
<1>9. c.result = None /\ c.st = "asking"
  BY <1>3 DEF Walks
<1>10. (\A q \in ToSet(Tail(c.todo)) : q \in c.only) /\ \A q \in Provider \ c.only : c.asked[q] = None
  <2>1. \A q \in ToSet(old.todo) : q \in old.only
    BY DEF Walks
  <2>2. p \in old.only
    BY <1>2, <2>1
  <2>3. \A q \in Provider \ old.only : old.asked[q] = None /\ q # p
    BY <2>2 DEF Walks
  <2> QED BY <1>2, <1>3, <1>5, <2>1, <2>3
<1> QED BY <1>1, <1>2, <1>3, <1>4, <1>6, <1>7, <1>8, <1>9, <1>10 DEF Heard

\* The next one is asked.
LEMMA OnwardWalks ==
  ASSUME NEW old, NEW c, Heard(old, c), Len(c.todo) > 1
  PROVE  Walks(OnTo(c, Rest(c.todo)))
<1>0. PICK n : n = OnTo(c, Rest(c.todo))
  OBVIOUS
<1>1. c \in Calls /\ c.todo \in Seq(Provider) /\ c.todo # <<>> /\ IsInjective(c.todo)
  BY CallFields DEF Heard
<1>2. Tail(c.todo) \in Seq(Provider) /\ IsInjective(Tail(c.todo)) /\ Tail(c.todo) # <<>>
  BY <1>1, TailFacts
<1>3. /\ n \in Calls /\ n.st = c.st /\ n.up = c.up /\ n.only = c.only /\ n.todo = Tail(c.todo) /\ n.asked = c.asked
      /\ n.result = c.result
  <2>1. FieldsOfOnTo(c, Tail(c.todo), OnTo(c, Tail(c.todo)))
    BY <1>1, <1>2, TodoFields
  <2>2. n = OnTo(c, Tail(c.todo))
    BY <1>0, Zenon DEF Rest
  <2> QED BY <2>1, <2>2, Zenon DEF FieldsOfOnTo
<1>4. Walks(n)
  BY <1>2, <1>3, NoneAssumption DEF Walks, Heard
<1> QED BY <1>0, <1>4

\* The loop ends: with a failure only when nobody is left to ask.
LEMMA SettledWalks ==
  ASSUME NEW old, NEW c, Heard(old, c), NEW final \in BOOLEAN,
         NEW result \in {"served", "missing", "corrupt", "unavailable", "unanswered", "aborted", "fatal"},
         result \in {"missing", "corrupt", "unavailable", "unanswered"} => ~(Len(c.todo) > 1),
         NEW n, n = Done(c, result, final)
  PROVE  Walks(n)
<1>1. c \in Calls /\ c.todo \in Seq(Provider) /\ c.todo # <<>> /\ IsInjective(c.todo)
  BY CallFields DEF Heard
<1>2. ~(Len(c.todo) > 1) => Tail(c.todo) = <<>>
  BY <1>1, TailFacts
<1>3. /\ n \in Calls /\ n.st = "done" /\ n.up = c.up /\ n.only = c.only /\ n.todo = <<>> /\ n.asked = c.asked
      /\ n.result = result
  <2>1. FieldsOfDone(c, result, Done(c, result, final))
    BY <1>1, DoneFields
  <2> QED BY <2>1, Zenon DEF FieldsOfDone
<1>4. ToSet(<<>>) = {} /\ IsInjective(<<>>)
  BY DEF ToSet, IsInjective
<1>5. result \in {"missing", "corrupt", "unavailable", "unanswered"} =>
        \A p \in n.up \intersect n.only : n.asked[p] # None
  BY <1>2, <1>3, <1>4 DEF Heard
<1>6. \A p \in Provider \ n.only : n.asked[p] = None
  BY <1>3 DEF Heard
<1> QED BY <1>3, <1>4, <1>5, <1>6, NoneAssumption DEF Walks

\* The loop has three verdicts.
LEMMA VerdictKind == \A asked : Verdict(asked) \in {"missing", "corrupt", "unavailable"}
BY DEF Verdict

\* A call starts with a list of all candidates the caller allows.
LEMMA StartWalks ==
  ASSUME WInv, NEW f \in Call, NEW up \in SUBSET Provider, NEW only \in SUBSET Provider,
         NEW stat \in BOOLEAN, Start(f, up, stat, only)
  PROVE  WInv'
<1>1. PICK order \in Orders(up, only) : call' = [call EXCEPT ![f] = Started(up, stat, only, order)]
  BY DEF Start
<1>2. /\ order \in Seq(Provider) /\ IsInjective(order)
      /\ up \intersect only \subseteq ToSet(order) /\ ToSet(order) \subseteq only
  BY OrderFacts
<1>3. PICK c : c = Started(up, stat, only, order)
  OBVIOUS
<1>4. /\ c.st = (IF order # <<>> THEN "asking" ELSE "done") /\ c.todo = order /\ c.up = up /\ c.only = only
      /\ c.asked = [p \in Provider |-> None] /\ c.result = (IF order # <<>> THEN None ELSE "unanswered")
  BY <1>3, StartedFields
<1>5. c \in Calls
  BY <1>2, <1>3, StartedFields DEF Calls
<1>6. \A p \in ToSet(order) : p \in Provider
  BY <1>2
<1>7. order = <<>> => up \intersect only = {}
  BY <1>2 DEF ToSet
<1>8. Walks(c)
  BY <1>2, <1>4, <1>5, <1>6, <1>7, NoneAssumption DEF Walks
<1> QED BY <1>1, <1>3, <1>8, WalkReplaced DEF Start, WInv

\* An abort leaves the list alone.
LEMMA AbortWalks ==
  ASSUME WInv, NEW f \in Call, Abort(f)
  PROVE  WInv'
<1>1. PICK c : c = [call[f] EXCEPT !.aborted = TRUE]
  OBVIOUS
<1>2. Walks(call[f])
  BY DEF WInv
<1>3. /\ c \in Calls /\ c.st = call[f].st /\ c.up = call[f].up /\ c.only = call[f].only /\ c.todo = call[f].todo
      /\ c.asked = call[f].asked /\ c.result = call[f].result
  BY <1>1, <1>2 DEF Walks, Calls
<1>4. Walks(c)
  BY <1>2, <1>3 DEF Walks
<1>5. call' = [call EXCEPT ![f] = c]
  BY <1>1 DEF WInv, Abort
<1> QED BY <1>4, <1>5, WalkReplaced DEF Abort, WInv

\* A body request is answered: on to the next, or the end.
LEMMA BodyWalks ==
  ASSUME WInv, NEW f \in Call, NEW answer \in Answer, BodyAnswered(f, answer)
  PROVE  WInv'
<1>1. PICK c : c = Answered(call[f], Head(call[f].todo), answer)
  OBVIOUS
<1>2. Walks(call[f]) /\ call[f].st = "asking"
  BY DEF WInv, BodyAnswered
<1>3. Heard(call[f], c) /\ Head(call[f].todo) \in Provider
  BY <1>1, <1>2, AnswerHeard
<1>4. affinity' \in [Provider -> [served : 0..MaxSamples, missed : 0..MaxSamples, demoted : BOOLEAN]]
  BY <1>3, RecordTyped DEF BodyAnswered, WInv
<1>5. \/ \E result \in {"served", "aborted", "fatal"} : Settle(f, c, result, FALSE)
      \/ Continue(f, c)
  BY <1>1 DEF BodyAnswered, Answered
<1>6. ASSUME NEW result \in {"served", "aborted", "fatal"}, Settle(f, c, result, FALSE)
      PROVE  WInv'
  <2>1. PICK n : n = Done(c, result, FALSE)
    OBVIOUS
  <2>2. Walks(n)
    BY <2>1, <1>3, SettledWalks
  <2>3. call' = [call EXCEPT ![f] = n]
    BY <1>6, <2>1 DEF Settle, Done
  <2> QED BY <2>2, <2>3, <1>4, WalkReplaced
<1>7. CASE Continue(f, c) /\ Len(c.todo) > 1
  <2>1. call' = [call EXCEPT ![f] = OnTo(c, Rest(c.todo))]
    BY <1>7 DEF Continue, OnTo
  <2>2. Walks(OnTo(c, Rest(c.todo)))
    BY <1>3, <1>7, OnwardWalks
  <2> QED BY <2>1, <2>2, <1>4, WalkReplaced
<1>8. CASE Continue(f, c) /\ ~(Len(c.todo) > 1)
  <2>1. Settle(f, c, Verdict(c.asked), Said(c.asked, Definitive) /\ Exhausted(c.asked))
    BY <1>8 DEF Continue
  <2>2. PICK final \in BOOLEAN : Settle(f, c, Verdict(c.asked), final)
    BY <2>1 DEF Said, Exhausted
  <2>3. PICK n : n = Done(c, Verdict(c.asked), final)
    OBVIOUS
  <2>4. Walks(n)
    BY <2>3, <1>3, <1>8, VerdictKind, SettledWalks
  <2>5. call' = [call EXCEPT ![f] = n]
    BY <2>2, <2>3 DEF Settle, Done
  <2> QED BY <2>4, <2>5, <1>4, WalkReplaced
<1> QED BY <1>5, <1>6, <1>7, <1>8

\* A STAT is answered: on to the next, or the end.
LEMMA StatWalks ==
  ASSUME WInv, NEW f \in Call, NEW answer \in Answer, StatAnswered(f, answer)
  PROVE  WInv'
<1>1. PICK c : c = Answered(call[f], Head(call[f].todo), answer)
  OBVIOUS
<1>2. Walks(call[f]) /\ call[f].st = "asking"
  BY DEF WInv, StatAnswered
<1>3. Heard(call[f], c) /\ Head(call[f].todo) \in Provider
  BY <1>1, <1>2, AnswerHeard
<1>4. affinity' \in [Provider -> [served : 0..MaxSamples, missed : 0..MaxSamples, demoted : BOOLEAN]]
  BY <1>3, RecordTyped DEF StatAnswered
<1>5. \/ Settle(f, c, "served", FALSE)
      \/ Len(c.todo) > 1 /\ call' = [call EXCEPT ![f] = OnTo(c, Rest(c.todo))]
      \/ ~(Len(c.todo) > 1) /\ Settle(f, c, Verdict(c.asked), FALSE)
  BY <1>1 DEF StatAnswered, Answered, OnTo
<1>6. ASSUME NEW result \in {"served", "missing", "corrupt", "unavailable"}, Settle(f, c, result, FALSE),
             result # "served" => ~(Len(c.todo) > 1)
      PROVE  WInv'
  <2>1. PICK n : n = Done(c, result, FALSE)
    OBVIOUS
  <2>2. Walks(n)
    BY <2>1, <1>3, <1>6, SettledWalks
  <2>3. call' = [call EXCEPT ![f] = n]
    BY <1>6, <2>1 DEF Settle, Done
  <2> QED BY <2>2, <2>3, <1>4, WalkReplaced
<1>7. CASE Len(c.todo) > 1 /\ call' = [call EXCEPT ![f] = OnTo(c, Rest(c.todo))]
  <2>1. Walks(OnTo(c, Rest(c.todo)))
    BY <1>3, <1>7, OnwardWalks
  <2> QED BY <2>1, <1>4, <1>7, WalkReplaced
<1> QED BY <1>5, <1>6, <1>7, VerdictKind

\* An expired record concerns no walk.
LEMMA ExpireWalks == WInv /\ Expire => WInv'
<1> SUFFICES ASSUME WInv, Expire PROVE WInv'
  OBVIOUS
<1>1. Unrated \in [served : 0..MaxSamples, missed : 0..MaxSamples, demoted : BOOLEAN]
  BY RatioAssumption DEF Unrated
<1>2. call' = call /\ affinity' = [p \in Provider |-> Unrated]
  BY DEF Expire
<1> QED BY <1>1, <1>2 DEF WInv, Walks

\* One step per action.
LEMMA WalkStep == WInv /\ [Next]_vars => WInv'
<1> SUFFICES ASSUME WInv, [Next]_vars PROVE WInv'
  OBVIOUS
<1>1. ASSUME NEW f \in Call, NEW up \in SUBSET Provider, NEW only \in SUBSET Provider,
             NEW stat \in BOOLEAN, Start(f, up, stat, only)
      PROVE  WInv'
  BY <1>1, StartWalks
<1>2. ASSUME NEW f \in Call, NEW answer \in Answer, BodyAnswered(f, answer)
      PROVE  WInv'
  BY <1>2, BodyWalks
<1>3. ASSUME NEW f \in Call, NEW answer \in Answer, StatAnswered(f, answer)
      PROVE  WInv'
  BY <1>3, StatWalks
<1>4. ASSUME NEW f \in Call, Abort(f)
      PROVE  WInv'
  BY <1>4, AbortWalks
<1>5. ASSUME NEW f \in Call, Return(f)
      PROVE  WInv'
  BY <1>5, IdleWalks, WalkReplaced DEF Return, WInv
<1>6. CASE Expire
  BY <1>6, ExpireWalks
<1>7. CASE UNCHANGED vars
  BY <1>7 DEF vars, WInv, Walks
<1> QED BY <1>1, <1>2, <1>3, <1>4, <1>5, <1>6, <1>7 DEF Next

\* Whoever was healthy at the start and is allowed by the caller is still in the
\* list or has answered, and the list names nobody twice, nobody who answered and
\* nobody whom the caller leaves out.
THEOREM WalkInvariance == Spec => []WInv
<1>1. Init => WInv
  <2> SUFFICES ASSUME Init PROVE WInv
    OBVIOUS
  <2>1. Unrated \in [served : 0..MaxSamples, missed : 0..MaxSamples, demoted : BOOLEAN]
    BY RatioAssumption DEF Unrated
  <2>2. \A f \in Call : Walks(call[f])
    BY IdleWalks DEF Init
  <2> QED BY <2>1, <2>2 DEF Init, WInv
<1> QED BY <1>1, WalkStep, PTL DEF Spec

\* "every fetch still falls through the full provider list" (segment-fetcher.ts:202):
\* a call fails only after it has asked every provider that was healthy when it
\* started and that its caller allows, and asks nobody twice or against its
\* caller's will.
THEOREM NobodyIsSkipped == Spec => []LoopSound
<1>1. WInv => LoopSound
  <2> SUFFICES ASSUME WInv PROVE LoopSound
    OBVIOUS
  <2>1. \A f \in Call : call[f] \in Calls
    BY DEF WInv, Walks
  <2>2. call \in [Call -> Calls]
    BY <2>1 DEF WInv
  <2>3. TypeOK
    BY <2>2 DEF WInv, Walks, TypeOK
  <2>4. AsksEveryHealthyProvider
    BY DEF WInv, Walks, AsksEveryHealthyProvider, Failed
  <2> QED BY <2>3, <2>4 DEF LoopSound
<1> QED BY <1>1, WalkInvariance, PTL

--------------------------------------------------------------------------------
(* The record: what is demoted misses more than the share below which it   *)
(* would come back, so that one more miss never brings it back.            *)

Sensible(a) == a.demoted => a.missed * 100 > RecoverPct * (a.served + a.missed)

RInv == WInv /\ \A p \in Provider : Sensible(affinity[p])

Rating == [served : 0..MaxSamples, missed : 0..MaxSamples, demoted : BOOLEAN]

\* The multiples of the ratios that the comparison of two records needs.
LEMMA Products ==
  /\ \A n \in Nat : n > 0 => RecoverPct * n < DemotePct * n
  /\ \A n \in Nat : RecoverPct * (n + 1) = RecoverPct * n + RecoverPct
<1>1. RecoverPct \in Nat /\ DemotePct \in Nat /\ RecoverPct < DemotePct
  BY RatioAssumption
<1>2. ASSUME NEW n \in Nat, n > 0 PROVE RecoverPct * n < DemotePct * n
  <2>1. PICK d \in Nat : d > 0 /\ DemotePct = RecoverPct + d
    <3>1. DemotePct - RecoverPct \in Nat /\ DemotePct - RecoverPct > 0
          /\ DemotePct = RecoverPct + (DemotePct - RecoverPct)
      BY <1>1
    <3> QED BY <3>1
  <2>2. DemotePct * n = RecoverPct * n + d * n /\ d * n > 0 /\ RecoverPct * n \in Nat
    BY <1>1, <1>2, <2>1
  <2> QED BY <2>2
<1>3. ASSUME NEW n \in Nat PROVE RecoverPct * (n + 1) = RecoverPct * n + RecoverPct
  BY <1>1
<1> QED BY <1>2, <1>3

\* What Rated says of any counts, and of one more miss of a demoted provider.
LEMMA RatedSensible ==
  ASSUME NEW served \in Nat, NEW missed \in Nat, NEW demoted \in BOOLEAN
  PROVE  Sensible(Rated(served, missed, demoted))
<1> DEFINE n == served + missed
           r == Rated(served, missed, demoted)
<1>1. r.served = served /\ r.missed = missed
  BY DEF Rated
<1>2. CASE demoted
  <2>1. r.demoted = (missed * 100 > RecoverPct * n)
    BY <1>2 DEF Rated
  <2> QED BY <1>1, <2>1 DEF Sensible
<1>3. CASE ~demoted
  <2>1. r.demoted => n >= MinSamples /\ missed * 100 >= DemotePct * n
    BY <1>3 DEF Rated
  <2>2. n \in Nat /\ (n >= MinSamples => n > 0)
    BY RatioAssumption
  <2>3. n > 0 => RecoverPct * n < DemotePct * n
    BY <2>2, Products
  <2>4. RecoverPct * n \in Nat /\ DemotePct * n \in Nat /\ missed * 100 \in Nat
    BY <2>2, RatioAssumption
  <2>5. r.demoted => missed * 100 > RecoverPct * n
    <3> HIDE DEF n, r
    <3> QED BY <2>1, <2>2, <2>3, <2>4
  <2> QED BY <1>1, <2>5 DEF Sensible
<1> QED BY <1>2, <1>3

\* One more miss never brings a demoted provider back.
LEMMA OneMoreMiss ==
  ASSUME NEW a \in Rating, Sensible(a), a.demoted
  PROVE  Rated(a.served, a.missed + 1, a.demoted).demoted
<1> DEFINE n == a.served + a.missed
<1>1. a.served \in Nat /\ a.missed \in Nat /\ n \in Nat /\ MaxSamples \in Nat
  BY RatioAssumption DEF Rating
<1>2. a.missed * 100 > RecoverPct * n
  BY DEF Sensible
<1>3. RecoverPct * (n + 1) = RecoverPct * n + RecoverPct /\ RecoverPct <= 100 /\ RecoverPct \in Nat
      /\ RecoverPct * n \in Nat
  BY <1>1, Products, RatioAssumption
<1>4. (a.missed + 1) * 100 > RecoverPct * (n + 1)
  <2>1. (a.missed + 1) * 100 = a.missed * 100 + 100 /\ a.missed * 100 \in Nat
    BY <1>1
  <2> HIDE DEF n
  <2> QED BY <1>2, <1>3, <2>1
<1>5. a.served + (a.missed + 1) = n + 1
  BY <1>1
<1> QED BY <1>4, <1>5 DEF Rated

\* What one request does to the records.
LEMMA RecordSensible ==
  ASSUME RInv, NEW p \in Provider, NEW stat, NEW answer, Record(p, stat, answer)
  PROVE  /\ \A q \in Provider : Sensible(affinity'[q])
         /\ \A q \in Provider :
              affinity[q].demoted /\ ~affinity'[q].demoted => q = p /\ answer = "served" /\ ~stat
<1>1. affinity \in [Provider -> Rating] /\ MaxSamples \in Nat
  BY RatioAssumption DEF RInv, WInv, Rating
<1> DEFINE a == affinity[p]
           good == Rated(a.served + 1, a.missed, a.demoted)
           bad == Rated(a.served, a.missed + 1, a.demoted)
<1>2. a \in Rating /\ Sensible(a)
  BY <1>1 DEF RInv
<1>3. a.served \in Nat /\ a.missed \in Nat /\ a.demoted \in BOOLEAN
  BY <1>1, <1>2 DEF Rating
<1>4. Sensible(good) /\ Sensible(bad)
  BY <1>3, RatedSensible
<1>5. a.demoted => bad.demoted
  BY <1>2, OneMoreMiss
<1>6. \/ affinity' = affinity
      \/ affinity' = [affinity EXCEPT ![p] = good] /\ answer = "served" /\ ~stat
      \/ affinity' = [affinity EXCEPT ![p] = bad]
  BY DEF Record, Counted, Definitive
<1> HIDE DEF good, bad
<1>7. CASE affinity' = affinity
  BY <1>7 DEF RInv
<1>8. CASE affinity' = [affinity EXCEPT ![p] = good] /\ answer = "served" /\ ~stat
  <2>1. \A q \in Provider : affinity'[q] = IF q = p THEN good ELSE affinity[q]
    BY <1>1, <1>8
  <2> QED BY <2>1, <1>4, <1>8, Zenon DEF RInv
<1>9. CASE affinity' = [affinity EXCEPT ![p] = bad]
  <2>1. \A q \in Provider : affinity'[q] = IF q = p THEN bad ELSE affinity[q]
    BY <1>1, <1>9
  <2> QED BY <2>1, <1>4, <1>5, Zenon DEF RInv, a
<1> QED BY <1>6, <1>7, <1>8, <1>9

\* Whoever comes back either delivered a body or was forgotten with the rest.
ComesBack ==
  \A p \in Provider :
    affinity[p].demoted /\ ~affinity[p].demoted' =>
      \/ \A q \in Provider : affinity'[q] = Unrated
      \/ \E f \in Call : ~call[f].stat /\ call[f].asked[p] = None /\ call'[f].asked[p] = "served"

\* A body request's answer may bring back only the provider that served it.
LEMMA BodyRates ==
  ASSUME RInv, NEW f \in Call, NEW answer \in Answer, BodyAnswered(f, answer)
  PROVE  (\A p \in Provider : Sensible(affinity'[p])) /\ ComesBack
<1> DEFINE p == Head(call[f].todo)
<1>1. PICK c : c = Answered(call[f], p, answer)
  OBVIOUS
<1>2. Walks(call[f]) /\ call[f].st = "asking" /\ ~call[f].stat
  BY DEF RInv, WInv, BodyAnswered
<1>3. /\ Heard(call[f], c) /\ p \in Provider /\ call[f].asked[p] = None
      /\ c.asked = [call[f].asked EXCEPT ![p] = answer]
  BY <1>1, <1>2, AnswerHeard
<1>4. c \in Calls
  BY <1>3 DEF Heard
<1>5. CASE UNCHANGED affinity
  BY <1>5 DEF RInv, ComesBack
<1>6. CASE Record(p, FALSE, answer)
  <2>1. /\ \A q \in Provider : Sensible(affinity'[q])
        /\ \A q \in Provider : affinity[q].demoted /\ ~affinity'[q].demoted => q = p /\ answer = "served"
    BY <1>3, <1>6, RecordSensible
  <2>2. answer = "served" => call'[f].asked[p] = "served"
    <3> SUFFICES ASSUME answer = "served" PROVE call'[f].asked[p] = "served"
      OBVIOUS
    <3>1. call' = [call EXCEPT ![f] = Done(c, "served", FALSE)]
      BY <1>1 DEF BodyAnswered, Answered, Settle, Done
    <3>2. call'[f] = Done(c, "served", FALSE)
      BY <3>1 DEF RInv, WInv
    <3>3. FieldsOfDone(c, "served", Done(c, "served", FALSE))
      BY <1>4, DoneFields
    <3>4. call'[f].asked = c.asked
      BY <3>2, <3>3, Zenon DEF FieldsOfDone
    <3>5. call[f].asked \in [Provider -> Answer \union {None}]
      BY <1>2, CallFields DEF Walks
    <3> QED BY <3>4, <3>5, <1>3
  <2> QED BY <2>1, <2>2, <1>2, <1>3 DEF ComesBack
<1> QED BY <1>1, <1>5, <1>6 DEF BodyAnswered

\* A STAT's answer brings nobody back.
LEMMA StatRates ==
  ASSUME RInv, NEW f \in Call, NEW answer \in Answer, StatAnswered(f, answer)
  PROVE  (\A p \in Provider : Sensible(affinity'[p])) /\ ComesBack
<1> DEFINE p == Head(call[f].todo)
<1>1. Walks(call[f]) /\ call[f].st = "asking"
  BY DEF RInv, WInv, StatAnswered
<1>2. p \in Provider
  BY <1>1, AnswerHeard
<1>3. Record(p, TRUE, answer)
  BY DEF StatAnswered
<1>4. /\ \A q \in Provider : Sensible(affinity'[q])
      /\ \A q \in Provider : ~(affinity[q].demoted /\ ~affinity'[q].demoted)
  BY <1>2, <1>3, RecordSensible
<1> QED BY <1>4 DEF ComesBack

\* Every step keeps the records sensible and brings back by a body or by expiry only.
LEMMA RateStep == RInv /\ [Next]_vars => RInv' /\ ComesBack
<1> SUFFICES ASSUME RInv, [Next]_vars PROVE RInv' /\ ComesBack
  OBVIOUS
<1>1. WInv'
  BY WalkStep DEF RInv
<1>2. (\A p \in Provider : Sensible(affinity'[p])) /\ ComesBack
  <2>1. ASSUME NEW f \in Call, NEW answer \in Answer, BodyAnswered(f, answer)
        PROVE  (\A p \in Provider : Sensible(affinity'[p])) /\ ComesBack
    BY <2>1, BodyRates
  <2>2. ASSUME NEW f \in Call, NEW answer \in Answer, StatAnswered(f, answer)
        PROVE  (\A p \in Provider : Sensible(affinity'[p])) /\ ComesBack
    BY <2>2, StatRates
  <2>3. CASE Expire
    <3>1. \A p \in Provider : affinity'[p] = Unrated
      BY <2>3 DEF Expire
    <3>2. Sensible(Unrated)
      BY DEF Sensible, Unrated
    <3> QED BY <3>1, <3>2 DEF ComesBack
  <2>4. CASE UNCHANGED affinity
    BY <2>4 DEF RInv, ComesBack
  <2> QED BY <2>1, <2>2, <2>3, <2>4 DEF Next, Start, Abort, Return, vars
<1>3. \A p \in Provider : Sensible(affinity[p])'
  BY <1>2 DEF Sensible
<1> QED BY <1>1, <1>2, <1>3 DEF RInv

\* Hysteresis (ProviderAffinity.record, segment-fetcher.ts:253): a demoted provider
\* comes back to the front only by a body it delivers, however it answers STATs and
\* whatever else it misses, or when the record expires.
THEOREM OnlyBodiesBringBack == Spec => OnlyBodiesRehabilitate
<1>1. Init => RInv
  <2> SUFFICES ASSUME Init PROVE RInv
    OBVIOUS
  <2>1. WInv
    <3>1. Unrated \in [served : 0..MaxSamples, missed : 0..MaxSamples, demoted : BOOLEAN]
      BY RatioAssumption DEF Unrated
    <3>2. \A f \in Call : Walks(call[f])
      BY IdleWalks DEF Init
    <3> QED BY <3>1, <3>2 DEF Init, WInv
  <2>2. Sensible(Unrated)
    BY DEF Sensible, Unrated
  <2> QED BY <2>1, <2>2 DEF Init, RInv
<1>2. RInv /\ [Next]_vars => RInv'
  BY RateStep
<1>3. RInv /\ [Next]_vars => [ComesBack]_vars
  BY RateStep
<1>4. Spec => [][ComesBack]_vars
  BY <1>1, <1>2, <1>3, PTL DEF Spec
<1> QED BY <1>4 DEF OnlyBodiesRehabilitate, ComesBack

--------------------------------------------------------------------------------
(* What is computed element by element *)

\* g[n] is what n steps make of p.
Folds(p, N, h, g) == g[0] = p /\ \A n \in 1..N : g[n] = h[n][g[n - 1]]

\* A function whose values are computed each from the one before exists.
LEMMA FoldExists ==
  ASSUME NEW S, NEW p \in S, NEW N \in Nat, NEW h, \A n \in 1..N : \A x \in S : h[n][x] \in S
  PROVE  \E g \in [0..N -> S] : Folds(p, N, h, g)
<1> DEFINE Goes(m, g) == \A n \in 0..m : g[n] = IF n = 0 THEN p ELSE h[n][g[n - 1]]
           G == {m \in Nat : m <= N => \E g \in [0..m -> S] : Goes(m, g)}
<1>1. 0 \in G
  <2> DEFINE g == [n \in 0..0 |-> p]
  <2>1. g \in [0..0 -> S] /\ Goes(0, g)
    OBVIOUS
  <2> QED BY <2>1
<1>2. ASSUME NEW m \in Nat, m \in G
      PROVE  m + 1 \in G
  <2> SUFFICES ASSUME m + 1 <= N PROVE \E g \in [0..(m + 1) -> S] : Goes(m + 1, g)
    OBVIOUS
  <2>1. PICK g \in [0..m -> S] : Goes(m, g)
    BY <1>2
  <2> DEFINE last == h[m + 1][g[m]]
             k == [n \in 0..(m + 1) |-> IF n = m + 1 THEN last ELSE g[n]]
  <2>2. last \in S
    <3>1. m + 1 \in 1..N /\ g[m] \in S
      BY <2>1
    <3> QED BY <3>1
  <2>3. k \in [0..(m + 1) -> S]
    <3>1. \A n \in 0..(m + 1) : n # m + 1 => g[n] \in S
      BY <2>1
    <3> HIDE DEF last
    <3> QED BY <2>2, <3>1
  <2>4. ASSUME NEW n \in 0..(m + 1)
        PROVE  k[n] = IF n = 0 THEN p ELSE h[n][k[n - 1]]
    <3>1. CASE n = m + 1
      <4>1. k[n] = last /\ k[n - 1] = g[m] /\ n # 0
        BY <3>1
      <4> QED BY <4>1, <3>1
    <3>2. CASE n # m + 1
      <4>1. n \in 0..m /\ k[n] = g[n]
        BY <3>2
      <4>2. n # 0 => n - 1 \in 0..(m + 1) /\ n - 1 # m + 1 /\ k[n - 1] = g[n - 1]
        BY <4>1
      <4> QED BY <2>1, <4>1, <4>2
    <3> QED BY <3>1, <3>2
  <2> HIDE DEF k
  <2> QED BY <2>3, <2>4
<1>3. Nat \subseteq G
  <2> HIDE DEF G
  <2> QED BY <1>1, <1>2, NatInductive, Zenon
<1>4. PICK g \in [0..N -> S] : Goes(N, g)
  BY <1>3
<1>5. Folds(p, N, h, g)
  BY <1>4 DEF Folds
<1> QED BY <1>5

--------------------------------------------------------------------------------
(* The pool *)

PoolOK(p) ==
  /\ p \in Pool
  /\ ~p.destroyed => p.allocated = Len(p.free) + Cardinality(LiveSlots(p))
  /\ p.allocated <= SlotCap
  /\ \A i, j \in Task : p.live[i] = p.live[j] /\ p.live[i] # Nothing => i = j
  /\ Distinct(p.free)
  /\ Range(p.free) \intersect LiveSlots(p) = {}
  /\ p.bank \intersect (Range(p.free) \union LiveSlots(p)) = {}

Held(p) == Range(p.free) \union LiveSlots(p) \union p.bank

\* The slots of the tasks in I have been given back, nothing else has changed.
Released(p, q, I) ==
  /\ q.live = [i \in Task |-> IF i \in I THEN Nothing ELSE p.live[i]]
  /\ q.fifo = p.fifo /\ q.pushed = p.pushed /\ q.maxSlot = p.maxSlot /\ q.destroyed = p.destroyed
  /\ Held(q) \subseteq Held(p)

\* What is live is what some task has.
LEMMA LiveFacts ==
  ASSUME NEW p, p \in Pool
  PROVE  /\ IsFiniteSet(LiveSlots(p)) /\ LiveSlots(p) \subseteq Slot /\ Cardinality(LiveSlots(p)) \in Nat
         /\ \A s : s \in LiveSlots(p) <=> s # Nothing /\ \E i \in Task : p.live[i] = s
         /\ \A i \in Task : p.live[i] \in Slot \union {Nothing}
<1>1. p.live \in [Task -> Slot \union {Nothing}]
  BY DEF Pool
<1>2. IsFiniteSet({p.live[i] : i \in Task})
  <2> DEFINE f == [i \in Task |-> p.live[i]]
             L == {p.live[i] : i \in Task}
  <2>1. f \in Surjection(Task, L)
    BY DEF Surjection
  <2> HIDE DEF f, L
  <2>2. IsFiniteSet(L)
    BY <2>1, TaskAssumption, FS_Surjection
  <2> QED BY <2>2 DEF L
<1>3. IsFiniteSet(LiveSlots(p))
  BY <1>2, FS_Subset DEF LiveSlots
<1>4. LiveSlots(p) \subseteq Slot
  BY <1>1 DEF LiveSlots
<1>5. \A s : s \in LiveSlots(p) <=> s # Nothing /\ \E i \in Task : p.live[i] = s
  BY DEF LiveSlots
<1> QED BY <1>1, <1>3, <1>4, <1>5, FS_CardinalityType

\* A task that lends its slot no more.
LEMMA LiveWithout ==
  ASSUME NEW p, NEW q, p \in Pool, q \in Pool, NEW i \in Task, p.live[i] # Nothing,
         \A k, j \in Task : p.live[k] = p.live[j] /\ p.live[k] # Nothing => k = j,
         q.live = [p.live EXCEPT ![i] = Nothing]
  PROVE  /\ LiveSlots(q) = LiveSlots(p) \ {p.live[i]} /\ p.live[i] \in LiveSlots(p)
         /\ Cardinality(LiveSlots(p)) = Cardinality(LiveSlots(q)) + 1
<1>1. p.live \in [Task -> Slot \union {Nothing}]
  BY DEF Pool
<1>2. \A j \in Task : q.live[j] = IF j = i THEN Nothing ELSE p.live[j]
  BY <1>1
<1>3. p.live[i] \in LiveSlots(p)
  BY LiveFacts
<1>4. ASSUME NEW s PROVE s \in LiveSlots(q) <=> s \in LiveSlots(p) /\ s # p.live[i]
  <2>1. s \in LiveSlots(q) <=> s # Nothing /\ \E j \in Task : q.live[j] = s
    BY LiveFacts
  <2>2. s \in LiveSlots(p) <=> s # Nothing /\ \E j \in Task : p.live[j] = s
    BY LiveFacts
  <2> QED BY <1>2, <2>1, <2>2, Zenon
<1>5. LiveSlots(q) = LiveSlots(p) \ {p.live[i]}
  BY <1>4
<1>6. Cardinality(LiveSlots(q)) = Cardinality(LiveSlots(p)) - 1
  <2>1. IsFiniteSet(LiveSlots(p))
    BY LiveFacts
  <2>2. Cardinality(LiveSlots(p) \ {p.live[i]}) = Cardinality(LiveSlots(p)) - 1
    BY <1>3, <2>1, FS_RemoveElement
  <2> QED BY <1>5, <2>2
<1> QED BY <1>3, <1>5, <1>6, LiveFacts

\* A task that is lent a slot.
LEMMA LiveWith ==
  ASSUME NEW p, NEW q, p \in Pool, q \in Pool, NEW i \in Task, p.live[i] = Nothing,
         NEW s \in Slot, s \notin LiveSlots(p), q.live = [p.live EXCEPT ![i] = s]
  PROVE  /\ LiveSlots(q) = LiveSlots(p) \union {s}
         /\ Cardinality(LiveSlots(q)) = Cardinality(LiveSlots(p)) + 1
<1>1. p.live \in [Task -> Slot \union {Nothing}] /\ s # Nothing
  BY SlotAssumption DEF Pool
<1>2. \A j \in Task : q.live[j] = IF j = i THEN s ELSE p.live[j]
  BY <1>1
<1>4. ASSUME NEW t PROVE t \in LiveSlots(q) <=> t \in LiveSlots(p) \/ t = s
  <2>1. t \in LiveSlots(q) <=> t # Nothing /\ \E j \in Task : q.live[j] = t
    BY LiveFacts
  <2>2. t \in LiveSlots(p) <=> t # Nothing /\ \E j \in Task : p.live[j] = t
    BY LiveFacts
  <2> QED BY <1>1, <1>2, <2>1, <2>2, Zenon
<1>5. LiveSlots(q) = LiveSlots(p) \union {s}
  BY <1>4
<1>6. Cardinality(LiveSlots(q)) = Cardinality(LiveSlots(p)) + 1
  BY <1>5, LiveFacts, FS_AddElement
<1> QED BY <1>5, <1>6

\* give: the bank takes the slot or refuses it.
LEMMA GiveFacts ==
  ASSUME NEW p, NEW s \in Slot, PoolOK(p), s \notin Range(p.free), s \notin LiveSlots(p)
  PROVE  /\ PoolOK(Give(p, s)) /\ Give(p, s) = [p EXCEPT !.bank = Give(p, s).bank]
         /\ Give(p, s).bank \subseteq p.bank \union {s}
<1> DEFINE q == Give(p, s)
<1>1. p \in Pool
  BY DEF PoolOK
<1>2. q = p \/ q = [p EXCEPT !.bank = @ \union {s}]
  BY DEF Give
<1> HIDE DEF q
<1>3. q = [p EXCEPT !.bank = q.bank] /\ q.bank \subseteq p.bank \union {s} /\ q \in Pool
  <2>1. CASE q = p
    BY <1>1, <2>1 DEF Pool
  <2>2. CASE q = [p EXCEPT !.bank = @ \union {s}]
    <3>1. p.bank \union {s} \subseteq Slot /\ p = [p EXCEPT !.bank = p.bank]
      BY <1>1 DEF Pool
    <3>2. q.bank = p.bank \union {s}
      BY <1>1, <2>2 DEF Pool
    <3>3. q \in Pool
      BY <1>1, <2>2, <3>1 DEF Pool
    <3> QED BY <2>2, <3>2, <3>3
  <2> QED BY <1>2, <2>1, <2>2
<1>4. /\ q.free = p.free /\ q.allocated = p.allocated /\ q.live = p.live /\ q.destroyed = p.destroyed
  BY <1>1, <1>2 DEF Pool
<1>5. LiveSlots(q) = LiveSlots(p)
  BY <1>4 DEF LiveSlots
<1>6. PoolOK(q)
  BY <1>3, <1>4, <1>5 DEF PoolOK
<1> QED BY <1>3, <1>6 DEF q

\* release: the task's slot goes to the free list, to the bank once the pool
\* is destroyed.
LEMMA ReleaseFacts ==
  ASSUME NEW p, PoolOK(p), NEW i \in Task
  PROVE  PoolOK(Release(p, i)) /\ Released(p, Release(p, i), {i})
<1> DEFINE s == p.live[i]
           q == [p EXCEPT !.live[i] = Nothing]
           r == Release(p, i)
<1>1. /\ p \in Pool /\ p.free \in Seq(Slot) /\ p.live \in [Task -> Slot \union {Nothing}]
      /\ p.destroyed \in BOOLEAN /\ p.allocated \in Nat /\ p.bank \subseteq Slot
  BY DEF PoolOK, Pool
<1>2. CASE s = Nothing
  <2>1. r = p
    BY <1>2 DEF Release
  <2>2. p.live = [j \in Task |-> IF j \in {i} THEN Nothing ELSE p.live[j]]
    BY <1>1, <1>2
  <2> QED BY <2>1, <2>2 DEF Released
<1>3. CASE s # Nothing
  <2>1. /\ q \in Pool /\ q.live = [p.live EXCEPT ![i] = Nothing]
        /\ q.free = p.free /\ q.allocated = p.allocated /\ q.bank = p.bank
        /\ q.fifo = p.fifo /\ q.pushed = p.pushed /\ q.maxSlot = p.maxSlot /\ q.destroyed = p.destroyed
    BY <1>1 DEF Pool
  <2>2. /\ LiveSlots(q) = LiveSlots(p) \ {s} /\ s \in LiveSlots(p) /\ s \in Slot
        /\ Cardinality(LiveSlots(p)) = Cardinality(LiveSlots(q)) + 1
    <3>1. \A k, j \in Task : p.live[k] = p.live[j] /\ p.live[k] # Nothing => k = j
      BY DEF PoolOK
    <3> HIDE DEF q
    <3> QED BY <1>1, <1>3, <2>1, <3>1, LiveWithout, LiveFacts
  <2>3. q.live = [j \in Task |-> IF j \in {i} THEN Nothing ELSE p.live[j]]
    BY <1>1, <2>1
  <2>4. \A k, j \in Task : q.live[k] = q.live[j] /\ q.live[k] # Nothing => k = j
    BY <2>3 DEF PoolOK
  <2>5. Held(q) \union {s} = Held(p)
    BY <2>1, <2>2 DEF Held
  <2>6. CASE p.destroyed
    <3>1. r = Give(q, s)
      BY <1>3, <2>6 DEF Release
    <3> HIDE DEF q, r, s
    <3>2. PoolOK(q)
      BY <2>1, <2>2, <2>4, <2>6 DEF PoolOK
    <3>3. PoolOK(r) /\ r = [q EXCEPT !.bank = r.bank] /\ r.bank \subseteq q.bank \union {s}
      <4>1. s \notin Range(q.free) /\ s \notin LiveSlots(q)
        BY <2>1, <2>2 DEF PoolOK
      <4> QED BY <2>2, <3>1, <3>2, <4>1, GiveFacts
    <3>4. /\ r.live = q.live /\ r.fifo = q.fifo /\ r.pushed = q.pushed /\ r.maxSlot = q.maxSlot
          /\ r.destroyed = q.destroyed /\ r.free = q.free
      BY <2>1, <3>3 DEF Pool
    <3>5. Held(r) \subseteq Held(q) \union {s}
      BY <3>3, <3>4 DEF Held, LiveSlots
    <3> QED BY <2>1, <2>3, <2>5, <3>3, <3>4, <3>5 DEF Released, r
  <2>7. CASE ~p.destroyed
    <3>1. r = [q EXCEPT !.free = Append(@, s)]
      BY <1>3, <2>7 DEF Release
    <3> HIDE DEF q, r, s
    <3>2. /\ Append(q.free, s) \in Seq(Slot) /\ Len(Append(q.free, s)) = Len(q.free) + 1
          /\ Range(Append(q.free, s)) = Range(q.free) \union {s}
      BY <1>1, <2>1, <2>2, AppendFacts
    <3>3. /\ r \in Pool /\ r.free = Append(q.free, s) /\ r.live = q.live /\ r.allocated = q.allocated /\ r.bank = q.bank
          /\ r.fifo = q.fifo /\ r.pushed = q.pushed /\ r.maxSlot = q.maxSlot /\ r.destroyed = q.destroyed
      BY <2>1, <3>1, <3>2 DEF Pool
    <3>4. LiveSlots(r) = LiveSlots(q)
      BY <3>3 DEF LiveSlots
    <3>5. Distinct(r.free)
      <4>1. Distinct(q.free) /\ s \notin Range(q.free)
        BY <2>1, <2>2 DEF PoolOK
      <4> QED BY <1>1, <2>1, <2>2, <3>3, <4>1, AppendDistinct
    <3>6. r.allocated = Len(r.free) + Cardinality(LiveSlots(r)) /\ r.allocated <= SlotCap
      <4>1. p.allocated = Len(p.free) + Cardinality(LiveSlots(p)) /\ p.allocated <= SlotCap
        BY <2>7 DEF PoolOK
      <4>2. Len(p.free) \in Nat /\ Cardinality(LiveSlots(q)) \in Nat
        BY <1>1, <2>1, LiveFacts
      <4>3. r.allocated = p.allocated /\ Len(r.free) = Len(p.free) + 1 /\ LiveSlots(r) = LiveSlots(q)
        BY <2>1, <3>2, <3>3, <3>4
      <4>4. Cardinality(LiveSlots(p)) = Cardinality(LiveSlots(q)) + 1
        BY <2>2
      <4> QED BY <4>1, <4>2, <4>3, <4>4
    <3>7. PoolOK(r)
      <4>1. Range(r.free) \intersect LiveSlots(r) = {}
        BY <2>1, <2>2, <3>2, <3>3, <3>4 DEF PoolOK
      <4>2. r.bank \intersect (Range(r.free) \union LiveSlots(r)) = {}
        BY <2>1, <2>2, <3>2, <3>3, <3>4 DEF PoolOK
      <4> QED BY <2>4, <3>3, <3>5, <3>6, <4>1, <4>2 DEF PoolOK
    <3>8. Held(r) \subseteq Held(p)
      BY <2>1, <2>5, <3>2, <3>3, <3>4 DEF Held
    <3> QED BY <2>1, <2>3, <3>3, <3>7, <3>8 DEF Released, r
  <2> QED BY <1>1, <2>6, <2>7
<1> QED BY <1>2, <1>3

\* The function ReleaseAll is computed by.
ReleasesStep(p, idxs, g, n) == IF n = 0 THEN p ELSE Release(g[n - 1], idxs[n])
IsReleases(p, idxs, g) == g = [n \in 0..Len(idxs) |-> ReleasesStep(p, idxs, g, n)]
Releases(p, idxs) == CHOOSE g : IsReleases(p, idxs, g)

\* Its last value is the pool after every release.
LEMMA ReleaseAllUnfold == \A p, idxs : ReleaseAll(p, idxs) = Releases(p, idxs)[Len(idxs)]
BY DEF ReleaseAll, Releases, IsReleases, ReleasesStep

\* Releasing task after task gives back the slots of them all.
LEMMA ReleaseAllFacts ==
  ASSUME NEW p, PoolOK(p), NEW idxs \in Seq(Task)
  PROVE  PoolOK(ReleaseAll(p, idxs)) /\ Released(p, ReleaseAll(p, idxs), Range(idxs))
<1> DEFINE N == Len(idxs)
           S == {x \in Pool : PoolOK(x)}
           h == [n \in 1..N |-> [x \in S |-> Release(x, idxs[n])]]
<1>1. N \in Nat /\ p \in S /\ (\A n \in 1..N : idxs[n] \in Task) /\ DOMAIN idxs = 1..N
  BY DEF PoolOK
<1>2. ASSUME NEW n \in 1..N, NEW x \in S PROVE h[n][x] = Release(x, idxs[n]) /\ h[n][x] \in S
  <2>1. h[n][x] = Release(x, idxs[n])
    OBVIOUS
  <2>2. PoolOK(Release(x, idxs[n]))
    BY <1>1, ReleaseFacts
  <2> QED BY <2>1, <2>2 DEF PoolOK
<1>3. PICK g \in [0..N -> S] : Folds(p, N, h, g)
  <2> HIDE DEF N, S, h
  <2>1. \A n \in 1..N : \A x \in S : h[n][x] \in S
    BY <1>2
  <2>2. N \in Nat /\ p \in S
    BY <1>1
  <2> QED BY <2>1, <2>2, FoldExists
<1> HIDE DEF S, h, N
<1>4. IsReleases(p, idxs, g)
  <2>1. ASSUME NEW n \in 0..N PROVE g[n] = ReleasesStep(p, idxs, g, n)
    <3>1. CASE n = 0
      BY <1>1, <1>3, <3>1 DEF ReleasesStep, Folds
    <3>2. CASE n # 0
      <4>1. n \in 1..N /\ g[n - 1] \in S
        BY <1>1, <1>3, <3>2
      <4> QED BY <1>2, <1>3, <3>2, <4>1 DEF ReleasesStep, Folds
    <3> QED BY <3>1, <3>2
  <2> QED BY <1>3, <2>1 DEF IsReleases, N
<1>5. IsReleases(p, idxs, Releases(p, idxs))
  BY <1>4, Zenon DEF Releases
<1> DEFINE r == Releases(p, idxs)
<1>6. \A n \in 0..N : r[n] = ReleasesStep(p, idxs, r, n)
  BY <1>5 DEF IsReleases, N
<1> HIDE DEF r
<1> DEFINE Of(n) == {idxs[k] : k \in 1..n}
           G == {n \in Nat : n <= N => PoolOK(r[n]) /\ Released(p, r[n], Of(n))}
<1>7. 0 \in G
  <2>1. r[0] = p /\ Of(0) = {}
    BY <1>1, <1>6 DEF ReleasesStep
  <2>2. p.live = [i \in Task |-> p.live[i]]
    BY <1>1 DEF S, Pool
  <2>3. Released(p, p, {})
    BY <2>2 DEF Released
  <2> QED BY <2>1, <2>3
<1>8. ASSUME NEW n \in Nat, n \in G PROVE n + 1 \in G
  <2> SUFFICES ASSUME n + 1 <= N PROVE PoolOK(r[n + 1]) /\ Released(p, r[n + 1], Of(n + 1))
    OBVIOUS
  <2>1. PoolOK(r[n]) /\ Released(p, r[n], Of(n))
    BY <1>1, <1>8
  <2> DEFINE i == idxs[n + 1]
  <2>2. i \in Task /\ Of(n + 1) = Of(n) \union {i}
    <3>1. n + 1 \in 1..N /\ \A k \in 1..(n + 1) : k = n + 1 \/ k \in 1..n
      BY <1>1
    <3> QED BY <1>1, <3>1
  <2>3. r[n + 1] = Release(r[n], i)
    BY <1>1, <1>6 DEF ReleasesStep
  <2> HIDE DEF i, Of
  <2>4. PoolOK(r[n + 1]) /\ Released(r[n], r[n + 1], {i})
    BY <2>1, <2>2, <2>3, ReleaseFacts
  <2>5. Released(p, r[n + 1], Of(n) \union {i})
    BY <2>1, <2>4 DEF Released
  <2> QED BY <2>2, <2>4, <2>5
<1>9. Nat \subseteq G
  <2> HIDE DEF G
  <2> QED BY <1>7, <1>8, NatInductive, Zenon
<1>10. PoolOK(r[N]) /\ Released(p, r[N], Of(N))
  BY <1>1, <1>9
<1>11. Of(N) = Range(idxs)
  BY <1>1, RangeMembers
<1> QED BY <1>10, <1>11, ReleaseAllUnfold DEF r, N

\* The function GiveAll is computed by.
GivesStep(p, slots, g, n) == IF n = 0 THEN p ELSE Give(g[n - 1], slots[n])
IsGives(p, slots, g) == g = [n \in 0..Len(slots) |-> GivesStep(p, slots, g, n)]
Gives(p, slots) == CHOOSE g : IsGives(p, slots, g)

\* Its last value is the pool after every gift.
LEMMA GiveAllUnfold == \A p, slots : GiveAll(p, slots) = Gives(p, slots)[Len(slots)]
BY DEF GiveAll, Gives, IsGives, GivesStep

\* The bank is offered slots that nobody holds.
LEMMA GiveAllFacts ==
  ASSUME NEW p, PoolOK(p), NEW slots \in Seq(Slot),
         \A n \in 1..Len(slots) : slots[n] \notin Range(p.free) /\ slots[n] \notin LiveSlots(p)
  PROVE  /\ PoolOK(GiveAll(p, slots)) /\ GiveAll(p, slots) = [p EXCEPT !.bank = GiveAll(p, slots).bank]
         /\ GiveAll(p, slots).bank \subseteq p.bank \union Range(slots)
<1> DEFINE N == Len(slots)
           Same(x) == x = [p EXCEPT !.bank = x.bank] /\ x.bank \subseteq p.bank \union Range(slots)
           S == {x \in Pool : PoolOK(x) /\ Same(x)}
           h == [n \in 1..N |-> [x \in S |-> Give(x, slots[n])]]
<1>1. N \in Nat /\ (\A n \in 1..N : slots[n] \in Slot /\ slots[n] \in Range(slots)) /\ p \in Pool
  BY RangeMembers DEF PoolOK
<1>2. p \in S
  <2>1. p = [p EXCEPT !.bank = p.bank]
    BY <1>1 DEF Pool
  <2> QED BY <1>1, <2>1
<1>3. ASSUME NEW n \in 1..N, NEW x \in S PROVE h[n][x] = Give(x, slots[n]) /\ h[n][x] \in S
  <2>1. h[n][x] = Give(x, slots[n])
    OBVIOUS
  <2> DEFINE y == Give(x, slots[n])
  <2>2. slots[n] \notin Range(x.free) /\ slots[n] \notin LiveSlots(x)
    <3>1. x.free = p.free /\ x.live = p.live
      BY <1>1 DEF Pool
    <3> QED BY <3>1 DEF LiveSlots
  <2>3. PoolOK(y) /\ y = [x EXCEPT !.bank = y.bank] /\ y.bank \subseteq x.bank \union {slots[n]}
    BY <1>1, <2>2, GiveFacts
  <2> HIDE DEF y
  <2>4. y \in Pool
    BY <2>3 DEF PoolOK
  <2>5. y = [p EXCEPT !.bank = y.bank]
    <3>1. x = [p EXCEPT !.bank = x.bank]
      OBVIOUS
    <3> QED BY <1>1, <2>3, <3>1 DEF Pool
  <2>6. y.bank \subseteq p.bank \union Range(slots)
    BY <1>1, <2>3
  <2> QED BY <2>1, <2>3, <2>4, <2>5, <2>6 DEF y
<1>4. PICK g \in [0..N -> S] : Folds(p, N, h, g)
  <2> HIDE DEF N, S, h
  <2>1. \A n \in 1..N : \A x \in S : h[n][x] \in S
    BY <1>3
  <2>2. N \in Nat /\ p \in S
    BY <1>1, <1>2
  <2> QED BY <2>1, <2>2, FoldExists
<1> HIDE DEF S, h, N
<1>5. IsGives(p, slots, g)
  <2>1. ASSUME NEW n \in 0..N PROVE g[n] = GivesStep(p, slots, g, n)
    <3>1. CASE n = 0
      BY <1>1, <1>4, <3>1 DEF GivesStep, Folds
    <3>2. CASE n # 0
      <4>1. n \in 1..N /\ g[n - 1] \in S
        BY <1>1, <1>4, <3>2
      <4> QED BY <1>3, <1>4, <3>2, <4>1 DEF GivesStep, Folds
    <3> QED BY <3>1, <3>2
  <2> QED BY <1>4, <2>1 DEF IsGives, N
<1>6. IsGives(p, slots, Gives(p, slots))
  BY <1>5, Zenon DEF Gives
<1> DEFINE r == Gives(p, slots)
<1>7. \A n \in 0..N : r[n] = GivesStep(p, slots, r, n)
  BY <1>6 DEF IsGives, N
<1> HIDE DEF r
<1> DEFINE G == {n \in Nat : n <= N => r[n] \in S}
<1>8. 0 \in G
  BY <1>1, <1>2, <1>7 DEF GivesStep
<1>9. ASSUME NEW n \in Nat, n \in G PROVE n + 1 \in G
  <2> SUFFICES ASSUME n + 1 <= N PROVE r[n + 1] \in S
    OBVIOUS
  <2>1. r[n] \in S /\ n + 1 \in 1..N /\ n + 1 \in 0..N /\ n + 1 # 0 /\ (n + 1) - 1 = n
    BY <1>1, <1>9
  <2>2. r[n + 1] = Give(r[n], slots[n + 1])
    BY <1>7, <2>1 DEF GivesStep
  <2> QED BY <1>3, <2>1, <2>2
<1>10. Nat \subseteq G
  <2> HIDE DEF G
  <2> QED BY <1>8, <1>9, NatInductive, Zenon
<1>11. r[N] \in S
  BY <1>1, <1>10
<1> QED BY <1>11, GiveAllUnfold DEF r, N, S

--------------------------------------------------------------------------------
(* reclaim, destroy and retire *)

\* destroy: the pool keeps only what the consumer still reads and what is on
\* the wire.
LEMMA DestroyFacts ==
  ASSUME NEW p, PoolOK(p), NEW idxs \in Seq(Task)
  PROVE  LET q == DestroyPool(p, idxs)
         IN  /\ PoolOK(q) /\ q.destroyed = TRUE
             /\ q.live = [i \in Task |-> IF i \in Range(idxs) THEN Nothing ELSE p.live[i]]
             /\ q.fifo = p.fifo /\ q.pushed = p.pushed /\ q.maxSlot = p.maxSlot
<1> DEFINE none == <<>>
           a == [p EXCEPT !.destroyed = TRUE, !.free = none]
           b == GiveAll(a, p.free)
           q == DestroyPool(p, idxs)
<1>0. none \in Seq(Slot) /\ Range(none) = {} /\ Distinct(none)
  BY RangeMembers DEF Distinct
<1>1. /\ p \in Pool /\ p.free \in Seq(Slot) /\ DOMAIN p.free = 1..Len(p.free)
  BY DEF PoolOK, Pool
<1> HIDE DEF none
<1>2. /\ a \in Pool /\ a.destroyed = TRUE /\ a.free = none /\ a.allocated = p.allocated /\ a.live = p.live
      /\ a.bank = p.bank /\ a.fifo = p.fifo /\ a.pushed = p.pushed /\ a.maxSlot = p.maxSlot
  BY <1>0, <1>1 DEF Pool
<1> HIDE DEF a
<1>4. LiveSlots(a) = LiveSlots(p) /\ Range(a.free) = {}
  BY <1>0, <1>2 DEF LiveSlots
<1>5. PoolOK(a)
  BY <1>0, <1>2, <1>4 DEF PoolOK
<1>6. \A n \in 1..Len(p.free) : p.free[n] \notin Range(a.free) /\ p.free[n] \notin LiveSlots(a)
  BY <1>1, <1>4, RangeMembers DEF PoolOK
<1>7. PoolOK(b) /\ b = [a EXCEPT !.bank = b.bank]
  BY <1>1, <1>5, <1>6, GiveAllFacts
<1> HIDE DEF b
<1>8. /\ b.destroyed = TRUE /\ b.live = p.live /\ b.fifo = p.fifo /\ b.pushed = p.pushed /\ b.maxSlot = p.maxSlot
  BY <1>2, <1>7 DEF Pool
<1>9. q = ReleaseAll(b, idxs)
  BY DEF DestroyPool, a, b, none
<1>10. PoolOK(q) /\ Released(b, q, Range(idxs))
  BY <1>7, <1>9, ReleaseAllFacts
<1> QED BY <1>8, <1>10 DEF Released

\* retire: the slots of every pushed chunk.
LEMMA RetireFacts ==
  ASSUME NEW p, PoolOK(p)
  PROVE  LET q == Retire(p)
         IN  /\ PoolOK(q) /\ q.fifo = <<>>
             /\ \A i \in Task : \/ q.live[i] = p.live[i]
                                \/ q.live[i] = Nothing /\ \E k \in DOMAIN p.fifo : p.fifo[k].idx = i
             /\ q.pushed = p.pushed /\ q.maxSlot = p.maxSlot /\ q.destroyed = p.destroyed
<1> DEFINE none == <<>>
           a == [p EXCEPT !.fifo = none]
           idxs == [k \in DOMAIN p.fifo |-> p.fifo[k].idx]
           q == Retire(p)
<1>0. none \in Seq([idx : Task, end : Nat])
  OBVIOUS
<1>1. p \in Pool /\ p.fifo \in Seq([idx : Task, end : Nat]) /\ DOMAIN p.fifo = 1..Len(p.fifo)
  BY DEF PoolOK, Pool
<1> HIDE DEF none
<1>2. /\ a \in Pool /\ a.destroyed = p.destroyed /\ a.free = p.free /\ a.allocated = p.allocated /\ a.live = p.live
      /\ a.bank = p.bank /\ a.fifo = none /\ a.pushed = p.pushed /\ a.maxSlot = p.maxSlot
  BY <1>0, <1>1 DEF Pool
<1>3. idxs \in Seq(Task) /\ Range(idxs) = {p.fifo[k].idx : k \in DOMAIN p.fifo}
  <2> DEFINE E == [idx : Task, end : Nat]
  <2>0. p.fifo \in Seq(E)
    BY <1>1
  <2> HIDE DEF E
  <2>3. \A k \in 1..Len(p.fifo) : p.fifo[k] \in E
    BY <2>0
  <2>1. idxs \in [1..Len(p.fifo) -> Task] /\ Len(p.fifo) \in Nat
    BY <1>1, <2>3 DEF E
  <2>2. idxs \in Seq(Task)
    BY <2>1, IsASeq
  <2> QED BY <2>2, RangeMembers
<1> HIDE DEF a, idxs
<1>4. PoolOK(a)
  <2>1. LiveSlots(a) = LiveSlots(p)
    BY <1>2 DEF LiveSlots
  <2> QED BY <1>2, <2>1 DEF PoolOK
<1>5. q = ReleaseAll(a, idxs)
  BY DEF Retire, a, idxs, none
<1>6. PoolOK(q) /\ Released(a, q, Range(idxs))
  BY <1>3, <1>4, <1>5, ReleaseAllFacts
<1> HIDE DEF q
<1>7. ASSUME NEW i \in Task
      PROVE  \/ q.live[i] = p.live[i]
             \/ q.live[i] = Nothing /\ \E k \in DOMAIN p.fifo : p.fifo[k].idx = i
  BY <1>2, <1>3, <1>6 DEF Released
<1>8. q.fifo = none
  BY <1>2, <1>6 DEF Released
<1> QED BY <1>2, <1>6, <1>7, <1>8 DEF Released, q, none

\* The chunks the consumer is done with.
LEMMA ConsumedFacts ==
  ASSUME NEW p, p \in Pool, NEW n \in Int
  PROVE  /\ ConsumedWithin(p, n) \in 0..Len(p.fifo)
         /\ \A j \in 1..ConsumedWithin(p, n) : p.fifo[j].end <= n
<1> DEFINE G == {k \in 1..Len(p.fifo) : p.fifo[k].end > n}
<1>1. Len(p.fifo) \in Nat /\ \A k \in 1..Len(p.fifo) : p.fifo[k].end \in Nat
  <2> DEFINE E == [idx : Task, end : Nat]
  <2>1. p.fifo \in Seq(E)
    BY DEF Pool
  <2> HIDE DEF E
  <2>2. Len(p.fifo) \in Nat /\ \A k \in 1..Len(p.fifo) : p.fifo[k] \in E
    BY <2>1
  <2> QED BY <2>2 DEF E
<1>2. PICK m \in 1..(Len(p.fifo) + 1) : /\ \A k \in 1..Len(p.fifo) : k \in G => m <= k
                                        /\ m <= Len(p.fifo) => m \in G
  <2> HIDE DEF G
  <2> QED BY <1>1, FirstWith
<1> DEFINE L == Len(p.fifo)
           c == m - 1
<1>3. c \in 0..L /\ (\A j \in 1..c : p.fifo[j].end <= n) /\ (c < L => p.fifo[c + 1].end > n)
  <2>1. \A k \in 1..L : p.fifo[k].end > n => m <= k
    BY <1>2
  <2>2. m <= L => p.fifo[m].end > n
    BY <1>2
  <2>3. L \in Nat /\ \A k \in 1..L : p.fifo[k].end \in Nat
    BY <1>1
  <2>4. m \in 1..(L + 1)
    OBVIOUS
  <2> HIDE DEF L
  <2>5. c + 1 = m /\ c \in 0..L /\ \A j \in 1..c : j \in 1..L /\ ~(m <= j)
    BY <2>3, <2>4
  <2> HIDE DEF c
  <2>6. ASSUME NEW j \in 1..c PROVE p.fifo[j].end <= n
    BY <2>1, <2>3, <2>5
  <2>7. c < L => m <= L
    BY <2>3, <2>5
  <2> QED BY <2>2, <2>5, <2>6, <2>7
<1> HIDE DEF c
<1> DEFINE Fits(k) == /\ \A j \in 1..k : p.fifo[j].end <= n
                      /\ k < Len(p.fifo) => p.fifo[k + 1].end > n
<1>4. ConsumedWithin(p, n) = CHOOSE k \in 0..Len(p.fifo) : Fits(k)
  BY DEF ConsumedWithin
<1>5. c \in 0..Len(p.fifo) /\ Fits(c)
  BY <1>3
<1> HIDE DEF Fits
<1>6. ConsumedWithin(p, n) \in 0..Len(p.fifo) /\ Fits(ConsumedWithin(p, n))
  BY <1>4, <1>5, Zenon
<1> QED BY <1>6 DEF Fits

\* What reclaim does: slots of pushed chunks that ended before what may still
\* be unread.
Reclaims(p, q, queued) ==
  /\ \A i \in Task : \/ q.live[i] = p.live[i]
                     \/ /\ q.live[i] = Nothing
                        /\ \E k \in DOMAIN p.fifo :
                             p.fifo[k].idx = i /\ p.fifo[k].end <= p.pushed - queued - Layers * p.maxSlot
  /\ \A k \in DOMAIN q.fifo : \E j \in DOMAIN p.fifo : q.fifo[k] = p.fifo[j]
  /\ q.pushed = p.pushed /\ q.maxSlot = p.maxSlot /\ q.destroyed = p.destroyed
  /\ Held(q) \subseteq Held(p)

\* reclaim gives back nothing but that.
LEMMA ReclaimFacts ==
  ASSUME NEW p, PoolOK(p), NEW queued \in Int
  PROVE  PoolOK(Reclaim(p, queued)) /\ Reclaims(p, Reclaim(p, queued), queued)
<1> DEFINE m == p.pushed - queued - Layers * p.maxSlot
           n == ConsumedWithin(p, m)
           L == Len(p.fifo)
           rest == SubSeq(p.fifo, n + 1, L)
           a == [p EXCEPT !.fifo = rest]
           idxs == [k \in 1..n |-> p.fifo[k].idx]
           q == Reclaim(p, queued)
           E == [idx : Task, end : Nat]
<1>1. p \in Pool /\ p.fifo \in Seq(E) /\ DOMAIN p.fifo = 1..L /\ L \in Nat
  BY DEF PoolOK, Pool
<1>2. m \in Int
  <2>1. p.pushed \in Nat /\ p.maxSlot \in Nat /\ Layers \in Nat
    BY <1>1, CapAssumption DEF Pool
  <2>2. Layers * p.maxSlot \in Int
    BY <2>1
  <2> QED BY <2>1, <2>2
<1> HIDE DEF m
<1>3. n \in 0..L /\ \A j \in 1..n : p.fifo[j].end <= m
  BY <1>1, <1>2, ConsumedFacts
<1> HIDE DEF n, E
<1>4. rest \in Seq(E) /\ DOMAIN rest = 1..(L - n) /\ \A k \in 1..(L - n) : rest[k] = p.fifo[n + k] /\ n + k \in 1..L
  <2>1. n \in Nat /\ L \in Nat /\ n <= L /\ p.fifo \in Seq(E) /\ L = Len(p.fifo)
    BY <1>1, <1>3
  <2>2. rest \in Seq(E) /\ Len(rest) = L - n
    BY <2>1
  <2>3. \A k \in 1..(L - n) : rest[k] = p.fifo[n + k]
    BY <2>1
  <2>4. \A k \in 1..(L - n) : n + k \in 1..L
    BY <2>1
  <2> QED BY <2>2, <2>3, <2>4
<1> HIDE DEF rest, L
<1>5. /\ a \in Pool /\ a.destroyed = p.destroyed /\ a.free = p.free /\ a.allocated = p.allocated /\ a.live = p.live
      /\ a.bank = p.bank /\ a.fifo = rest /\ a.pushed = p.pushed /\ a.maxSlot = p.maxSlot
  BY <1>1, <1>4 DEF Pool, E
<1>6. n \in Nat /\ (\A k \in 1..n : p.fifo[k].idx \in Task /\ k \in DOMAIN p.fifo) /\ idxs \in Seq(Task)
      /\ Range(idxs) = {p.fifo[k].idx : k \in 1..n}
  <2>1. n \in Nat /\ \A k \in 1..n : p.fifo[k].idx \in Task /\ k \in DOMAIN p.fifo
    <3>1. \A k \in 1..L : p.fifo[k] \in E
      BY <1>1 DEF L
    <3> QED BY <1>1, <1>3, <3>1 DEF E
  <2>2. idxs \in [1..n -> Task]
    BY <2>1
  <2>3. idxs \in Seq(Task)
    BY <2>1, <2>2, IsASeq
  <2> QED BY <2>1, <2>3, RangeMembers
<1> HIDE DEF a, idxs
<1>7. PoolOK(a) /\ LiveSlots(a) = LiveSlots(p)
  <2>1. LiveSlots(a) = LiveSlots(p)
    BY <1>5 DEF LiveSlots
  <2> QED BY <1>5, <2>1 DEF PoolOK
<1>8. q = ReleaseAll(a, idxs)
  BY DEF Reclaim, Allowance, a, idxs, rest, n, m, L
<1>9. PoolOK(q) /\ Released(a, q, Range(idxs))
  BY <1>6, <1>7, <1>8, ReleaseAllFacts
<1> HIDE DEF q
<1>10. \A i \in Task : \/ q.live[i] = p.live[i]
                       \/ q.live[i] = Nothing /\ \E k \in DOMAIN p.fifo : p.fifo[k].idx = i /\ p.fifo[k].end <= m
  BY <1>3, <1>5, <1>6, <1>9 DEF Released
<1>11. \A k \in DOMAIN q.fifo : \E j \in DOMAIN p.fifo : q.fifo[k] = p.fifo[j]
  BY <1>1, <1>4, <1>5, <1>9 DEF Released
<1>12. Held(q) \subseteq Held(p)
  BY <1>5, <1>7, <1>9 DEF Released, Held
<1> QED BY <1>5, <1>9, <1>10, <1>11, <1>12 DEF Released, Reclaims, q, m

--------------------------------------------------------------------------------
(* acquire *)

\* A miss on a full free list banks a slot: the pool is as sound, and nothing
\* the stream uses has moved.
LEMMA DropOneFacts ==
  ASSUME NEW p, PoolOK(p), ~p.destroyed
  PROVE  /\ PoolOK(DropOne(p)) /\ Released(p, DropOne(p), {})
<1> DEFINE e == Last(p.free)
           f == Front(p.free)
           a == [p EXCEPT !.free = f, !.allocated = @ - 1]
           q == DropOne(p)
<1>1. /\ p \in Pool /\ p.free \in Seq(Slot) /\ p.live \in [Task -> Slot \union {Nothing}]
      /\ p.allocated \in Nat /\ p.destroyed = FALSE
      /\ p.allocated = Len(p.free) + Cardinality(LiveSlots(p)) /\ p.allocated <= SlotCap
  BY DEF PoolOK, Pool
<1>2. CASE p.free = <<>>
  <2>1. q = p
    BY <1>2 DEF DropOne
  <2>2. p.live = [i \in Task |-> p.live[i]]
    BY <1>1
  <2> QED BY <2>1, <2>2 DEF Released
<1>3. CASE p.free # <<>>
  <2>1. /\ Len(p.free) \in Nat /\ Len(p.free) # 0 /\ f \in Seq(Slot) /\ Len(f) = Len(p.free) - 1
        /\ e = p.free[Len(p.free)] /\ e \in Slot /\ \A i \in 1..(Len(p.free) - 1) : f[i] = p.free[i]
        /\ DOMAIN f = 1..(Len(p.free) - 1) /\ DOMAIN p.free = 1..Len(p.free)
    BY <1>1, <1>3 DEF Front, Last
  <2>2. Range(f) \subseteq Range(p.free) /\ e \in Range(p.free) /\ e \notin Range(f) /\ Distinct(f)
    <3> HIDE DEF e, f
    <3>1. Distinct(p.free)
      BY DEF PoolOK
    <3>2. \A i \in 1..(Len(p.free) - 1) : i \in 1..Len(p.free) /\ i # Len(p.free)
      BY <2>1
    <3>3. Len(p.free) \in 1..Len(p.free)
      BY <2>1
    <3>4. Range(f) = {f[i] : i \in 1..(Len(p.free) - 1)} /\ Range(p.free) = {p.free[i] : i \in 1..Len(p.free)}
      BY <2>1, RangeMembers
    <3>5. \A i \in 1..(Len(p.free) - 1) : f[i] # e
      BY <2>1, <3>1, <3>2, <3>3 DEF Distinct
    <3>6. e \notin Range(f) /\ e \in Range(p.free)
      BY <2>1, <3>3, <3>4, <3>5
    <3>7. Range(f) \subseteq Range(p.free)
      BY <2>1, <3>2, <3>4
    <3>8. Distinct(f)
      BY <2>1, <3>1, <3>2, Zenon DEF Distinct
    <3> QED BY <3>6, <3>7, <3>8
  <2> HIDE DEF e, f
  <2>3. /\ a \in Pool /\ a.destroyed = FALSE /\ a.free = f /\ a.allocated = p.allocated - 1 /\ a.live = p.live
        /\ a.bank = p.bank /\ a.fifo = p.fifo /\ a.pushed = p.pushed /\ a.maxSlot = p.maxSlot
    <3>1. p.allocated - 1 \in Nat
      BY <1>1, <2>1, LiveFacts
    <3> QED BY <1>1, <2>1, <3>1 DEF Pool
  <2> HIDE DEF a
  <2>4. LiveSlots(a) = LiveSlots(p)
    BY <2>3 DEF LiveSlots
  <2>5. PoolOK(a)
    <3>1. a.allocated = Len(a.free) + Cardinality(LiveSlots(a)) /\ a.allocated <= SlotCap
      BY <1>1, <2>1, <2>3, <2>4, LiveFacts, CapAssumption
    <3> QED BY <2>2, <2>3, <2>4, <3>1 DEF PoolOK
  <2>6. q = Give(a, e)
    BY <1>3 DEF DropOne, a, e, f
  <2>7. e \notin Range(a.free) /\ e \notin LiveSlots(a)
    BY <2>2, <2>3, <2>4 DEF PoolOK
  <2>8. PoolOK(q) /\ q = [a EXCEPT !.bank = q.bank] /\ q.bank \subseteq a.bank \union {e}
    BY <2>1, <2>5, <2>6, <2>7, GiveFacts
  <2> HIDE DEF q
  <2>9. /\ q.destroyed = p.destroyed /\ q.free = f /\ q.live = p.live
        /\ q.fifo = p.fifo /\ q.pushed = p.pushed /\ q.maxSlot = p.maxSlot
    BY <1>1, <2>3, <2>8 DEF Pool
  <2>10. Held(q) \subseteq Held(p)
    BY <2>2, <2>3, <2>8, <2>9 DEF Held, LiveSlots
  <2>11. q.live = [i \in Task |-> p.live[i]]
    BY <1>1, <2>9
  <2> QED BY <2>8, <2>9, <2>10, <2>11 DEF Released, q
<1> QED BY <1>2, <1>3

\* A slot nobody holds is lent to a task that has none.
LEMMA LendFacts ==
  ASSUME NEW p, p \in Pool, ~p.destroyed, NEW i \in Task, p.live[i] = Nothing, NEW s \in Slot,
         p.allocated = Len(p.free) + Cardinality(LiveSlots(p)) + 1, p.allocated <= SlotCap,
         \A k, j \in Task : p.live[k] = p.live[j] /\ p.live[k] # Nothing => k = j,
         Distinct(p.free), Range(p.free) \intersect LiveSlots(p) = {},
         p.bank \intersect (Range(p.free) \union LiveSlots(p)) = {}, s \notin Held(p)
  PROVE  LET r == Lend(p, i, s)
         IN  /\ PoolOK(r.pool) /\ r.slot = s /\ r.pool.live = [p.live EXCEPT ![i] = s]
             /\ r.pool.fifo = p.fifo /\ r.pool.pushed = p.pushed
             /\ r.pool.destroyed = p.destroyed /\ r.pool.maxSlot >= p.maxSlot
<1> DEFINE q == Lend(p, i, s).pool
<1>1. /\ p.free \in Seq(Slot) /\ p.live \in [Task -> Slot \union {Nothing}] /\ p.maxSlot \in Nat
      /\ SizeOf[s] \in Nat
  BY SizeAssumption DEF Pool
<1>2. /\ q \in Pool /\ q.free = p.free /\ q.allocated = p.allocated /\ q.bank = p.bank
      /\ q.live = [p.live EXCEPT ![i] = s]
      /\ q.fifo = p.fifo /\ q.pushed = p.pushed /\ q.destroyed = p.destroyed /\ q.maxSlot >= p.maxSlot
  <2> DEFINE m == IF SizeOf[s] > p.maxSlot THEN SizeOf[s] ELSE p.maxSlot
  <2>1. m \in Nat /\ m >= p.maxSlot
    BY <1>1
  <2>2. q = [p EXCEPT !.live[i] = s, !.maxSlot = m]
    BY DEF Lend
  <2> HIDE DEF m, q
  <2> QED BY <1>1, <2>1, <2>2 DEF Pool
<1>3. Lend(p, i, s).slot = s
  BY DEF Lend
<1> HIDE DEF q
<1>4. s \notin Range(p.free) /\ s \notin LiveSlots(p) /\ s \notin p.bank
  BY DEF Held
<1>5. /\ LiveSlots(q) = LiveSlots(p) \union {s}
      /\ Cardinality(LiveSlots(q)) = Cardinality(LiveSlots(p)) + 1
  BY <1>2, <1>4, LiveWith
<1>6. q.allocated = Len(q.free) + Cardinality(LiveSlots(q)) /\ q.allocated <= SlotCap
  <2>1. Cardinality(LiveSlots(p)) \in Nat /\ Len(p.free) \in Nat
    BY <1>1, LiveFacts
  <2> QED BY <1>2, <1>5, <2>1
<1>7. \A k, j \in Task : q.live[k] = q.live[j] /\ q.live[k] # Nothing => k = j
  <2>1. \A j \in Task : p.live[j] # s
    BY <1>4, LiveFacts, SlotAssumption
  <2>2. \A j \in Task : q.live[j] = IF j = i THEN s ELSE p.live[j]
    BY <1>1, <1>2
  <2> QED BY <2>1, <2>2, Zenon
<1>8. /\ Range(q.free) \intersect LiveSlots(q) = {}
      /\ q.bank \intersect (Range(q.free) \union LiveSlots(q)) = {}
  BY <1>2, <1>4, <1>5
<1>9. PoolOK(q)
  BY <1>2, <1>6, <1>7, <1>8 DEF PoolOK
<1> QED BY <1>2, <1>3, <1>9 DEF q

\* What acquire does: a reclaim, and then at most one slot for the task, one
\* that neither the pool nor the bank had lent out.
Acquires(p, r, i) ==
  /\ PoolOK(r.pool) /\ r.slot \in Slot \union {Nothing} /\ r.slot \notin LiveSlots(p)
  /\ r.pool.live = [p.live EXCEPT ![i] = r.slot]
  /\ r.pool.fifo = p.fifo /\ r.pool.pushed = p.pushed
  /\ r.pool.destroyed = p.destroyed /\ r.pool.maxSlot >= p.maxSlot

\* acquire: whichever slot it finds.
LEMMA AcquireFacts ==
  ASSUME NEW p0, PoolOK(p0), ~p0.destroyed, NEW i \in Task, p0.live[i] = Nothing,
         NEW queued \in Int, NEW unused \in SUBSET Slot, unused \intersect Held(p0) = {},
         NEW r \in Acquire(p0, i, queued, unused)
  PROVE  /\ PoolOK(Reclaim(p0, queued)) /\ Reclaims(p0, Reclaim(p0, queued), queued)
         /\ Acquires(Reclaim(p0, queued), r, i)
<1> DEFINE p == Reclaim(p0, queued)
           m == DropOne(p)
           grown == [m EXCEPT !.allocated = @ + 1]
           without(k) == [p EXCEPT !.free = RemoveAt(@, k)]
<1>1. PoolOK(p) /\ Reclaims(p0, p, queued)
  BY ReclaimFacts
<1>2. p \in Pool /\ p.destroyed = FALSE /\ p.live[i] = Nothing /\ Held(p) \subseteq Held(p0)
  <2>1. p0.destroyed = FALSE
    BY DEF PoolOK, Pool
  <2> QED BY <1>1, <2>1 DEF PoolOK, Reclaims
<1> HIDE DEF p
<1>3. PoolOK(m) /\ Released(p, m, {})
  BY <1>1, <1>2, DropOneFacts
<1>4. r \in (IF BestFree(p, Need[i]) # {}
               THEN {Lend(without(k), i, p.free[k]) : k \in BestFree(p, Need[i])}
             ELSE IF AtCap(m) THEN {[pool |-> m, slot |-> Nothing]}
             ELSE IF Takable(m, Need[i]) # {}
               THEN {Lend([grown EXCEPT !.bank = @ \ {s}], i, s) : s \in Takable(m, Need[i])}
             ELSE {Lend(grown, i, s) : s \in {t \in unused : SizeOf[t] = Need[i]}})
  BY DEF Acquire, p
<1> HIDE DEF m
<1>5. /\ m \in Pool /\ m.live = p.live /\ m.destroyed = FALSE /\ Held(m) \subseteq Held(p)
      /\ m.fifo = p.fifo /\ m.pushed = p.pushed /\ m.maxSlot = p.maxSlot
      /\ m.allocated = Len(m.free) + Cardinality(LiveSlots(m)) /\ m.allocated \in Nat
      /\ Distinct(m.free) /\ LiveSlots(m) = LiveSlots(p)
  <2>1. p.live = [j \in Task |-> p.live[j]]
    BY <1>2 DEF Pool
  <2>2. m \in Pool /\ m.live = p.live /\ m.destroyed = FALSE
    BY <1>2, <1>3, <2>1 DEF PoolOK, Released, Pool
  <2> QED BY <1>3, <2>2 DEF PoolOK, Released, LiveSlots, Pool
<1>6. m.live[i] = Nothing
  BY <1>2, <1>5
<1>7. /\ grown \in Pool /\ grown.free = m.free /\ grown.allocated = m.allocated + 1 /\ grown.live = m.live
      /\ grown.bank = m.bank /\ grown.fifo = m.fifo /\ grown.pushed = m.pushed /\ grown.maxSlot = m.maxSlot
      /\ grown.destroyed = FALSE
  <2> DEFINE k == m.allocated + 1
  <2>1. k \in Nat
    BY <1>5
  <2>2. grown = [m EXCEPT !.allocated = k]
    OBVIOUS
  <2> HIDE DEF k, grown
  <2>3. /\ grown \in Pool /\ grown.free = m.free /\ grown.allocated = k /\ grown.live = m.live
        /\ grown.bank = m.bank /\ grown.fifo = m.fifo /\ grown.pushed = m.pushed /\ grown.maxSlot = m.maxSlot
        /\ grown.destroyed = FALSE
    BY <1>5, <2>1, <2>2 DEF Pool
  <2> QED BY <2>3 DEF k
<1> HIDE DEF grown
<1>8. ASSUME NEW k \in BestFree(p, Need[i]), r = Lend(without(k), i, p.free[k])
      PROVE  Acquires(p, r, i)
  <2> DEFINE q == without(k)
             s == p.free[k]
  <2>1. p.free \in Seq(Slot) /\ k \in 1..Len(p.free) /\ DOMAIN p.free = 1..Len(p.free) /\ Len(p.free) \in Nat
    <3>1. p.free \in Seq(Slot)
      BY <1>2 DEF Pool
    <3> QED BY <1>8, <3>1 DEF BestFree
  <2>2. /\ RemoveAt(p.free, k) \in Seq(Slot) /\ Len(RemoveAt(p.free, k)) = Len(p.free) - 1
        /\ \A j \in 1..(Len(p.free) - 1) : RemoveAt(p.free, k)[j] = IF j < k THEN p.free[j] ELSE p.free[j + 1]
    BY <2>1, RemoveAtProperties
  <2>3. s \in Slot /\ s \in Range(p.free)
    BY <2>1, RangeMembers
  <2> HIDE DEF s
  <2>4. /\ q \in Pool /\ q.free = RemoveAt(p.free, k) /\ q.allocated = p.allocated /\ q.live = p.live
        /\ q.bank = p.bank /\ q.fifo = p.fifo /\ q.pushed = p.pushed /\ q.maxSlot = p.maxSlot
        /\ q.destroyed = p.destroyed
    BY <1>2, <2>2 DEF Pool
  <2>5. LiveSlots(q) = LiveSlots(p)
    BY <2>4 DEF LiveSlots
  <2> HIDE DEF q
  <2>6. Range(q.free) \subseteq Range(p.free) /\ s \notin Range(q.free) /\ Distinct(q.free)
    <3> DEFINE up(j) == IF j < k THEN j ELSE j + 1
    <3>1. \A j \in 1..(Len(p.free) - 1) : up(j) \in 1..Len(p.free) /\ up(j) # k /\ q.free[j] = p.free[up(j)]
      BY <2>1, <2>2, <2>4
    <3>2. \A j, l \in 1..(Len(p.free) - 1) : up(j) = up(l) => j = l
      BY <2>1
    <3>3. DOMAIN q.free = 1..(Len(p.free) - 1)
      BY <2>2, <2>4
    <3> HIDE DEF up
    <3>4. Range(q.free) = {q.free[j] : j \in 1..(Len(p.free) - 1)} /\ Range(p.free) = {p.free[j] : j \in 1..Len(p.free)}
      BY <2>1, <3>3, RangeMembers
    <3>5. \A j, l \in 1..Len(p.free) : p.free[j] = p.free[l] => j = l
      BY <1>1, <2>1 DEF PoolOK, Distinct
    <3>6. Range(q.free) \subseteq Range(p.free)
      BY <3>1, <3>4
    <3>7. s \notin Range(q.free)
      <4> SUFFICES ASSUME NEW j \in 1..(Len(p.free) - 1), q.free[j] = s PROVE FALSE
        BY <3>4
      <4>1. up(j) \in 1..Len(p.free) /\ up(j) # k /\ p.free[up(j)] = p.free[k]
        BY <3>1 DEF s
      <4>2. k \in 1..Len(p.free)
        BY <2>1
      <4> QED BY <3>5, <4>1, <4>2
    <3>8. Distinct(q.free)
      BY <3>1, <3>2, <3>3, <3>5, Zenon DEF Distinct
    <3> QED BY <3>6, <3>7, <3>8
  <2>7. q.allocated = Len(q.free) + Cardinality(LiveSlots(q)) + 1 /\ q.allocated <= SlotCap
    <3>1. p.allocated = Len(p.free) + Cardinality(LiveSlots(p)) /\ p.allocated <= SlotCap
      BY <1>1, <1>2 DEF PoolOK
    <3>2. Cardinality(LiveSlots(p)) \in Nat
      BY <1>2, LiveFacts
    <3>3. q.allocated = p.allocated /\ Len(q.free) = Len(p.free) - 1 /\ Len(p.free) \in Nat
      BY <2>1, <2>2, <2>4
    <3> QED BY <2>5, <3>1, <3>2, <3>3
  <2>8. s \notin Held(q)
    BY <1>1, <2>3, <2>4, <2>5, <2>6 DEF PoolOK, Held
  <2>9. /\ \A a, b \in Task : q.live[a] = q.live[b] /\ q.live[a] # Nothing => a = b
        /\ Range(q.free) \intersect LiveSlots(q) = {}
        /\ q.bank \intersect (Range(q.free) \union LiveSlots(q)) = {}
    BY <1>1, <2>4, <2>5, <2>6 DEF PoolOK
  <2>10. r = Lend(q, i, s)
    BY <1>8 DEF q, s
  <2>11. q.live[i] = Nothing /\ ~q.destroyed
    BY <1>2, <2>4
  <2>12. /\ PoolOK(r.pool) /\ r.slot = s /\ r.pool.live = [q.live EXCEPT ![i] = s]
         /\ r.pool.fifo = q.fifo /\ r.pool.pushed = q.pushed
         /\ r.pool.destroyed = q.destroyed /\ r.pool.maxSlot >= q.maxSlot
    BY <2>3, <2>4, <2>6, <2>7, <2>8, <2>9, <2>10, <2>11, LendFacts
  <2> QED BY <2>3, <2>4, <2>5, <2>8, <2>12 DEF Acquires, Held
<1>9. ASSUME r = [pool |-> m, slot |-> Nothing]
      PROVE  Acquires(p, r, i)
  <2>1. r.pool = m /\ r.slot = Nothing /\ Nothing \notin LiveSlots(p) /\ r.slot \in Slot \union {Nothing}
    BY <1>9 DEF LiveSlots
  <2>2. m.live = [p.live EXCEPT ![i] = Nothing]
    BY <1>2, <1>5 DEF Pool
  <2>3. m.maxSlot >= p.maxSlot
    BY <1>2, <1>5 DEF Pool
  <2>4. /\ m.live = [p.live EXCEPT ![i] = Nothing] /\ m.fifo = p.fifo /\ m.pushed = p.pushed
        /\ m.destroyed = p.destroyed /\ PoolOK(m)
    BY <1>2, <1>3, <1>5, <2>2
  <2> QED BY <2>1, <2>3, <2>4, Zenon DEF Acquires
<1>10. ASSUME ~AtCap(m), NEW B \in SUBSET m.bank, NEW s \in Slot, s \notin B, s \notin Range(m.free), s \notin LiveSlots(m),
              r = Lend([grown EXCEPT !.bank = B], i, s)
       PROVE  Acquires(p, r, i)
  <2> DEFINE q == [grown EXCEPT !.bank = B]
  <2>1. /\ q \in Pool /\ q.free = m.free /\ q.allocated = m.allocated + 1 /\ q.live = m.live
        /\ q.bank = B /\ q.fifo = m.fifo /\ q.pushed = m.pushed /\ q.maxSlot = m.maxSlot
        /\ q.destroyed = FALSE
    <3>1. m.bank \subseteq Slot
      BY <1>5 DEF Pool
    <3> QED BY <1>7, <3>1 DEF Pool
  <2> HIDE DEF q
  <2>2. LiveSlots(q) = LiveSlots(m)
    BY <2>1 DEF LiveSlots
  <2>3. q.allocated = Len(q.free) + Cardinality(LiveSlots(q)) + 1 /\ q.allocated <= SlotCap
    <3>1. m.allocated < SlotCap
      BY <1>5, <1>10, CapAssumption DEF AtCap
    <3> QED BY <1>5, <2>1, <2>2, <3>1, CapAssumption
  <2>4. s \notin Held(q)
    BY <1>10, <2>1, <2>2 DEF Held
  <2>5. /\ \A a, b \in Task : q.live[a] = q.live[b] /\ q.live[a] # Nothing => a = b
        /\ Range(q.free) \intersect LiveSlots(q) = {}
        /\ q.bank \intersect (Range(q.free) \union LiveSlots(q)) = {} /\ Distinct(q.free)
    BY <1>3, <2>1, <2>2 DEF PoolOK
  <2>6. r = Lend(q, i, s) /\ q.live[i] = Nothing /\ ~q.destroyed
    BY <1>6, <1>10, <2>1 DEF q
  <2>7. /\ PoolOK(r.pool) /\ r.slot = s /\ r.pool.live = [q.live EXCEPT ![i] = s]
        /\ r.pool.fifo = q.fifo /\ r.pool.pushed = q.pushed
        /\ r.pool.destroyed = q.destroyed /\ r.pool.maxSlot >= q.maxSlot
    BY <2>1, <2>3, <2>4, <2>5, <2>6, LendFacts
  <2>8. s \notin LiveSlots(p)
    BY <1>5, <1>10
  <2> QED BY <1>2, <1>5, <2>1, <2>7, <2>8 DEF Acquires
<1>11. ASSUME ~AtCap(m), NEW s \in Takable(m, Need[i]), r = Lend([grown EXCEPT !.bank = @ \ {s}], i, s)
       PROVE  Acquires(p, r, i)
  <2>1. s \in m.bank /\ s \in Slot
    BY <1>5 DEF Takable, Pool
  <2>2. s \notin Range(m.free) /\ s \notin LiveSlots(m)
    BY <1>3, <2>1 DEF PoolOK
  <2>3. r = Lend([grown EXCEPT !.bank = m.bank \ {s}], i, s)
    BY <1>7, <1>11
  <2> QED BY <1>10, <1>11, <2>1, <2>2, <2>3
<1>12. ASSUME ~AtCap(m), NEW s \in unused, r = Lend(grown, i, s)
       PROVE  Acquires(p, r, i)
  <2>1. s \notin Held(m) /\ s \in Slot
    BY <1>2, <1>5
  <2>2. s \notin m.bank /\ s \notin Range(m.free) /\ s \notin LiveSlots(m)
    BY <2>1 DEF Held
  <2>3. grown = [grown EXCEPT !.bank = m.bank]
    BY <1>7 DEF Pool
  <2> QED BY <1>10, <1>12, <2>1, <2>2, <2>3
<1> HIDE DEF without
<1>13. Acquires(p, r, i)
  <2>1. CASE BestFree(p, Need[i]) # {}
    <3>1. PICK k \in BestFree(p, Need[i]) : r = Lend(without(k), i, p.free[k])
      BY <1>4, <2>1
    <3> QED BY <1>8, <3>1, Zenon
  <2>2. CASE BestFree(p, Need[i]) = {} /\ AtCap(m)
    BY <1>4, <1>9, <2>2
  <2>3. CASE BestFree(p, Need[i]) = {} /\ ~AtCap(m) /\ Takable(m, Need[i]) # {}
    BY <1>4, <1>11, <2>3
  <2>4. CASE BestFree(p, Need[i]) = {} /\ ~AtCap(m) /\ Takable(m, Need[i]) = {}
    BY <1>4, <1>12, <2>4
  <2> QED BY <2>1, <2>2, <2>3, <2>4
<1> QED BY <1>1, <1>13 DEF p

--------------------------------------------------------------------------------
(* How many bytes lie behind a chunk *)

\* The function BytesOf is computed by.
SpanStep(q, g, n) == IF n = 0 THEN 0 ELSE g[n - 1] + q[n].len
IsSpan(q, g) == g = [n \in 0..Len(q) |-> SpanStep(q, g, n)]
Spans(q) == CHOOSE g : IsSpan(q, g)

\* Its last value is the length of all chunks.
LEMMA BytesUnfold == \A q : BytesOf(q) = Spans(q)[Len(q)]
BY DEF BytesOf, Spans, IsSpan, SpanStep

\* A queue spans what lies between the ends of its chunks.
LEMMA BytesBetween ==
  ASSUME NEW q \in Seq(Chunk), NEW e, \A k \in 0..Len(q) : e[k] \in Int,
         \A k \in 1..Len(q) : e[k] = e[k - 1] + q[k].len
  PROVE  BytesOf(q) = e[Len(q)] - e[0]
<1> DEFINE N == Len(q)
           h == [n \in 1..N |-> [x \in Int |-> x + q[n].len]]
           zero == 0
<1>1. N \in Nat /\ \A n \in 1..N : q[n].len \in Int
  <2> DEFINE E == Chunk
  <2>1. N \in Nat /\ q \in Seq(E)
    OBVIOUS
  <2> HIDE DEF E
  <2>2. \A n \in 1..N : q[n] \in E
    BY <2>1
  <2> QED BY <2>1, <2>2 DEF E, Chunk
<1>2. \A n \in 1..N : \A x \in Int : h[n][x] = x + q[n].len /\ h[n][x] \in Int
  BY <1>1
<1>3. PICK g \in [0..N -> Int] : Folds(zero, N, h, g)
  <2> HIDE DEF N, h
  <2>1. \A n \in 1..N : \A x \in Int : h[n][x] \in Int
    BY <1>2
  <2>2. zero \in Int
    OBVIOUS
  <2> HIDE DEF zero
  <2> QED BY <1>1, <2>1, <2>2, FoldExists, Zenon
<1> HIDE DEF h, N
<1>4. IsSpan(q, g)
  <2>1. ASSUME NEW n \in 0..N PROVE g[n] = SpanStep(q, g, n)
    <3>1. CASE n = 0
      BY <1>3, <3>1 DEF SpanStep, Folds
    <3>2. CASE n # 0
      <4>1. n \in 1..N /\ g[n - 1] \in Int
        BY <1>1, <1>3, <3>2
      <4> QED BY <1>2, <1>3, <3>2, <4>1 DEF SpanStep, Folds
    <3> QED BY <3>1, <3>2
  <2> QED BY <1>3, <2>1 DEF IsSpan, N
<1>5. IsSpan(q, Spans(q))
  BY <1>4, Zenon DEF Spans
<1> DEFINE r == Spans(q)
<1>6. \A n \in 0..N : r[n] = SpanStep(q, r, n)
  BY <1>5 DEF IsSpan, N
<1> HIDE DEF r
<1> DEFINE G == {n \in Nat : n <= N => r[n] = e[n] - e[0]}
<1>7. 0 \in G
  BY <1>1, <1>6 DEF SpanStep, N
<1>8. ASSUME NEW n \in Nat, n \in G PROVE n + 1 \in G
  <2> SUFFICES ASSUME n + 1 <= N PROVE r[n + 1] = e[n + 1] - e[0]
    OBVIOUS
  <2>1. n \in 0..N /\ n + 1 \in 1..N /\ n + 1 \in 0..N /\ 0 \in 0..N /\ (n + 1) - 1 = n
    BY <1>1
  <2>2. r[n + 1] = r[n] + q[n + 1].len
    BY <1>6, <2>1 DEF SpanStep
  <2>3. r[n] = e[n] - e[0]
    BY <1>1, <1>8
  <2>4. e[n + 1] = e[n] + q[n + 1].len
    BY <2>1 DEF N
  <2> QED BY <1>1, <2>1, <2>2, <2>3, <2>4 DEF N
<1>9. Nat \subseteq G
  <2> HIDE DEF G
  <2> QED BY <1>7, <1>8, NatInductive, Zenon
<1>10. r[N] = e[N] - e[0]
  BY <1>1, <1>9
<1> QED BY <1>10, BytesUnfold DEF r, N

\* Steps no longer than B.
LEMMA StepsShort ==
  ASSUME NEW n \in Nat, NEW B \in Nat, NEW e, \A k \in 0..n : e[k] \in Int,
         \A k \in 1..n : e[k] <= e[k - 1] + B
  PROVE  \A k \in 0..n : e[n] <= e[k] + (n - k) * B
<1> DEFINE G == {d \in Nat : d <= n => e[n] <= e[n - d] + d * B}
<1>1. 0 \in G
  OBVIOUS
<1>2. ASSUME NEW d \in Nat, d \in G PROVE d + 1 \in G
  <2> SUFFICES ASSUME d + 1 <= n PROVE e[n] <= e[n - (d + 1)] + (d + 1) * B
    OBVIOUS
  <2>1. e[n] <= e[n - d] + d * B
    BY <1>2
  <2>2. n - d \in 1..n /\ (n - d) - 1 = n - (d + 1) /\ n - (d + 1) \in 0..n /\ n - d \in 0..n
    OBVIOUS
  <2>3. e[n - d] <= e[n - (d + 1)] + B
    BY <2>2
  <2>4. (d + 1) * B = d * B + B /\ d * B \in Nat
    OBVIOUS
  <2>5. e[n] \in Int /\ e[n - d] \in Int /\ e[n - (d + 1)] \in Int
    BY <2>2
  <2> QED BY <2>1, <2>3, <2>4, <2>5
<1>3. Nat \subseteq G
  <2> HIDE DEF G
  <2> QED BY <1>1, <1>2, NatInductive, Zenon
<1> SUFFICES ASSUME NEW k \in 0..n PROVE e[n] <= e[k] + (n - k) * B
  OBVIOUS
<1>4. n - k \in Nat /\ n - k <= n /\ n - (n - k) = k
  OBVIOUS
<1>5. n - k \in G
  BY <1>3, <1>4
<1> HIDE DEF G
<1>6. e[n] <= e[n - (n - k)] + (n - k) * B
  BY <1>4, <1>5 DEF G
<1> QED BY <1>4, <1>6

\* Steps that never go back.
LEMMA StepsUp ==
  ASSUME NEW m \in Nat, NEW n \in Nat, NEW e, \A k \in 0..n : e[k] \in Int,
         \A k \in 1..n : e[k - 1] < e[k]
  PROVE  \A k \in (m + 1)..n : e[m] < e[k]
<1> DEFINE G == {d \in Nat : d # 0 /\ m + d <= n => e[m] < e[m + d]}
<1>1. 0 \in G
  OBVIOUS
<1>2. ASSUME NEW d \in Nat, d \in G PROVE d + 1 \in G
  <2> SUFFICES ASSUME m + (d + 1) <= n PROVE e[m] < e[m + (d + 1)]
    OBVIOUS
  <2>1. m + (d + 1) \in 1..n /\ (m + (d + 1)) - 1 = m + d /\ m + d \in 0..n /\ m \in 0..n
    OBVIOUS
  <2>2. e[m + d] < e[m + (d + 1)]
    BY <2>1
  <2>3. e[m] \in Int /\ e[m + d] \in Int /\ e[m + (d + 1)] \in Int
    BY <2>1
  <2>4. CASE d = 0
    BY <2>2, <2>4
  <2>5. CASE d # 0
    <3>1. e[m] < e[m + d]
      BY <1>2, <2>5
    <3> QED BY <2>2, <2>3, <3>1
  <2> QED BY <2>4, <2>5
<1>3. Nat \subseteq G
  <2> HIDE DEF G
  <2> QED BY <1>1, <1>2, NatInductive, Zenon
<1> SUFFICES ASSUME NEW k \in (m + 1)..n PROVE e[m] < e[k]
  OBVIOUS
<1>4. k - m \in Nat /\ k - m # 0 /\ m + (k - m) = k /\ k <= n
  OBVIOUS
<1>5. k - m \in G
  BY <1>3, <1>4
<1> QED BY <1>4, <1>5

\* A chunk pushed behind, one handed over at the boundary, one read in front:
\* what that makes of the whole line of chunks.
LEMMA LineFacts ==
  ASSUME NEW S, NEW a \in Seq(S), NEW b \in Seq(S)
  PROVE  /\ \A c \in S : a \o Append(b, c) = Append(a \o b, c)
         /\ b # <<>> => Append(a, Head(b)) \o Tail(b) = a \o b
         /\ a # <<>> => Tail(a) \o b = Tail(a \o b)
<1>1. \A c \in S : a \o Append(b, c) = Append(a \o b, c)
  OBVIOUS
<1>2. b # <<>> => Append(a, Head(b)) \o Tail(b) = a \o b
  OBVIOUS
<1>3. a # <<>> => Tail(a) \o b = Tail(a \o b)
  OBVIOUS
<1> QED BY <1>1, <1>2, <1>3

--------------------------------------------------------------------------------
(* The inductive invariant *)

\* What the pool has lent to a task is what the task works with, and once its
\* bytes are in the slot they stay there.
TaskOK(i) ==
  LET t == task[i]
      l == pool.live[i]
  IN  /\ i >= nextDispatch => t.st = "todo"
      /\ t.st = "todo" => l = Nothing /\ t.slot = Nothing /\ t.body = Nothing
      /\ t.st \in {"wire", "decoded"} => l = t.slot /\ t.body \in {Nothing, t.slot}
      /\ t.st = "buffered" => l = t.body /\ t.slot = Nothing /\ ~Destroyed
      /\ t.st = "abandoned" => Aborted
      /\ t.st \in {"abandoned", "done"} => l = Nothing
      /\ l # Nothing /\ (t.st \in {"buffered", "pushed"} \/ (t.st = "decoded" /\ t.body # Nothing))
           => content[l] = i

\* A chunk that has left the stream and may still be read keeps its slot.
ChunkOK(c) == /\ c.len \in 1..MaxLength /\ task[c.idx].st = "pushed"
              /\ c.slot # Nothing => pool.live[c.idx] = c.slot

Chunks == Range(queue) \union Range(down)

ChunksOK ==
  /\ \A c \in Chunks : ChunkOK(c)
  /\ Len(down) <= Layers
  /\ \A k \in DOMAIN pool.fifo : task[pool.fifo[k].idx].st = "pushed"
  /\ pool.maxSlot >= MaxLength
  /\ pc = "record" => cur \in Chunk
  /\ pc = "record" => task[cur.idx].st = "pushed"

\* All that was pushed, the chunk that push() still holds included.
Pushed == pool.pushed + (IF pc = "record" THEN cur.len ELSE 0)

\* e[k] is where the k-th chunk of the line ends: the last one at the end of
\* what was pushed, and every one where the pool has it down.
Line == down \o queue
Ends(e) ==
  /\ \A k \in 0..Len(Line) : e[k] \in Int
  /\ e[Len(Line)] = Pushed
  /\ \A k \in 1..Len(Line) :
       /\ e[k] = e[k - 1] + Line[k].len
       /\ \A j \in DOMAIN pool.fifo : pool.fifo[j].idx = Line[k].idx => pool.fifo[j].end = e[k]
       /\ pc = "record" /\ Line[k].idx = cur.idx => e[k] = Pushed
LedgerOK == ~Destroyed => \E e : Ends(e)

\* The range: what of the tasks emitted so far lies behind the skip, as far as
\* the limit goes.
Emitted == SumOf(Length, 0..(nextEmit - 1))
RangeOK ==
  /\ skip = Larger(0, SkipBytes - Emitted)
  /\ Pushed = Smaller(Pushed + limit, Larger(0, Emitted - SkipBytes))
  /\ ended => (pc # "record") /\ (limit = 0 \/ nextEmit = Total)

TasksOK == \A i \in Task : TaskOK(i)
StreamIInv == StreamTypeOK /\ PoolOK(pool) /\ TasksOK /\ ChunksOK /\ LedgerOK /\ RangeOK /\ ReadAheadBounded

--------------------------------------------------------------------------------
(* What the parts of the invariant read *)

TaskType == [st : State, slot : Slot \union {Nothing}, body : Slot \union {Nothing}]

\* The constants are numbers.
LEMMA StreamConstants ==
  /\ Total \in Nat /\ Task = 0..(Total - 1) /\ IsFiniteSet(Task)
  /\ TaskBytes \in Nat /\ TaskBytes >= 1 /\ MaxConcurrency \in Nat /\ MaxBufferedBytes \in Nat
  /\ FloorTasks \in Nat /\ HighWater \in Nat /\ SkipBytes \in Nat /\ Layers \in Nat
  /\ MaxLength \in Nat /\ MaxLength >= 1 /\ InitialSlot \in Nat /\ MaxLength <= InitialSlot
  /\ Longest \in Nat /\ Longest >= TaskBytes /\ Longest >= MaxLength
  /\ \A i \in Task : Length[i] \in Nat /\ Length[i] >= 1 /\ Length[i] <= MaxLength
  /\ Nothing \notin Slot /\ Nothing \notin Task /\ Limits \subseteq Nat
<1>1. Total \in Nat /\ Task = 0..(Total - 1) /\ IsFiniteSet(Task)
  BY TaskAssumption, FS_CardinalityType DEF Total
<1>2. /\ MaxLength \in Nat /\ MaxLength >= 1 /\ InitialSlot \in Nat /\ MaxLength <= InitialSlot
      /\ TaskBytes \in Nat /\ TaskBytes >= 1
  BY LengthAssumption, BudgetAssumption
<1>3. \A i \in Task : Length[i] \in Nat /\ Length[i] >= 1 /\ Length[i] <= MaxLength
  BY <1>2, LengthAssumption
<1>4. Longest \in Nat /\ Longest >= TaskBytes /\ Longest >= MaxLength
  BY <1>2 DEF Longest, Larger
<1> QED BY <1>1, <1>2, <1>3, <1>4, BudgetAssumption, RangeAssumption, CapAssumption, SlotAssumption

\* A task that nothing is done to, or whose pushed chunk has been consumed.
LEMMA TaskKept ==
  ASSUME NEW j \in Task, TaskOK(j), task'[j] = task[j], j >= nextDispatch' => j >= nextDispatch, Aborted => Aborted',
         pool'.destroyed = pool.destroyed \/ task[j].st # "buffered",
         \/ /\ pool'.live[j] = pool.live[j]
            /\ pool.live[j] # Nothing => content'[pool.live[j]] = content[pool.live[j]]
         \/ pool'.live[j] = Nothing /\ task[j].st = "pushed"
  PROVE  TaskOK(j)'
<1>1. CASE pool'.live[j] = pool.live[j] /\ (pool.live[j] # Nothing => content'[pool.live[j]] = content[pool.live[j]])
  BY <1>1 DEF TaskOK, Destroyed
<1>2. CASE pool'.live[j] = Nothing /\ task[j].st = "pushed"
  BY <1>2 DEF TaskOK
<1> QED BY <1>1, <1>2

\* What is done to other chunks and to what has not been pushed.
LEMMA ChunksKept ==
  ASSUME ChunksOK, Chunks' \subseteq Chunks, Len(down') <= Layers,
         \A j \in Task : task[j].st = "pushed" => task'[j].st = "pushed",
         \A c \in Chunks' : c.idx \in Task /\ (c.slot # Nothing => pool'.live[c.idx] = pool.live[c.idx]),
         \A k \in DOMAIN pool.fifo : pool.fifo[k].idx \in Task,
         \A k \in DOMAIN pool'.fifo : \E j \in DOMAIN pool.fifo : pool'.fifo[k] = pool.fifo[j],
         pool'.maxSlot >= pool.maxSlot, pool.maxSlot \in Nat, pool'.maxSlot \in Nat,
         cur' = cur, (pc' = "record") = (pc = "record")
  PROVE  ChunksOK'
<1>1. ASSUME NEW c \in Chunks' PROVE ChunkOK(c)'
  BY <1>1 DEF ChunksOK, ChunkOK
<1>2. \A k \in DOMAIN pool'.fifo : task'[pool'.fifo[k].idx].st = "pushed"
  BY DEF ChunksOK
<1>3. pool'.maxSlot >= MaxLength
  BY StreamConstants DEF ChunksOK
<1>4. /\ pc' = "record" => cur' \in Chunk
      /\ pc' = "record" => task'[cur'.idx].st = "pushed"
  <2>1. pc = "record" => cur \in Chunk /\ task[cur.idx].st = "pushed"
    BY DEF ChunksOK
  <2>2. cur \in Chunk => cur.idx \in Task
    BY DEF Chunk
  <2> QED BY <2>1, <2>2
<1> QED BY <1>1, <1>2, <1>3, <1>4 DEF ChunksOK

\* Chunks handed over, chunks the pool has written off.
LEMMA LedgerKept ==
  ASSUME LedgerOK, Line' = Line, cur' = cur, (pc' = "record") = (pc = "record"), pool'.pushed = pool.pushed,
         Destroyed => Destroyed',
         \A k \in DOMAIN pool'.fifo : \E j \in DOMAIN pool.fifo : pool'.fifo[k] = pool.fifo[j]
  PROVE  LedgerOK'
<1> SUFFICES ASSUME ~Destroyed' PROVE (\E e : Ends(e))'
  BY DEF LedgerOK
<1>1. PICK e : Ends(e)
  BY DEF LedgerOK
<1>2. Pushed' = Pushed
  BY DEF Pushed
<1>3. Ends(e)'
  <2>1. (\A k \in 0..Len(Line') : e[k] \in Int) /\ e[Len(Line')] = Pushed'
    BY <1>1, <1>2, Zenon DEF Ends
  <2>2. ASSUME NEW k \in 1..Len(Line')
        PROVE  /\ e[k] = e[k - 1] + Line'[k].len
               /\ \A j \in DOMAIN pool'.fifo : pool'.fifo[j].idx = Line'[k].idx => pool'.fifo[j].end = e[k]
               /\ pc' = "record" /\ Line'[k].idx = cur'.idx => e[k] = Pushed'
    <3>1. /\ e[k] = e[k - 1] + Line[k].len
          /\ \A j \in DOMAIN pool.fifo : pool.fifo[j].idx = Line[k].idx => pool.fifo[j].end = e[k]
          /\ pc = "record" /\ Line[k].idx = cur.idx => e[k] = Pushed
      BY <1>1, Zenon DEF Ends
    <3> QED BY <1>2, <3>1
  <2> QED BY <2>1, <2>2 DEF Ends
<1> QED BY <1>3

\* Nothing is emitted.
LEMMA RangeKept ==
  ASSUME RangeOK, UNCHANGED <<skip, limit, nextEmit, ended, cur>>, (pc' = "record") = (pc = "record"),
         pool'.pushed = pool.pushed
  PROVE  RangeOK'
<1>1. Pushed' = Pushed /\ Emitted' = Emitted
  BY DEF Pushed, Emitted
<1> QED BY <1>1 DEF RangeOK

\* What is buffered is a sum over the tasks.
LEMMA BufferedSum == /\ BufferedBytes = SumOf(Length, In("buffered"))
                     /\ BufferedBytes' = SumOf(Length, In("buffered")')
BY DEF BufferedBytes, SumOf, MapThenSumSet, MapThenFoldSet

\* Nothing is fetched or buffered, or the stream is over.
LEMMA AheadKept ==
  ASSUME ReadAheadBounded,
         Aborted' \/ /\ ~Aborted /\ inflight' = inflight /\ In("buffered")' = In("buffered")
                     /\ (In("wire") \union In("decoded"))' = In("wire") \union In("decoded")
  PROVE  ReadAheadBounded'
<1> SUFFICES ASSUME ~Aborted' PROVE ReadAheadBounded'
  BY DEF ReadAheadBounded
<1>1. BufferedBytes' = BufferedBytes
  BY BufferedSum
<1> QED BY <1>1 DEF ReadAheadBounded, CouldHold

\* One task moves on: the others are where they were.
LEMMA OneMoves ==
  ASSUME NEW i \in Task, \A j \in Task \ {i} : task'[j].st = task[j].st
  PROVE  \A x : In(x)' = (In(x) \ {i}) \union (IF task'[i].st = x THEN {i} ELSE {})
<1> SUFFICES ASSUME NEW x PROVE In(x)' = (In(x) \ {i}) \union (IF task'[i].st = x THEN {i} ELSE {})
  OBVIOUS
<1>1. In(x)' = {j \in Task : task'[j].st = x} /\ In(x) = {j \in Task : task[j].st = x}
  BY DEF In
<1> QED BY <1>1

\* The types, taken apart.
LEMMA StreamTypes ==
  ASSUME StreamTypeOK, PoolOK(pool)
  PROVE  /\ task \in [Task -> TaskType]
         /\ \A i \in Task : /\ task[i].st \in State /\ task[i].slot \in Slot \union {Nothing}
                            /\ task[i].body \in Slot \union {Nothing} /\ pool.live[i] \in Slot \union {Nothing}
         /\ \A c \in Chunks : c.idx \in Task /\ c.slot \in Slot \union {Nothing} /\ c.len \in Nat
         /\ queue \in Seq(Chunk) /\ down \in Seq(Chunk) /\ Line \in Seq(Chunk) /\ Range(Line) = Chunks
         /\ pool \in Pool /\ pool.pushed \in Nat /\ pool.maxSlot \in Nat /\ pool.destroyed \in BOOLEAN
         /\ pool.live \in [Task -> Slot \union {Nothing}]
         /\ pool.fifo \in Seq([idx : Task, end : Nat])
         /\ \A k \in DOMAIN pool.fifo : pool.fifo[k].idx \in Task /\ pool.fifo[k].end \in Nat
         /\ cur \in Chunk => cur.idx \in Task /\ cur.slot \in Slot \union {Nothing} /\ cur.len \in Nat
<1>1. /\ task \in [Task -> TaskType] /\ queue \in Seq(Chunk) /\ down \in Seq(Chunk)
      /\ pool \in Pool /\ cur \in Chunk \union {Nothing}
  BY DEF StreamTypeOK, TaskType
<1>2. \A i \in Task : /\ task[i].st \in State /\ task[i].slot \in Slot \union {Nothing}
                      /\ task[i].body \in Slot \union {Nothing}
  BY <1>1 DEF TaskType
<1>3. /\ pool.pushed \in Nat /\ pool.maxSlot \in Nat /\ pool.destroyed \in BOOLEAN
      /\ pool.live \in [Task -> Slot \union {Nothing}] /\ pool.fifo \in Seq([idx : Task, end : Nat])
  BY <1>1 DEF Pool
<1>4. \A k \in DOMAIN pool.fifo : pool.fifo[k].idx \in Task /\ pool.fifo[k].end \in Nat
  <2> DEFINE E == [idx : Task, end : Nat]
  <2>1. pool.fifo \in Seq(E)
    BY <1>3
  <2> HIDE DEF E
  <2>2. \A k \in DOMAIN pool.fifo : pool.fifo[k] \in E
    BY <2>1
  <2> QED BY <2>2 DEF E
<1>5. Line \in Seq(Chunk) /\ Range(Line) = Chunks
  BY <1>1, ConcatFacts DEF Line, Chunks
<1>6. \A c \in Chunks : c \in Chunk
  <2> DEFINE E == Chunk
  <2>1. queue \in Seq(E) /\ down \in Seq(E)
    BY <1>1
  <2> HIDE DEF E
  <2>2. (\A k \in DOMAIN queue : queue[k] \in E) /\ \A k \in DOMAIN down : down[k] \in E
    BY <2>1
  <2> QED BY <2>2, RangeMembers DEF Chunks, E
<1>7. \A c \in Chunk : c.idx \in Task /\ c.slot \in Slot \union {Nothing} /\ c.len \in Nat
  BY DEF Chunk
<1> QED BY <1>1, <1>2, <1>3, <1>4, <1>5, <1>6, <1>7

\* A step that pushes and hands over nothing.
LEMMA QuietStep ==
  ASSUME StreamIInv, UNCHANGED <<queue, down, cur>>, (pc' = "record") = (pc = "record"),
         pool'.fifo = pool.fifo, pool'.pushed = pool.pushed, pool'.maxSlot = pool.maxSlot,
         Destroyed => Destroyed',
         \A j \in Task : task[j].st = "pushed" => task'[j].st = "pushed" /\ pool'.live[j] = pool.live[j]
  PROVE  ChunksOK' /\ LedgerOK'
<1>1. StreamTypeOK /\ PoolOK(pool) /\ ChunksOK /\ LedgerOK
  BY DEF StreamIInv
<1>2. Chunks' = Chunks /\ Line' = Line /\ Len(down') <= Layers
  BY <1>1 DEF Chunks, Line, ChunksOK
<1>3. \A c \in Chunks' : c.idx \in Task /\ pool'.live[c.idx] = pool.live[c.idx]
  BY <1>1, <1>2, StreamTypes DEF ChunksOK, ChunkOK
<1>4. ChunksOK'
  <2>1. \A k \in DOMAIN pool'.fifo : \E j \in DOMAIN pool.fifo : pool'.fifo[k] = pool.fifo[j]
    OBVIOUS
  <2>2. pool.maxSlot \in Nat /\ (\A k \in DOMAIN pool.fifo : pool.fifo[k].idx \in Task)
    BY <1>1, StreamTypes
  <2>3. pool'.maxSlot >= pool.maxSlot
    BY <2>2
  <2> QED BY <1>1, <1>2, <1>3, <2>1, <2>2, <2>3, ChunksKept
<1>5. LedgerOK'
  BY <1>1, <1>2, LedgerKept
<1> QED BY <1>4, <1>5

\* A body in a buffer of its own.
LEMMA OwnedBodyKeeps ==
  ASSUME StreamIInv, NEW i \in Task, OwnedBody(i)
  PROVE  StreamIInv'
<1>1. StreamTypeOK /\ PoolOK(pool) /\ TasksOK /\ RangeOK /\ ReadAheadBounded
  BY DEF StreamIInv
<1>2. /\ task' = [task EXCEPT ![i].st = "decoded", ![i].body = Nothing] /\ task[i].st = "wire"
      /\ UNCHANGED <<pool, content, nextDispatch, nextEmit, inflight, paused, ended, skip, limit, pc, cur,
                     queue, reading, down, closed>>
  BY DEF OwnedBody, restVars
<1>3. /\ task'[i].st = "decoded" /\ task'[i].slot = task[i].slot /\ task'[i].body = Nothing
      /\ \A j \in Task \ {i} : task'[j] = task[j]
      /\ task' \in [Task -> TaskType]
  <2>1. task \in [Task -> TaskType]
    BY <1>1, StreamTypes
  <2>2. PICK t : t = [task[i] EXCEPT !.st = "decoded", !.body = Nothing]
    OBVIOUS
  <2>3. "decoded" \in State /\ task[i] \in TaskType
    BY <2>1 DEF State
  <2>4. t \in TaskType /\ t.st = "decoded" /\ t.slot = task[i].slot /\ t.body = Nothing
    BY <2>2, <2>3 DEF TaskType
  <2>5. task' = [task EXCEPT ![i] = t]
    BY <1>2, <2>1, <2>2
  <2> QED BY <2>1, <2>4, <2>5
<1>4. StreamTypeOK'
  BY <1>1, <1>2, <1>3 DEF StreamTypeOK, TaskType, Total
<1>5. Aborted' = Aborted
  BY <1>2 DEF Aborted, Destroyed
<1>6. TasksOK'
  <2>1. ASSUME NEW j \in Task, j # i PROVE TaskOK(j)'
    <3>1. TaskOK(j) /\ task'[j] = task[j]
      BY <1>1, <1>3, <2>1 DEF TasksOK
    <3> QED BY <1>2, <1>5, <3>1, TaskKept
  <2>2. TaskOK(i)'
    <3>1. TaskOK(i)
      BY <1>1 DEF TasksOK
    <3> QED BY <1>2, <1>3, <3>1 DEF TaskOK
  <2> QED BY <2>1, <2>2 DEF TasksOK
<1>7. ChunksOK' /\ LedgerOK'
  BY <1>2, <1>3, QuietStep DEF Destroyed
<1>8. RangeOK'
  BY <1>1, <1>2, RangeKept
<1>9. ReadAheadBounded'
  <2>1. \A x : In(x)' = (In(x) \ {i}) \union (IF task'[i].st = x THEN {i} ELSE {})
    BY <1>3, OneMoves
  <2>2. i \in In("wire") /\ i \notin In("buffered") /\ i \notin In("decoded")
    BY <1>2 DEF In
  <2>3. In("buffered")' = In("buffered") /\ (In("wire") \union In("decoded"))' = In("wire") \union In("decoded")
    BY <1>3, <2>1, <2>2
  <2>4. ~Aborted
    BY DEF OwnedBody
  <2> QED BY <1>1, <1>2, <1>5, <2>3, <2>4, AheadKept
<1> QED BY <1>1, <1>2, <1>4, <1>6, <1>7, <1>8, <1>9 DEF StreamIInv

\* Steps that only move the program counter or end the stream.
LEMMA MarkKeeps ==
  ASSUME StreamIInv, UNCHANGED <<task, nextDispatch, nextEmit, inflight, paused, pool, content, skip, limit,
                                 cur, queue, reading, down, closed>>,
         ended \in BOOLEAN, ended' \in BOOLEAN, ended => ended', pc' \in {"flush", "dispatch", "idle"}, pc # "record",
         ended' => limit = 0 \/ nextEmit = Total
  PROVE  StreamIInv'
<1>1. StreamTypeOK /\ PoolOK(pool) /\ TasksOK /\ RangeOK /\ ReadAheadBounded
  BY DEF StreamIInv
<1>2. StreamTypeOK'
  BY <1>1 DEF StreamTypeOK, Total
<1>3. Aborted => Aborted'
  BY DEF Aborted, Destroyed
<1>4. TasksOK'
  <2>1. ASSUME NEW j \in Task PROVE TaskOK(j)'
    BY <1>1, <1>3, TaskKept DEF TasksOK
  <2> QED BY <2>1 DEF TasksOK
<1>5. ChunksOK' /\ LedgerOK'
  BY QuietStep DEF Destroyed
<1>6. RangeOK'
  <2>1. Pushed' = Pushed /\ Emitted' = Emitted
    BY DEF Pushed, Emitted
  <2> QED BY <1>1, <2>1 DEF RangeOK, Total
<1>7. ReadAheadBounded'
  <2>1. \A x : In(x)' = In(x)
    BY DEF In
  <2> QED BY <1>1, <1>3, <2>1, AheadKept
<1> QED BY <1>1, <1>2, <1>4, <1>5, <1>6, <1>7 DEF StreamIInv

\* The end of a flush.
LEMMA FlushDoneKeeps ==
  ASSUME StreamIInv, FlushDone
  PROVE  StreamIInv'
<1>1. StreamTypeOK /\ RangeOK /\ ended \in BOOLEAN /\ nextEmit \in 0..Total /\ Total \in Nat
  BY StreamConstants DEF StreamIInv, StreamTypeOK
<1>2. ended' \in BOOLEAN /\ (ended => ended') /\ (ended' => ended \/ AllEmitted)
  BY <1>1 DEF FlushDone, FinishEnd
<1>3. AllEmitted => nextEmit = Total
  BY <1>1 DEF AllEmitted
<1>4. ended' => limit = 0 \/ nextEmit = Total
  BY <1>1, <1>2, <1>3 DEF RangeOK
<1> QED BY <1>1, <1>2, <1>4, MarkKeeps DEF FlushDone

\* The end of a dispatch.
LEMMA DispatchDoneKeeps ==
  ASSUME StreamIInv, DispatchDone
  PROVE  StreamIInv'
<1>1. StreamTypeOK /\ RangeOK /\ ended \in BOOLEAN
  BY DEF StreamIInv, StreamTypeOK
<1>2. ended => limit = 0 \/ nextEmit = Total
  BY <1>1 DEF RangeOK
<1> QED BY <1>1, <1>2, MarkKeeps DEF DispatchDone

\* The abort takes a task off the wire: its slot goes back while the download
\* is still running.
LEMMA AbandonTaskKeeps ==
  ASSUME StreamIInv, NEW i \in Task, AbandonTask(i)
  PROVE  StreamIInv'
<1>1. StreamTypeOK /\ PoolOK(pool) /\ TasksOK /\ RangeOK /\ ReadAheadBounded
  BY DEF StreamIInv
<1>2. /\ task' = [task EXCEPT ![i].st = "abandoned"] /\ task[i].st = "wire" /\ pool' = Release(pool, i) /\ Aborted
      /\ UNCHANGED <<content, nextDispatch, nextEmit, inflight, paused, ended, skip, limit, pc, cur,
                     queue, reading, down, closed>>
  BY DEF AbandonTask, restVars, Become
<1>3. /\ task'[i].st = "abandoned" /\ \A j \in Task \ {i} : task'[j] = task[j]
      /\ task' \in [Task -> TaskType]
  BY <1>1, <1>2, StreamTypes DEF TaskType, State
<1>4. PoolOK(pool') /\ Released(pool, pool', {i})
  BY <1>1, <1>2, ReleaseFacts
<1>5. /\ pool' \in Pool /\ pool'.live[i] = Nothing /\ pool'.destroyed = pool.destroyed
      /\ \A j \in Task \ {i} : pool'.live[j] = pool.live[j]
  BY <1>4 DEF PoolOK, Released
<1>6. StreamTypeOK'
  BY <1>1, <1>2, <1>3, <1>5 DEF StreamTypeOK, TaskType, Total
<1>7. Aborted' = Aborted /\ Destroyed' = Destroyed
  BY <1>2, <1>4 DEF Aborted, Destroyed, Released
<1>8. TasksOK'
  <2>1. ASSUME NEW j \in Task, j # i PROVE TaskOK(j)'
    <3>1. TaskOK(j) /\ task'[j] = task[j] /\ pool'.live[j] = pool.live[j]
      BY <1>1, <1>3, <1>5, <2>1 DEF TasksOK
    <3> QED BY <1>2, <1>5, <1>7, <3>1, TaskKept
  <2>2. TaskOK(i)'
    <3>1. TaskOK(i)
      BY <1>1 DEF TasksOK
    <3> QED BY <1>2, <1>3, <1>5, <1>7, <3>1 DEF TaskOK
  <2> QED BY <2>1, <2>2 DEF TasksOK
<1>9. ChunksOK' /\ LedgerOK'
  <2>1. \A j \in Task : task[j].st = "pushed" => task'[j].st = "pushed" /\ pool'.live[j] = pool.live[j]
    BY <1>2, <1>3, <1>5
  <2> QED BY <1>2, <1>4, <1>7, <2>1, QuietStep DEF Released
<1>10. RangeOK'
  BY <1>1, <1>2, <1>4, RangeKept DEF Released
<1>11. ReadAheadBounded'
  BY <1>1, <1>2, <1>7, AheadKept
<1> QED BY <1>4, <1>6, <1>8, <1>9, <1>10, <1>11 DEF StreamIInv

\* A download nobody waits for lands: it writes nothing.
LEMMA LandsKeeps ==
  ASSUME StreamIInv, NEW i \in Task, Lands(i)
  PROVE  StreamIInv' /\ content' = content
<1>1. StreamTypeOK /\ PoolOK(pool) /\ TasksOK /\ RangeOK /\ ReadAheadBounded
  BY DEF StreamIInv
<1>2. Aborted /\ TaskOK(i) /\ pool.live[i] = Nothing /\ task[i].st = "abandoned"
  BY <1>1 DEF Lands, TasksOK, TaskOK
<1>3. /\ task' = [task EXCEPT ![i] = [st |-> "done", slot |-> Nothing, body |-> Nothing]]
      /\ UNCHANGED <<pool, content, nextDispatch, nextEmit, inflight, paused, ended, skip, limit, pc, cur,
                     queue, reading, down, closed>>
  BY <1>2 DEF Lands, restVars, DecodesLate
<1>4. /\ task'[i].st = "done" /\ \A j \in Task \ {i} : task'[j] = task[j]
      /\ task' \in [Task -> TaskType]
  BY <1>1, <1>3, StreamTypes DEF TaskType, State
<1>5. StreamTypeOK'
  BY <1>1, <1>3, <1>4 DEF StreamTypeOK, TaskType, Total
<1>6. Aborted' = Aborted
  BY <1>3 DEF Aborted, Destroyed
<1>7. TasksOK'
  <2>1. ASSUME NEW j \in Task, j # i PROVE TaskOK(j)'
    <3>1. TaskOK(j) /\ task'[j] = task[j]
      BY <1>1, <1>4, <2>1 DEF TasksOK
    <3> QED BY <1>3, <1>6, <3>1, TaskKept
  <2>2. TaskOK(i)'
    BY <1>2, <1>3, <1>4 DEF TaskOK
  <2> QED BY <2>1, <2>2 DEF TasksOK
<1>8. ChunksOK' /\ LedgerOK'
  <2>1. \A j \in Task : task[j].st = "pushed" => task'[j].st = "pushed"
    BY <1>2, <1>4
  <2> QED BY <1>3, <2>1, QuietStep DEF Destroyed
<1>9. RangeOK'
  BY <1>1, <1>3, RangeKept
<1>10. ReadAheadBounded'
  BY <1>1, <1>2, <1>6, AheadKept
<1> QED BY <1>1, <1>3, <1>5, <1>7, <1>8, <1>9, <1>10 DEF StreamIInv

\* Another stream writes into a banked slot: no slot of this one.
LEMMA OtherStreamKeeps ==
  ASSUME StreamIInv, OtherStream
  PROVE  StreamIInv' /\ \A s \in Slot : content'[s] \in {content[s], Nothing}
<1>1. StreamTypeOK /\ PoolOK(pool) /\ TasksOK /\ RangeOK /\ ReadAheadBounded
  BY DEF StreamIInv
<1>2. PICK s \in pool.bank : content' = [content EXCEPT ![s] = Nothing]
  BY DEF OtherStream
<1>3. UNCHANGED <<task, pool, nextDispatch, nextEmit, inflight, paused, ended, skip, limit, pc, cur,
                  queue, reading, down, closed>>
  BY DEF OtherStream, restVars
<1>4. content \in [Slot -> Task \union {Nothing}] /\ content' \in [Slot -> Task \union {Nothing}]
  BY <1>1, <1>2 DEF StreamTypeOK
<1>5. StreamTypeOK'
  BY <1>1, <1>3, <1>4 DEF StreamTypeOK, Total
<1>6. Aborted' = Aborted
  BY <1>3 DEF Aborted, Destroyed
<1>7. TasksOK'
  <2>1. ASSUME NEW j \in Task PROVE TaskOK(j)'
    <3>1. TaskOK(j)
      BY <1>1 DEF TasksOK
    <3>2. pool.live[j] # Nothing => pool.live[j] \in LiveSlots(pool) /\ pool.live[j] \in Slot
      BY <1>1, StreamTypes, LiveFacts
    <3>3. pool.live[j] # Nothing => content'[pool.live[j]] = content[pool.live[j]]
      BY <1>1, <1>2, <1>4, <3>2 DEF PoolOK
    <3> QED BY <1>3, <1>6, <3>1, <3>3, TaskKept
  <2> QED BY <2>1 DEF TasksOK
<1>8. ChunksOK' /\ LedgerOK'
  BY <1>3, QuietStep DEF Destroyed
<1>9. RangeOK'
  BY <1>1, <1>3, RangeKept
<1>10. ReadAheadBounded'
  <2>1. \A x : In(x)' = In(x)
    BY <1>3 DEF In
  <2> QED BY <1>1, <1>3, <1>6, <2>1, AheadKept
<1>11. \A t \in Slot : content'[t] \in {content[t], Nothing}
  BY <1>2, <1>4
<1> QED BY <1>1, <1>3, <1>5, <1>7, <1>8, <1>9, <1>10, <1>11 DEF StreamIInv

\* How the budget is counted.
LEMMA AheadFacts ==
  ASSUME StreamTypeOK
  PROVE  /\ inflight \in Nat /\ BufferedBytes \in Nat
         /\ ReadAhead = BufferedBytes + inflight * TaskBytes
         /\ CouldHold = BufferedBytes + inflight * Longest
         /\ \A x : IsFiniteSet(In(x)) /\ \A j \in In(x) : j \in Task
<1>1. inflight \in Nat
  BY StreamConstants DEF StreamTypeOK
<1>2. \A x : In(x) \in SUBSET Task
  BY DEF In
<1>3. \A x : IsFiniteSet(In(x))
  BY <1>2, StreamConstants, FS_Subset
<1>4. \A j \in In("buffered") : Length[j] \in Nat
  BY <1>2, StreamConstants
<1>5. SumOf(Length, In("buffered")) \in Nat
  BY <1>3, <1>4, SumType
<1> QED BY <1>1, <1>2, <1>3, <1>5, BufferedSum DEF ReadAhead, CouldHold

\* A fetch that ends in the buffer: no more than what it was counted for.
LEMMA Buffers ==
  ASSUME StreamTypeOK, ReadAheadBounded, ~Aborted, NEW i \in Task, task[i].st \in {"wire", "decoded"},
         task'[i].st = "buffered", \A j \in Task \ {i} : task'[j].st = task[j].st, inflight' = inflight - 1
  PROVE  ReadAheadBounded' /\ inflight >= 1
<1> DEFINE F == In("wire") \union In("decoded")
           B == In("buffered")
<1>1. \A x : In(x)' = (In(x) \ {i}) \union (IF task'[i].st = x THEN {i} ELSE {})
  BY OneMoves
<1>2. i \in F /\ i \notin B
  BY DEF In
<1>3. B' = B \union {i} /\ F' = F \ {i}
  <2>1. B' = (B \ {i}) \union {i}
    BY <1>1
  <2>2. In("wire")' = In("wire") \ {i} /\ In("decoded")' = In("decoded") \ {i}
    BY <1>1
  <2> QED BY <1>2, <2>1, <2>2
<1>4. inflight \in Nat /\ IsFiniteSet(F) /\ IsFiniteSet(B) /\ \A j \in B : j \in Task
  BY AheadFacts, FS_Union
<1>5. inflight = Cardinality(F) /\ CouldHold < MaxConcurrency * Longest + MaxBufferedBytes + TaskBytes
  BY DEF ReadAheadBounded
<1> HIDE DEF F, B
<1>6. Cardinality(F') = Cardinality(F) - 1
  BY <1>2, <1>3, <1>4, FS_RemoveElement
<1>7. inflight >= 1 /\ inflight' = Cardinality(F')
  <2>1. F # {}
    BY <1>2
  <2>2. Cardinality(F) \in Nat /\ Cardinality(F) # 0
    BY <1>4, <2>1, FS_EmptySet, FS_CardinalityType
  <2> QED BY <1>5, <1>6, <2>2
<1>8. SumOf(Length, B') = Length[i] + SumOf(Length, B) /\ SumOf(Length, B) \in Nat
  <2>1. IsFiniteSet(B') /\ i \in B' /\ B' \ {i} = B
    BY <1>2, <1>3, <1>4, FS_AddElement
  <2>2. \A j \in B' : Length[j] \in Nat
    BY <1>3, <1>4, StreamConstants
  <2>3. SumOf(Length, B') = Length[i] + SumOf(Length, B' \ {i})
    BY <2>1, <2>2, SumAdd
  <2>4. SumOf(Length, B) \in Nat
    BY <1>4, StreamConstants, SumType
  <2> QED BY <2>1, <2>3, <2>4
<1>9. CouldHold' <= CouldHold /\ CouldHold \in Int /\ CouldHold' \in Int
  <2>1. CouldHold = SumOf(Length, B) + inflight * Longest /\ CouldHold' = SumOf(Length, B') + inflight' * Longest
    BY BufferedSum DEF CouldHold, B
  <2>2. inflight' * Longest = inflight * Longest - Longest /\ inflight * Longest \in Int
    BY <1>4, StreamConstants
  <2>3. Length[i] \in Nat /\ Length[i] <= Longest /\ Longest \in Nat
    BY StreamConstants
  <2> QED BY <1>8, <2>1, <2>2, <2>3
<1>10. CouldHold' < MaxConcurrency * Longest + MaxBufferedBytes + TaskBytes
  <2>1. MaxConcurrency * Longest + MaxBufferedBytes + TaskBytes \in Int
    BY StreamConstants
  <2> QED BY <1>5, <1>9, <2>1
<1> QED BY <1>7, <1>10 DEF ReadAheadBounded, F

\* A fetch that ends in the buffer, its slot kept as the body's or given back.
LEMMA ArrivalKeeps ==
  ASSUME StreamIInv, NEW i \in Task, task[i].st \in {"wire", "decoded"}, ~Aborted,
         task' \in [Task -> TaskType], \A j \in Task \ {i} : task'[j] = task[j],
         task'[i].st = "buffered", task'[i].slot = Nothing, inflight' = inflight - 1, pc # "record", pc' = "flush",
         UNCHANGED <<nextDispatch, nextEmit, paused, ended, content, skip, limit, cur, queue, reading, down, closed>>,
         \/ /\ pool' = Release(pool, i)
            /\ task'[i].body = Nothing
         \/ /\ pool' = pool /\ task'[i].body = task[i].body
            /\ task[i].st = "decoded" /\ ~(task[i].slot # Nothing /\ task[i].body = Nothing)
  PROVE  StreamIInv'
<1>1. StreamTypeOK /\ PoolOK(pool) /\ TasksOK /\ RangeOK /\ ReadAheadBounded
  BY DEF StreamIInv
<1>2. TaskOK(i)
  BY <1>1 DEF TasksOK
<1>3. /\ PoolOK(pool') /\ pool' \in Pool
      /\ \A j \in Task \ {i} : pool'.live[j] = pool.live[j]
      /\ pool'.live[i] = task'[i].body
      /\ pool'.fifo = pool.fifo /\ pool'.pushed = pool.pushed /\ pool'.maxSlot = pool.maxSlot
      /\ pool'.destroyed = pool.destroyed
  <2>1. CASE pool' = Release(pool, i) /\ task'[i].body = Nothing
    <3>1. PoolOK(pool') /\ Released(pool, pool', {i})
      BY <1>1, <2>1, ReleaseFacts
    <3> QED BY <2>1, <3>1 DEF Released, PoolOK
  <2>2. CASE pool' = pool /\ task'[i].body = task[i].body
             /\ task[i].st = "decoded" /\ ~(task[i].slot # Nothing /\ task[i].body = Nothing)
    BY <1>1, <1>2, <2>2 DEF TaskOK, PoolOK
  <2> QED BY <2>1, <2>2
<1>4. ReadAheadBounded' /\ inflight >= 1
  BY <1>1, Buffers
<1>5. StreamTypeOK'
  <2>1. inflight' \in 0..MaxConcurrency
    BY <1>1, <1>4, StreamConstants DEF StreamTypeOK
  <2> QED BY <1>1, <1>3, <2>1 DEF StreamTypeOK, TaskType, Total
<1>6. Aborted' = Aborted /\ Destroyed' = Destroyed
  BY <1>3 DEF Aborted, Destroyed
<1>7. TasksOK'
  <2>1. ASSUME NEW j \in Task, j # i PROVE TaskOK(j)'
    <3>1. TaskOK(j) /\ task'[j] = task[j] /\ pool'.live[j] = pool.live[j]
      BY <1>1, <1>3, <2>1 DEF TasksOK
    <3> QED BY <1>3, <1>6, <3>1, TaskKept
  <2>2. TaskOK(i)'
    <3>1. ~(i >= nextDispatch)
      BY <1>2 DEF TaskOK
    <3>2. task'[i].body # Nothing => content[task'[i].body] = i
      BY <1>2 DEF TaskOK
    <3>3. ~Destroyed'
      BY <1>6 DEF Aborted
    <3> QED BY <1>3, <3>1, <3>2, <3>3 DEF TaskOK
  <2> QED BY <2>1, <2>2 DEF TasksOK
<1>8. ChunksOK' /\ LedgerOK'
  <2>1. \A j \in Task : task[j].st = "pushed" => task'[j].st = "pushed" /\ pool'.live[j] = pool.live[j]
    BY <1>3
  <2> QED BY <1>3, <1>6, <2>1, QuietStep
<1>9. RangeOK'
  BY <1>1, <1>3, RangeKept
<1> QED BY <1>3, <1>4, <1>5, <1>7, <1>8, <1>9 DEF StreamIInv

\* The fetch resolved.
LEMMA CompleteKeeps ==
  ASSUME StreamIInv, NEW i \in Task, Complete(i)
  PROVE  StreamIInv'
<1>1. StreamTypeOK /\ PoolOK(pool) /\ TasksOK /\ RangeOK /\ ReadAheadBounded
  BY DEF StreamIInv
<1>2. task[i].st = "decoded" /\ pc = "idle" /\ TaskOK(i)
  BY <1>1 DEF Complete, TasksOK
<1>3. UNCHANGED <<nextDispatch, nextEmit, paused, ended, content, skip, limit, cur, queue, reading, down, closed>>
  BY DEF Complete
<1>4. CASE ~Aborted
  <2>1. /\ task' = [task EXCEPT ![i].st = "buffered", ![i].slot = Nothing] /\ inflight' = inflight - 1 /\ pc' = "flush"
        /\ pool' = IF task[i].slot # Nothing /\ task[i].body = Nothing THEN Release(pool, i) ELSE pool
    BY <1>4 DEF Complete
  <2>2. /\ task' \in [Task -> TaskType] /\ \A j \in Task \ {i} : task'[j] = task[j]
        /\ task'[i].st = "buffered" /\ task'[i].slot = Nothing /\ task'[i].body = task[i].body
    <3>1. task \in [Task -> TaskType] /\ task' = [task EXCEPT ![i].st = "buffered", ![i].slot = Nothing]
      BY <1>1, <2>1, StreamTypes
    <3> QED BY <3>1 DEF TaskType, State
  <2> QED BY <1>2, <1>3, <1>4, <2>1, <2>2, ArrivalKeeps
<1>5. CASE Aborted
  <2>1. /\ task' = [task EXCEPT ![i] = [st |-> "done", slot |-> Nothing, body |-> Nothing]]
        /\ pool' = Release(pool, i) /\ UNCHANGED <<inflight, pc>>
    BY <1>5 DEF Complete
  <2>2. /\ task' \in [Task -> TaskType] /\ task'[i].st = "done" /\ \A j \in Task \ {i} : task'[j] = task[j]
    BY <1>1, <2>1, StreamTypes DEF TaskType, State
  <2>3. PoolOK(pool') /\ Released(pool, pool', {i})
    BY <1>1, <2>1, ReleaseFacts
  <2>4. /\ pool' \in Pool /\ pool'.live[i] = Nothing /\ \A j \in Task \ {i} : pool'.live[j] = pool.live[j]
        /\ pool'.destroyed = pool.destroyed
    BY <2>3 DEF PoolOK, Released
  <2>5. StreamTypeOK'
    BY <1>1, <1>3, <2>1, <2>2, <2>4 DEF StreamTypeOK, TaskType, Total
  <2>6. Aborted' = Aborted /\ Destroyed' = Destroyed
    BY <1>3, <2>3 DEF Aborted, Destroyed, Released
  <2>7. TasksOK'
    <3>1. ASSUME NEW j \in Task, j # i PROVE TaskOK(j)'
      <4>1. TaskOK(j) /\ task'[j] = task[j] /\ pool'.live[j] = pool.live[j]
        BY <1>1, <2>2, <2>4, <3>1 DEF TasksOK
      <4> QED BY <1>3, <2>4, <2>6, <4>1, TaskKept
    <3>2. TaskOK(i)'
      <4>1. ~(i >= nextDispatch) /\ nextDispatch' = nextDispatch
        BY <1>2, <1>3 DEF TaskOK
      <4>2. task'[i].st = "done" /\ pool'.live[i] = Nothing
        BY <2>2, <2>4
      <4> QED BY <4>1, <4>2 DEF TaskOK
    <3> QED BY <3>1, <3>2 DEF TasksOK
  <2>8. ChunksOK' /\ LedgerOK'
    <3>1. \A j \in Task : task[j].st = "pushed" => task'[j].st = "pushed" /\ pool'.live[j] = pool.live[j]
      BY <1>2, <2>2, <2>4
    <3> QED BY <1>3, <2>1, <2>3, <2>6, <3>1, QuietStep DEF Released
  <2>9. RangeOK'
    BY <1>1, <1>3, <2>1, <2>3, RangeKept DEF Released
  <2>10. ReadAheadBounded'
    BY <1>1, <1>5, <2>6, AheadKept
  <2> QED BY <2>3, <2>5, <2>7, <2>8, <2>9, <2>10 DEF StreamIInv
<1> QED BY <1>4, <1>5

\* A hole is padded.
LEMMA PadKeeps ==
  ASSUME StreamIInv, NEW i \in Task, Pad(i)
  PROVE  StreamIInv'
<1>1. /\ task' = [task EXCEPT ![i] = [st |-> "buffered", slot |-> Nothing, body |-> Nothing]]
      /\ task[i].st = "wire" /\ pc = "idle" /\ ~Aborted
      /\ pool' = Release(pool, i) /\ inflight' = inflight - 1 /\ pc' = "flush"
      /\ UNCHANGED <<nextDispatch, nextEmit, paused, ended, content, skip, limit, cur, queue, reading, down, closed>>
  BY DEF Pad
<1>2. /\ task' \in [Task -> TaskType] /\ \A j \in Task \ {i} : task'[j] = task[j]
      /\ task'[i].st = "buffered" /\ task'[i].slot = Nothing /\ task'[i].body = Nothing
  BY <1>1, StreamTypes DEF TaskType, State, StreamIInv
<1> QED BY <1>1, <1>2, ArrivalKeeps

\* A task that dispatch starts, or a known hole it fills: the read-ahead was
\* within the budget before it.
LEMMA StartedAhead ==
  ASSUME StreamTypeOK, ReadAheadBounded, ~Aborted, NEW i \in Task, task[i].st = "todo", UnderBudget,
         inflight < MaxConcurrency,
         \A j \in Task \ {i} : task'[j].st = task[j].st,
         \/ task'[i].st = "buffered" /\ inflight' = inflight
         \/ task'[i].st = "wire" /\ inflight' = inflight + 1
  PROVE  ReadAheadBounded'
<1> DEFINE F == In("wire") \union In("decoded")
           B == In("buffered")
<1>1. \A x : In(x)' = (In(x) \ {i}) \union (IF task'[i].st = x THEN {i} ELSE {})
  BY OneMoves
<1>2. i \notin In("wire") /\ i \notin In("decoded") /\ i \notin B
  BY DEF In
<1>3. /\ inflight \in Nat /\ IsFiniteSet(F) /\ IsFiniteSet(B) /\ \A j \in B : j \in Task
      /\ ReadAhead = BufferedBytes + inflight * TaskBytes /\ BufferedBytes \in Nat
  BY AheadFacts, FS_Union
<1>4. inflight = Cardinality(F)
  BY DEF ReadAheadBounded
<1>5. ReadAhead < MaxConcurrency * TaskBytes + MaxBufferedBytes
  <2>1. ReadAhead < Budget
    BY DEF UnderBudget
  <2>2. MaxConcurrency * TaskBytes \in Nat /\ FloorTasks * TaskBytes \in Nat /\ MaxBufferedBytes \in Nat
    BY StreamConstants
  <2>3. pool.pushed \in Nat
    BY DEF StreamTypeOK, Pool
  <2> DEFINE full == MaxConcurrency * TaskBytes + MaxBufferedBytes
             some == Larger(FloorTasks * TaskBytes, pool.pushed)
  <2>4. full \in Nat /\ some \in Nat /\ Budget = Smaller(full, some)
    BY <2>2, <2>3 DEF Budget, Larger
  <2>5. ReadAhead \in Int
    BY <1>3, StreamConstants
  <2> HIDE DEF full, some
  <2>6. Budget <= full /\ Budget \in Nat
    BY <2>4 DEF Smaller
  <2>7. ReadAhead < full
    BY <2>1, <2>4, <2>5, <2>6
  <2> QED BY <2>7 DEF full
<1>6. /\ BufferedBytes = SumOf(Length, B) /\ BufferedBytes' = SumOf(Length, B')
      /\ CouldHold' = BufferedBytes' + inflight' * Longest
  BY BufferedSum DEF CouldHold
<1>7. /\ Longest \in Nat /\ TaskBytes \in Nat /\ Longest >= TaskBytes /\ inflight * Longest \in Nat
      /\ Length[i] \in Nat /\ Length[i] <= Longest
  BY <1>3, StreamConstants
<1> DEFINE full == MaxConcurrency * Longest + MaxBufferedBytes
           load == inflight * Longest
<1>0. full \in Nat /\ load \in Nat /\ BufferedBytes + load + Longest < full + TaskBytes
  <2>1. PICK x \in Nat : Longest = TaskBytes + x
    <3>1. Longest - TaskBytes \in Nat /\ Longest = TaskBytes + (Longest - TaskBytes)
      BY <1>7
    <3> QED BY <3>1
  <2>2. inflight + 1 <= MaxConcurrency /\ MaxConcurrency \in Nat
    BY <1>3, StreamConstants
  <2>3. PICK y \in Nat : MaxConcurrency = inflight + 1 + y
    <3>1. MaxConcurrency - (inflight + 1) \in Nat /\ MaxConcurrency = inflight + 1 + (MaxConcurrency - (inflight + 1))
      BY <1>3, <2>2
    <3> QED BY <3>1
  <2>4. /\ inflight * Longest = inflight * TaskBytes + inflight * x
        /\ MaxConcurrency * Longest = MaxConcurrency * TaskBytes + (inflight * x + x + y * x)
        /\ inflight * x \in Nat /\ y * x \in Nat /\ inflight * TaskBytes \in Nat /\ MaxConcurrency * TaskBytes \in Nat
    BY <1>3, <1>7, <2>1, <2>3
  <2>5. BufferedBytes + inflight * TaskBytes < MaxConcurrency * TaskBytes + MaxBufferedBytes
    BY <1>3, <1>5
  <2>6. MaxBufferedBytes \in Nat /\ BufferedBytes \in Nat
    BY <1>3, StreamConstants
  <2> QED BY <1>7, <2>1, <2>4, <2>5, <2>6
<1> HIDE DEF full, load
<1>8. CASE task'[i].st = "buffered" /\ inflight' = inflight
  <2>1. F' = F /\ B' = B \union {i}
    BY <1>1, <1>2, <1>8
  <2>2. SumOf(Length, B') = Length[i] + SumOf(Length, B)
    <3>1. IsFiniteSet(B') /\ i \in B' /\ B' \ {i} = B /\ \A j \in B' : Length[j] \in Nat
      <4>1. IsFiniteSet(B) /\ i \notin B
        BY <1>2, <1>3
      <4>2. IsFiniteSet(B')
        <5> HIDE DEF B
        <5> QED BY <2>1, <4>1, FS_AddElement
      <4>3. i \in B' /\ B' \ {i} = B
        BY <2>1, <4>1
      <4>4. B' \subseteq Task
        BY DEF In
      <4>5. \A j \in Task : Length[j] \in Nat
        BY StreamConstants
      <4> HIDE DEF B
      <4> QED BY <4>2, <4>3, <4>4, <4>5
    <3> HIDE DEF B
    <3> QED BY <3>1, SumAdd
  <2>3. CouldHold' < full + TaskBytes
    <3>1. CouldHold' = (Length[i] + BufferedBytes) + load
      BY <1>6, <1>8, <2>2 DEF load
    <3> QED BY <1>0, <1>3, <1>7, <3>1
  <2> QED BY <1>4, <1>8, <2>1, <2>3 DEF ReadAheadBounded, full
<1>9. CASE task'[i].st = "wire" /\ inflight' = inflight + 1
  <2>1. F' = F \union {i} /\ B' = B /\ i \notin F
    <3>1. In("wire")' = In("wire") \union {i} /\ In("decoded")' = In("decoded")
      BY <1>1, <1>2, <1>9
    <3> QED BY <1>1, <1>2, <1>9, <3>1
  <2>2. Cardinality(F') = Cardinality(F) + 1
    <3> HIDE DEF F
    <3> QED BY <1>3, <2>1, FS_AddElement
  <2>3. CouldHold' < full + TaskBytes
    <3>1. inflight' * Longest = load + Longest
      BY <1>3, <1>7, <1>9 DEF load
    <3>2. CouldHold' = BufferedBytes + (load + Longest)
      BY <1>6, <2>1, <3>1
    <3> QED BY <1>0, <1>3, <1>7, <3>2
  <2> QED BY <1>4, <1>9, <2>2, <2>3 DEF ReadAheadBounded, full
<1> QED BY <1>8, <1>9

\* The next task is started, or a known hole filled.
LEMMA StartTaskKeeps ==
  ASSUME StreamIInv, StartTask
  PROVE  StreamIInv'
<1>1. StreamTypeOK /\ PoolOK(pool) /\ TasksOK /\ RangeOK /\ ReadAheadBounded
  BY DEF StreamIInv
<1>2. /\ pc = "dispatch" /\ ~Aborted /\ inflight < MaxConcurrency /\ nextDispatch < Total /\ UnderBudget
      /\ nextDispatch' = nextDispatch + 1
      /\ UNCHANGED <<nextEmit, paused, ended, pool, content, skip, limit, cur, queue, reading, down, closed>>
  BY DEF StartTask, Dispatches
<1>3. PICK i \in Task : i = nextDispatch /\ nextDispatch \in Nat
  BY <1>1, <1>2, StreamConstants DEF StreamTypeOK
<1>4. PICK st \in {"buffered", "wire"} : /\ task' = [task EXCEPT ![i].st = st]
                                         /\ st = "buffered" => pc' = "flush" /\ inflight' = inflight
                                         /\ st = "wire" => pc' = pc /\ inflight' = inflight + 1
  <2>1. \/ task' = [task EXCEPT ![i].st = "buffered"] /\ pc' = "flush" /\ inflight' = inflight
        \/ task' = [task EXCEPT ![i].st = "wire"] /\ inflight' = inflight + 1 /\ pc' = pc
    BY <1>3 DEF StartTask, Become
  <2> QED BY <2>1
<1>5. /\ TaskOK(i) /\ task[i].st = "todo"
      /\ task[i].slot = Nothing /\ task[i].body = Nothing /\ pool.live[i] = Nothing
  <2>1. TaskOK(i) /\ i >= nextDispatch
    BY <1>1, <1>3 DEF TasksOK
  <2> QED BY <2>1 DEF TaskOK
<1>6. /\ task' \in [Task -> TaskType] /\ task'[i].st = st /\ task'[i].slot = Nothing /\ task'[i].body = Nothing
      /\ \A j \in Task \ {i} : task'[j] = task[j]
  <2>1. task \in [Task -> TaskType]
    BY <1>1, StreamTypes
  <2>2. PICK t : t = [task[i] EXCEPT !.st = st]
    OBVIOUS
  <2>3. st \in State /\ task[i] \in TaskType
    BY <2>1 DEF State
  <2>4. t \in TaskType /\ t.st = st /\ t.slot = Nothing /\ t.body = Nothing
    BY <1>5, <2>2, <2>3 DEF TaskType
  <2>5. task' = [task EXCEPT ![i] = t]
    BY <1>4, <2>2
  <2> QED BY <2>1, <2>4, <2>5
<1>7. StreamTypeOK'
  <2>1. inflight' \in 0..MaxConcurrency /\ nextDispatch' \in 0..Total
    <3>1. inflight \in 0..MaxConcurrency /\ nextDispatch \in 0..Total
      BY <1>1 DEF StreamTypeOK
    <3>2. inflight' \in {inflight, inflight + 1} /\ inflight < MaxConcurrency
      BY <1>2, <1>4
    <3>3. MaxConcurrency \in Nat /\ Total \in Nat /\ nextDispatch < Total /\ nextDispatch' = nextDispatch + 1
      BY <1>2, StreamConstants
    <3>4. inflight' \in 0..MaxConcurrency
      BY <3>1, <3>2, <3>3
    <3>5. nextDispatch' \in 0..Total
      BY <3>1, <3>3
    <3> QED BY <3>4, <3>5
  <2>2. pc' \in {"flush", "dispatch"}
    BY <1>2, <1>4
  <2> QED BY <1>1, <1>2, <1>6, <2>1, <2>2 DEF StreamTypeOK, TaskType, Total
<1>8. Aborted' = Aborted /\ Destroyed' = Destroyed
  BY <1>2 DEF Aborted, Destroyed
<1>9. TasksOK'
  <2>1. ASSUME NEW j \in Task, j # i PROVE TaskOK(j)'
    <3>1. TaskOK(j) /\ task'[j] = task[j]
      BY <1>1, <1>6, <2>1 DEF TasksOK
    <3>2. j >= nextDispatch' => j >= nextDispatch
      BY <1>2, <1>3, StreamConstants
    <3> QED BY <1>2, <1>8, <3>1, <3>2, TaskKept
  <2>2. TaskOK(i)'
    <3>1. ~(i >= nextDispatch')
      BY <1>2, <1>3
    <3>2. ~Destroyed'
      BY <1>2, <1>8 DEF Aborted
    <3> QED BY <1>2, <1>4, <1>5, <1>6, <3>1, <3>2 DEF TaskOK
  <2> QED BY <2>1, <2>2 DEF TasksOK
<1>10. ChunksOK' /\ LedgerOK'
  <2>1. \A j \in Task : task[j].st = "pushed" => task'[j].st = "pushed"
    BY <1>5, <1>6
  <2>2. (pc' = "record") = (pc = "record")
    BY <1>2, <1>4
  <2> QED BY <1>2, <1>8, <2>1, <2>2, QuietStep
<1>11. RangeOK'
  <2>1. (pc' = "record") = (pc = "record")
    BY <1>2, <1>4
  <2> QED BY <1>1, <1>2, <2>1, RangeKept
<1>12. ReadAheadBounded'
  <2>1. \/ task'[i].st = "buffered" /\ inflight' = inflight
        \/ task'[i].st = "wire" /\ inflight' = inflight + 1
    BY <1>4, <1>6
  <2>2. \A j \in Task \ {i} : task'[j].st = task[j].st
    BY <1>6
  <2> QED BY <1>1, <1>2, <1>3, <1>5, <2>1, <2>2, StartedAhead
<1> QED BY <1>1, <1>2, <1>7, <1>9, <1>10, <1>11, <1>12 DEF StreamIInv

\* Chunks move on; nothing else does.
LEMMA FlowKeeps ==
  ASSUME StreamIInv, queue' \in Seq(Chunk), down' \in Seq(Chunk), Len(down') <= Layers, Chunks' \subseteq Chunks,
         LedgerOK',
         UNCHANGED <<task, nextDispatch, nextEmit, inflight, paused, ended, pool, content, skip, limit, pc, cur,
                     reading, closed>>
  PROVE  StreamIInv'
<1>1. StreamTypeOK /\ PoolOK(pool) /\ TasksOK /\ ChunksOK /\ RangeOK /\ ReadAheadBounded
  BY DEF StreamIInv
<1>2. StreamTypeOK'
  BY <1>1 DEF StreamTypeOK, Total
<1>3. Aborted' = Aborted
  BY DEF Aborted, Destroyed
<1>4. TasksOK'
  <2>1. ASSUME NEW j \in Task PROVE TaskOK(j)'
    BY <1>1, <1>3, TaskKept DEF TasksOK
  <2> QED BY <2>1 DEF TasksOK
<1>5. ChunksOK'
  <2>1. pool.maxSlot \in Nat /\ (\A k \in DOMAIN pool.fifo : pool.fifo[k].idx \in Task)
    BY <1>1, StreamTypes
  <2>2. \A c \in Chunks' : c.idx \in Task
    BY <1>1, StreamTypes
  <2>3. pool'.maxSlot >= pool.maxSlot
    BY <2>1
  <2> QED BY <1>1, <2>1, <2>2, <2>3, ChunksKept
<1>6. RangeOK'
  BY <1>1, RangeKept
<1>7. ReadAheadBounded'
  <2>1. \A x : In(x)' = In(x)
    BY DEF In
  <2> QED BY <1>1, <1>3, <2>1, AheadKept
<1> QED BY <1>1, <1>2, <1>4, <1>5, <1>6, <1>7 DEF StreamIInv

\* What a line is without its first chunk.
LEMMA ChunkTailFacts ==
  ASSUME NEW S, NEW q \in Seq(S), q # <<>>
  PROVE  /\ Tail(q) \in Seq(S) /\ Len(Tail(q)) = Len(q) - 1 /\ Len(q) \in Nat \ {0}
         /\ \A k \in 1..(Len(q) - 1) : Tail(q)[k] = q[k + 1]
         /\ Range(Tail(q)) \subseteq Range(q) /\ Head(q) \in S /\ Head(q) \in Range(q)
<1>1. /\ Tail(q) \in Seq(S) /\ Len(Tail(q)) = Len(q) - 1 /\ Len(q) \in Nat \ {0} /\ DOMAIN Tail(q) = 1..(Len(q) - 1)
      /\ \A k \in 1..(Len(q) - 1) : Tail(q)[k] = q[k + 1] /\ k + 1 \in DOMAIN q
      /\ Head(q) = q[1] /\ 1 \in DOMAIN q /\ Head(q) \in S
  OBVIOUS
<1>2. Range(Tail(q)) \subseteq Range(q) /\ Head(q) \in Range(q)
  BY <1>1, RangeMembers
<1> QED BY <1>1, <1>2

\* A chunk is handed to the layers below.
LEMMA DeliverKeeps ==
  ASSUME StreamIInv, Deliver
  PROVE  StreamIInv'
<1>1. StreamTypeOK /\ PoolOK(pool) /\ LedgerOK
  BY DEF StreamIInv
<1>2. /\ queue # <<>> /\ Len(down) < Layers /\ down' = Append(down, Head(queue)) /\ queue' = Tail(queue)
      /\ UNCHANGED <<task, nextDispatch, nextEmit, inflight, paused, ended, pool, content, skip, limit, pc, cur,
                     reading, closed>>
  BY DEF Deliver
<1> DEFINE E == Chunk
<1>3. queue \in Seq(E) /\ down \in Seq(E)
  BY <1>1, StreamTypes
<1> HIDE DEF E
<1>4. /\ queue' \in Seq(E) /\ Head(queue) \in E /\ Head(queue) \in Range(queue) /\ Range(queue') \subseteq Range(queue)
  BY <1>2, <1>3, ChunkTailFacts
<1>5. /\ down' \in Seq(E) /\ Len(down') = Len(down) + 1 /\ Len(down) \in Nat
      /\ Range(down') = Range(down) \union {Head(queue)}
  BY <1>2, <1>3, <1>4, AppendFacts
<1>6. Line' = Line
  BY <1>2, <1>3, LineFacts DEF Line
<1>7. Chunks' \subseteq Chunks
  BY <1>4, <1>5 DEF Chunks
<1>8. Len(down') <= Layers
  BY <1>2, <1>5, StreamConstants
<1>9. LedgerOK'
  <2>1. \A k \in DOMAIN pool'.fifo : \E j \in DOMAIN pool.fifo : pool'.fifo[k] = pool.fifo[j]
    BY <1>2
  <2> QED BY <1>1, <1>2, <1>6, <2>1, LedgerKept DEF Destroyed
<1> QED BY <1>2, <1>4, <1>5, <1>7, <1>8, <1>9, FlowKeeps DEF E

\* The consumer takes the oldest chunk.
LEMMA ConsumeKeeps ==
  ASSUME StreamIInv, Consume
  PROVE  StreamIInv'
<1>1. StreamTypeOK /\ PoolOK(pool) /\ LedgerOK /\ ChunksOK
  BY DEF StreamIInv
<1>2. /\ down # <<>> /\ down' = Tail(down) /\ queue' = queue
      /\ UNCHANGED <<task, nextDispatch, nextEmit, inflight, paused, ended, pool, content, skip, limit, pc, cur,
                     reading, closed>>
  BY DEF Consume
<1> DEFINE E == Chunk
<1>3. queue \in Seq(E) /\ down \in Seq(E) /\ Line \in Seq(E)
  BY <1>1, StreamTypes
<1> HIDE DEF E
<1>4. /\ down' \in Seq(E) /\ Len(down') = Len(down) - 1 /\ Len(down) \in Nat /\ Range(down') \subseteq Range(down)
  BY <1>2, <1>3, ChunkTailFacts
<1>5. Line' = Tail(Line) /\ Line # <<>>
  <2>1. Line' = Tail(Line)
    BY <1>2, <1>3, LineFacts DEF Line
  <2>2. Line # <<>>
    BY <1>2, <1>3 DEF Line
  <2> QED BY <2>1, <2>2
<1>6. Chunks' \subseteq Chunks
  BY <1>2, <1>4 DEF Chunks
<1>7. Len(down') <= Layers
  BY <1>1, <1>4, StreamConstants DEF ChunksOK
<1>8. LedgerOK'
  <2> SUFFICES ASSUME ~Destroyed' PROVE (\E e : Ends(e))'
    BY DEF LedgerOK
  <2>1. PICK e : Ends(e)
    BY <1>1, <1>2 DEF LedgerOK, Destroyed
  <2>2. /\ Len(Line') = Len(Line) - 1 /\ Len(Line) \in Nat \ {0}
        /\ \A k \in 1..(Len(Line) - 1) : Line'[k] = Line[k + 1]
    BY <1>3, <1>5, ChunkTailFacts
  <2>0. PICK f : f = [k \in 0..Len(Line') |-> e[k + 1]]
    OBVIOUS
  <2>3. \A k \in 0..Len(Line') : f[k] = e[k + 1] /\ k + 1 \in 0..Len(Line) /\ k + 1 \in 1..Len(Line)
    BY <2>0, <2>2
  <2>4. Pushed' = Pushed
    BY <1>2 DEF Pushed
  <2>5. (\A k \in 0..Len(Line') : f[k] \in Int) /\ f[Len(Line')] = Pushed'
    <3>1. (\A k \in 0..Len(Line) : e[k] \in Int) /\ e[Len(Line)] = Pushed
      BY <2>1 DEF Ends
    <3>2. Len(Line') \in 0..Len(Line') /\ Len(Line') + 1 = Len(Line)
      BY <2>2
    <3>3. f[Len(Line')] = e[Len(Line)]
      BY <2>3, <3>2
    <3> QED BY <2>3, <2>4, <3>1, <3>3
  <2>6. ASSUME NEW k \in 1..Len(Line')
        PROVE  /\ f[k] = f[k - 1] + Line'[k].len
               /\ \A j \in DOMAIN pool'.fifo : pool'.fifo[j].idx = Line'[k].idx => pool'.fifo[j].end = f[k]
               /\ pc' = "record" /\ Line'[k].idx = cur'.idx => f[k] = Pushed'
    <3>1. /\ k \in 0..Len(Line') /\ k - 1 \in 0..Len(Line') /\ (k - 1) + 1 = k /\ (k + 1) - 1 = k
          /\ k + 1 \in 1..Len(Line) /\ k \in 1..(Len(Line) - 1)
      BY <2>2
    <3>2. f[k] = e[k + 1] /\ f[k - 1] = e[k] /\ Line'[k] = Line[k + 1]
      <4>1. f[k - 1] = e[(k - 1) + 1]
        BY <2>3, <3>1
      <4> QED BY <2>2, <2>3, <3>1, <4>1
    <3>3. /\ e[k + 1] = e[(k + 1) - 1] + Line[k + 1].len
          /\ \A j \in DOMAIN pool.fifo : pool.fifo[j].idx = Line[k + 1].idx => pool.fifo[j].end = e[k + 1]
          /\ pc = "record" /\ Line[k + 1].idx = cur.idx => e[k + 1] = Pushed
      BY <2>1, <3>1, Zenon DEF Ends
    <3>4. e[(k + 1) - 1] = e[k]
      BY <3>1
    <3> QED BY <1>2, <2>4, <3>2, <3>3, <3>4
  <2>7. Ends(f)'
    BY <2>5, <2>6 DEF Ends
  <2> QED BY <2>7
<1> QED BY <1>2, <1>3, <1>4, <1>6, <1>7, <1>8, FlowKeeps DEF E

--------------------------------------------------------------------------------
(* What reclaim may take *)

\* Fewer pieces, each no longer.
LEMMA ProductLess ==
  ASSUME NEW a \in Nat, NEW L \in Nat, NEW b \in Nat, NEW M \in Nat, a < L, b >= 1, b <= M
  PROVE  a * b < L * M
<1>1. (a + 1) * b <= L * b
  <2>1. L * b = (a + 1) * b + (L - (a + 1)) * b /\ (L - (a + 1)) \in Nat
    OBVIOUS
  <2>2. (L - (a + 1)) * b \in Nat
    BY <2>1
  <2>3. L * b \in Nat /\ (a + 1) * b \in Nat
    OBVIOUS
  <2> QED BY <2>1, <2>2, <2>3
<1>2. L * b <= L * M
  <2>1. L * M = L * b + L * (M - b) /\ M - b \in Nat
    OBVIOUS
  <2>2. L * (M - b) \in Nat
    BY <2>1
  <2>3. L * b \in Nat /\ L * M \in Nat
    OBVIOUS
  <2> QED BY <2>1, <2>2, <2>3
<1>3. (a + 1) * b = a * b + b
  OBVIOUS
<1>4. a * b \in Nat /\ L * b \in Nat /\ L * M \in Nat
  OBVIOUS
<1> QED BY <1>1, <1>2, <1>3, <1>4

\* A chunk nobody is known to have read ends later than any the reclaim takes.
LEMMA Unread ==
  ASSUME StreamIInv, ~Destroyed, pc # "record"
  PROVE  /\ QueuedBytes \in Int
         /\ \A k \in DOMAIN pool.fifo :
              pool.fifo[k].end <= pool.pushed - QueuedBytes - Layers * pool.maxSlot
                => \A c \in Chunks : c.idx # pool.fifo[k].idx
<1> DEFINE E == Chunk
           D == Len(down)
           R == Len(queue)
           N == Len(Line)
<1>1. StreamTypeOK /\ PoolOK(pool) /\ LedgerOK /\ ChunksOK
  BY DEF StreamIInv
<1>2. PICK e : Ends(e)
  BY <1>1 DEF LedgerOK
<1>3. /\ \A k \in 0..N : e[k] \in Int
      /\ e[N] = pool.pushed
      /\ \A k \in 1..N : e[k] = e[k - 1] + Line[k].len
      /\ \A k \in 1..N : \A j \in DOMAIN pool.fifo : pool.fifo[j].idx = Line[k].idx => pool.fifo[j].end = e[k]
  <2>1. Pushed = pool.pushed
    BY <1>1, StreamTypes DEF Pushed
  <2> QED BY <1>2, <2>1 DEF Ends
<1>4. queue \in Seq(E) /\ down \in Seq(E) /\ Line \in Seq(E) /\ Range(Line) = Chunks
  BY <1>1, StreamTypes
<1> HIDE DEF E
<1>5. /\ D \in Nat /\ R \in Nat /\ N = D + R /\ DOMAIN Line = 1..N
      /\ \A k \in 1..R : Line[D + k] = queue[k]
  BY <1>4 DEF Line
<1>6. \A k \in 1..N : Line[k] \in Chunks
  BY <1>4, <1>5, RangeMembers
<1>7. \A k \in 1..N : Line[k].len \in 1..MaxLength
  BY <1>1, <1>6 DEF ChunksOK, ChunkOK
<1> HIDE DEF D, R, N
<1>8. QueuedBytes = pool.pushed - e[D]
  <2>0. PICK f : f = [k \in 0..R |-> e[D + k]]
    OBVIOUS
  <2>1. \A k \in 0..R : f[k] = e[D + k] /\ D + k \in 0..N
    BY <1>5, <2>0
  <2>2. \A k \in 0..R : f[k] \in Int
    BY <1>3, <2>1
  <2>3. ASSUME NEW k \in 1..R PROVE f[k] = f[k - 1] + queue[k].len
    <3>1. k \in 0..R /\ k - 1 \in 0..R /\ D + k \in 1..N /\ D + (k - 1) = (D + k) - 1
      BY <1>5
    <3>2. e[D + k] = e[(D + k) - 1] + Line[D + k].len
      BY <1>3, <3>1
    <3>3. f[k] = e[D + k] /\ f[k - 1] = e[D + (k - 1)]
      BY <2>1, <3>1
    <3> QED BY <1>5, <3>1, <3>2, <3>3
  <2>4. f[R] = pool.pushed /\ f[0] = e[D]
    <3>1. R \in 0..R /\ 0 \in 0..R /\ D + R = N /\ D + 0 = D
      BY <1>5
    <3> QED BY <1>3, <2>1, <3>1
  <2>5. BytesOf(queue) = f[R] - f[0]
    BY <1>4, <2>2, <2>3, BytesBetween DEF E, R
  <2> QED BY <2>4, <2>5 DEF QueuedBytes
<1>9. e[D] \in Int /\ pool.pushed \in Int /\ pool.maxSlot \in Nat /\ pool.maxSlot >= MaxLength /\ D <= Layers
  <2>1. D \in 0..N
    BY <1>5
  <2> QED BY <1>1, <1>3, <2>1, StreamTypes DEF ChunksOK, D
<1>10. pool.pushed - QueuedBytes - Layers * pool.maxSlot = e[D] - Layers * pool.maxSlot
       /\ Layers * pool.maxSlot \in Nat
  <2>1. Layers * pool.maxSlot \in Nat
    BY <1>9, StreamConstants
  <2> QED BY <1>8, <1>9, <2>1
<1>11. ASSUME NEW k \in 1..N PROVE e[k] > e[D] - Layers * pool.maxSlot
  <2>1. CASE k <= D
    <3>1. \A n \in 0..D : e[n] \in Int
      BY <1>3, <1>5
    <3>2. \A n \in 1..D : e[n] <= e[n - 1] + MaxLength
      <4> SUFFICES ASSUME NEW n \in 1..D PROVE e[n] <= e[n - 1] + MaxLength
        OBVIOUS
      <4>1. n \in 1..N /\ n - 1 \in 0..D
        BY <1>5
      <4>2. e[n] = e[n - 1] + Line[n].len /\ Line[n].len \in 1..MaxLength /\ e[n - 1] \in Int
        BY <1>3, <1>7, <3>1, <4>1
      <4> QED BY <4>2, StreamConstants
    <3>3. e[D] <= e[k] + (D - k) * MaxLength
      <4>1. \A n \in 0..D : e[D] <= e[n] + (D - n) * MaxLength
        <5>1. MaxLength \in Nat
          BY StreamConstants
        <5> QED BY <1>5, <3>1, <3>2, <5>1, StepsShort
      <4>2. k \in 0..D
        BY <2>1, <1>5
      <4> QED BY <4>1, <4>2
    <3>4. (D - k) * MaxLength < Layers * pool.maxSlot
      <4>1. D - k \in Nat /\ D - k < Layers
        BY <1>5, <1>9, <2>1, StreamConstants
      <4> QED BY <1>9, <4>1, StreamConstants, ProductLess
    <3>5. (D - k) * MaxLength \in Int /\ e[k] \in Int
      <4>1. k \in 0..D
        BY <2>1, <1>5
      <4> QED BY <1>5, <3>1, <4>1, StreamConstants
    <3> QED BY <1>9, <1>10, <3>3, <3>4, <3>5
  <2>2. CASE ~(k <= D)
    <3>1. \A n \in 1..N : e[n - 1] < e[n]
      <4> SUFFICES ASSUME NEW n \in 1..N PROVE e[n - 1] < e[n]
        OBVIOUS
      <4>1. n - 1 \in 0..N
        BY <1>5
      <4>2. e[n] = e[n - 1] + Line[n].len /\ Line[n].len \in 1..MaxLength /\ e[n - 1] \in Int
        BY <1>3, <1>7, <4>1
      <4> QED BY <4>2, StreamConstants
    <3>2. k \in (D + 1)..N /\ k \in 0..N /\ N \in Nat
      BY <1>5, <2>2
    <3>3. \A n \in (D + 1)..N : e[D] < e[n]
      BY <1>3, <1>5, <3>1, <3>2, StepsUp
    <3>4. e[D] < e[k] /\ e[k] \in Int
      BY <1>3, <3>2, <3>3
    <3> QED BY <1>9, <1>10, <3>4
  <2> QED BY <2>1, <2>2
<1>12. ASSUME NEW j \in DOMAIN pool.fifo, NEW c \in Chunks, c.idx = pool.fifo[j].idx,
              pool.fifo[j].end <= pool.pushed - QueuedBytes - Layers * pool.maxSlot
       PROVE  FALSE
  <2>1. PICK k \in 1..N : Line[k] = c
    BY <1>4, <1>5, RangeMembers
  <2>2. pool.fifo[j].end = e[k]
    BY <1>3, <1>12, <2>1
  <2>3. e[k] > e[D] - Layers * pool.maxSlot /\ e[k] \in Int
    <3>1. k \in 0..N
      BY <1>5
    <3> QED BY <1>3, <1>11, <3>1
  <2> QED BY <1>9, <1>10, <1>12, <2>2, <2>3
<1>13. QueuedBytes \in Int
  BY <1>8, <1>9
<1> QED BY <1>12, <1>13

\* So what reclaim gives back belongs to chunks that were pushed and read.
LEMMA ReclaimedUnread ==
  ASSUME StreamIInv, ~Destroyed, pc # "record"
  PROVE  LET q == Reclaim(pool, QueuedBytes)
         IN  /\ QueuedBytes \in Int /\ PoolOK(q) /\ Reclaims(pool, q, QueuedBytes)
             /\ \A c \in Chunks : q.live[c.idx] = pool.live[c.idx]
             /\ \A i \in Task : q.live[i] = pool.live[i] \/ (q.live[i] = Nothing /\ task[i].st = "pushed")
<1> DEFINE q == Reclaim(pool, QueuedBytes)
<1>1. StreamTypeOK /\ PoolOK(pool) /\ ChunksOK
  BY DEF StreamIInv
<1>2. QueuedBytes \in Int /\ PoolOK(q) /\ Reclaims(pool, q, QueuedBytes)
  BY <1>1, Unread, ReclaimFacts
<1> HIDE DEF q
<1>3. ASSUME NEW c \in Chunks PROVE q.live[c.idx] = pool.live[c.idx]
  <2>1. c.idx \in Task
    BY <1>1, StreamTypes
  <2> QED BY <1>2, <2>1, Unread DEF Reclaims
<1>4. \A i \in Task : q.live[i] = pool.live[i] \/ (q.live[i] = Nothing /\ task[i].st = "pushed")
  BY <1>1, <1>2 DEF Reclaims, ChunksOK
<1> QED BY <1>2, <1>3, <1>4 DEF q

\* _read lifts the back-pressure and reclaims.
LEMMA ReadKeeps ==
  ASSUME StreamIInv, Read
  PROVE  StreamIInv' /\ content' = content
<1>1. StreamTypeOK /\ PoolOK(pool) /\ TasksOK /\ ChunksOK /\ LedgerOK /\ RangeOK /\ ReadAheadBounded
  BY DEF StreamIInv
<1>2. /\ pc = "idle" /\ ~Aborted /\ pool' = Reclaim(pool, QueuedBytes) /\ pc' = "flush" /\ paused' = FALSE
      /\ reading' = TRUE
      /\ UNCHANGED <<task, nextDispatch, nextEmit, inflight, ended, content, skip, limit, cur, queue, down, closed>>
  BY DEF Read, Resumed
<1>3. /\ PoolOK(pool') /\ pool' \in Pool
      /\ pool'.pushed = pool.pushed /\ pool'.maxSlot = pool.maxSlot /\ pool'.destroyed = pool.destroyed
      /\ \A k \in DOMAIN pool'.fifo : \E j \in DOMAIN pool.fifo : pool'.fifo[k] = pool.fifo[j]
      /\ \A c \in Chunks : pool'.live[c.idx] = pool.live[c.idx]
      /\ \A i \in Task : pool'.live[i] = pool.live[i] \/ (pool'.live[i] = Nothing /\ task[i].st = "pushed")
  <2>1. ~Destroyed /\ pc # "record"
    BY <1>2 DEF Aborted
  <2> QED BY <1>2, <2>1, ReclaimedUnread DEF Reclaims, PoolOK
<1>4. StreamTypeOK'
  BY <1>1, <1>2, <1>3 DEF StreamTypeOK, Total
<1>5. Aborted' = Aborted /\ Destroyed' = Destroyed
  BY <1>2, <1>3 DEF Aborted, Destroyed
<1>6. TasksOK'
  <2>1. ASSUME NEW j \in Task PROVE TaskOK(j)'
    <3>1. TaskOK(j)
      BY <1>1 DEF TasksOK
    <3>2. pool'.live[j] = pool.live[j] \/ (pool'.live[j] = Nothing /\ task[j].st = "pushed")
      BY <1>3
    <3> QED BY <1>2, <1>3, <1>5, <3>1, <3>2, TaskKept
  <2> QED BY <2>1 DEF TasksOK
<1>7. Chunks' = Chunks /\ Line' = Line /\ (pc' = "record") = (pc = "record")
  BY <1>2 DEF Chunks, Line
<1>8. ChunksOK'
  <2>1. /\ pool.maxSlot \in Nat /\ (\A k \in DOMAIN pool.fifo : pool.fifo[k].idx \in Task)
        /\ \A c \in Chunks : c.idx \in Task
    BY <1>1, StreamTypes
  <2>2. Len(down') <= Layers /\ pool'.maxSlot >= pool.maxSlot /\ pool'.maxSlot \in Nat
    BY <1>1, <1>2, <1>3, <2>1 DEF ChunksOK
  <2>3. \A c \in Chunks' : c.idx \in Task /\ pool'.live[c.idx] = pool.live[c.idx]
    BY <1>3, <1>7, <2>1
  <2> QED BY <1>1, <1>2, <1>3, <1>7, <2>1, <2>2, <2>3, ChunksKept
<1>9. LedgerOK'
  BY <1>1, <1>2, <1>3, <1>5, <1>7, LedgerKept
<1>10. RangeOK'
  BY <1>1, <1>2, <1>3, <1>7, RangeKept
<1>11. ReadAheadBounded'
  <2>1. \A x : In(x)' = In(x)
    BY <1>2 DEF In
  <2> QED BY <1>1, <1>2, <1>5, <2>1, AheadKept
<1> QED BY <1>2, <1>3, <1>4, <1>6, <1>8, <1>9, <1>10, <1>11 DEF StreamIInv

\* What decoding does to the pool: the task has its slot, nothing that is read
\* has been given back.
LEMMA DecodeIntoFacts ==
  ASSUME StreamIInv, NEW i \in Task, task[i].st = "wire", ~Aborted, pc = "idle", UNCHANGED restVars,
         NEW bytes, NEW st \in State, DecodeInto(i, bytes, st)
  PROVE  \E s \in Slot \union {Nothing} :
           /\ PoolOK(pool') /\ pool'.live[i] = s
           /\ \A c \in Chunks : pool'.live[c.idx] = pool.live[c.idx]
           /\ \A j \in Task \ {i} : pool'.live[j] = pool.live[j] \/ (pool'.live[j] = Nothing /\ task[j].st = "pushed")
           /\ \A k \in DOMAIN pool'.fifo : \E j \in DOMAIN pool.fifo : pool'.fifo[k] = pool.fifo[j]
           /\ pool'.pushed = pool.pushed /\ pool'.destroyed = pool.destroyed /\ pool'.maxSlot >= pool.maxSlot
           /\ content' = IF s = Nothing THEN content ELSE [content EXCEPT ![s] = bytes]
           /\ task' \in [Task -> TaskType] /\ task'[i].st = st /\ task'[i].slot = s /\ task'[i].body = s
           /\ \A j \in Task \ {i} : task'[j] = task[j]
<1>1. StreamTypeOK /\ PoolOK(pool) /\ TasksOK /\ ChunksOK
  BY DEF StreamIInv
<1>2. /\ task \in [Task -> TaskType] /\ task[i].slot \in Slot \union {Nothing}
      /\ pool.live[i] = task[i].slot
      /\ pool.maxSlot \in Nat /\ pool.live \in [Task -> Slot \union {Nothing}]
  <2>1. TaskOK(i)
    BY <1>1 DEF TasksOK
  <2>2. pool.live[i] = task[i].slot
    BY <2>1 DEF TaskOK
  <2> QED BY <1>1, <2>2, StreamTypes
<1>3. \A c \in Chunks : c.idx \in Task /\ c.idx # i
  BY <1>1, StreamTypes DEF ChunksOK, ChunkOK
<1>4. CASE /\ task[i].slot # Nothing
           /\ content' = [content EXCEPT ![task[i].slot] = bytes]
           /\ task' = [task EXCEPT ![i].st = st, ![i].body = task[i].slot]
           /\ pool' = pool
  <2>1. /\ task' \in [Task -> TaskType] /\ task'[i].st = st /\ task'[i].slot = task[i].slot
        /\ task'[i].body = task[i].slot
        /\ \A j \in Task \ {i} : task'[j] = task[j]
    BY <1>2, <1>4 DEF TaskType
  <2>2. pool.maxSlot >= pool.maxSlot
    BY <1>2
  <2> QED BY <1>1, <1>2, <1>4, <2>1, <2>2
<1>5. CASE /\ task[i].slot = Nothing
           /\ \E r \in Acquire(pool, i, QueuedBytes, Unused) :
                /\ pool' = r.pool
                /\ content' = IF r.slot = Nothing THEN content ELSE [content EXCEPT ![r.slot] = bytes]
                /\ task' = [task EXCEPT ![i] = [st |-> st, slot |-> r.slot, body |-> r.slot]]
  <2>1. PICK r \in Acquire(pool, i, QueuedBytes, Unused) :
               /\ pool' = r.pool
               /\ content' = IF r.slot = Nothing THEN content ELSE [content EXCEPT ![r.slot] = bytes]
               /\ task' = [task EXCEPT ![i] = [st |-> st, slot |-> r.slot, body |-> r.slot]]
    BY <1>5
  <2> DEFINE q == Reclaim(pool, QueuedBytes)
  <2>2. /\ QueuedBytes \in Int /\ PoolOK(q) /\ Reclaims(pool, q, QueuedBytes)
        /\ \A c \in Chunks : q.live[c.idx] = pool.live[c.idx]
        /\ \A j \in Task : q.live[j] = pool.live[j] \/ (q.live[j] = Nothing /\ task[j].st = "pushed")
    <3>1. ~Destroyed /\ pc # "record"
      BY DEF Aborted
    <3> QED BY <3>1, ReclaimedUnread
  <2>3. Unused \in SUBSET Slot /\ Unused \intersect Held(pool) = {}
    BY DEF Unused, Held
  <2>4. Acquires(q, r, i)
    <3>1. ~pool.destroyed /\ pool.live[i] = Nothing
      BY <1>2, <1>5 DEF Aborted, Destroyed
    <3> HIDE DEF Unused, QueuedBytes, Acquires, Acquire
    <3> QED BY <1>1, <2>2, <2>3, <3>1, AcquireFacts
  <2> HIDE DEF q
  <2>5. q.live \in [Task -> Slot \union {Nothing}]
    BY <2>2 DEF PoolOK, Pool
  <2>6. r.pool.live[i] = r.slot /\ \A j \in Task \ {i} : r.pool.live[j] = q.live[j]
    BY <2>4, <2>5 DEF Acquires
  <2>7. \A c \in Chunks : pool'.live[c.idx] = pool.live[c.idx]
    BY <1>3, <2>1, <2>2, <2>6
  <2>8. pool'.maxSlot >= pool.maxSlot
    BY <2>1, <2>2, <2>4 DEF Acquires, Reclaims
  <2>9. \A k \in DOMAIN pool'.fifo : \E j \in DOMAIN pool.fifo : pool'.fifo[k] = pool.fifo[j]
    BY <2>1, <2>2, <2>4 DEF Acquires, Reclaims
  <2>10. /\ PoolOK(pool') /\ r.slot \in Slot \union {Nothing}
         /\ pool'.pushed = pool.pushed /\ pool'.destroyed = pool.destroyed
    BY <2>1, <2>2, <2>4 DEF Acquires, Reclaims
  <2>11. \A j \in Task \ {i} : pool'.live[j] = pool.live[j] \/ (pool'.live[j] = Nothing /\ task[j].st = "pushed")
    BY <2>1, <2>2, <2>6
  <2>12. /\ task' \in [Task -> TaskType] /\ task'[i].st = st /\ task'[i].slot = r.slot /\ task'[i].body = r.slot
         /\ \A j \in Task \ {i} : task'[j] = task[j]
    BY <1>2, <2>1, <2>10 DEF TaskType
  <2> QED BY <2>1, <2>6, <2>7, <2>8, <2>9, <2>10, <2>11, <2>12
<1> QED BY <1>4, <1>5 DEF DecodeInto

\* Bytes are decoded, whole or corrupt: into a slot that is the task's alone.
LEMMA DecodeKeeps ==
  ASSUME StreamIInv, NEW i \in Task, task[i].st = "wire", ~Aborted, pc = "idle", UNCHANGED restVars,
         NEW bytes \in Task \union {Nothing}, NEW st \in {"wire", "decoded"}, st = "decoded" => bytes = i,
         DecodeInto(i, bytes, st)
  PROVE  StreamIInv' /\ \A s \in Slot : content'[s] = content[s] \/ s \in LiveSlots(pool')
<1>1. StreamTypeOK /\ PoolOK(pool) /\ TasksOK /\ ChunksOK /\ LedgerOK /\ RangeOK /\ ReadAheadBounded
  BY DEF StreamIInv
<1>2. PICK s \in Slot \union {Nothing} :
           /\ PoolOK(pool') /\ pool'.live[i] = s
           /\ \A c \in Chunks : pool'.live[c.idx] = pool.live[c.idx]
           /\ \A j \in Task \ {i} : pool'.live[j] = pool.live[j] \/ (pool'.live[j] = Nothing /\ task[j].st = "pushed")
           /\ \A k \in DOMAIN pool'.fifo : \E j \in DOMAIN pool.fifo : pool'.fifo[k] = pool.fifo[j]
           /\ pool'.pushed = pool.pushed /\ pool'.destroyed = pool.destroyed /\ pool'.maxSlot >= pool.maxSlot
           /\ content' = IF s = Nothing THEN content ELSE [content EXCEPT ![s] = bytes]
           /\ task' \in [Task -> TaskType] /\ task'[i].st = st /\ task'[i].slot = s /\ task'[i].body = s
           /\ \A j \in Task \ {i} : task'[j] = task[j]
  <2>1. st \in State
    BY DEF State
  <2> QED BY <2>1, DecodeIntoFacts
<1>3. UNCHANGED <<nextDispatch, nextEmit, inflight, paused, ended, skip, limit, pc, cur, queue, reading, down, closed>>
  BY DEF restVars
<1>4. /\ task' \in [Task -> TaskType] /\ task'[i].st = st /\ task'[i].slot = s /\ task'[i].body = s
      /\ \A j \in Task \ {i} : task'[j] = task[j]
  BY <1>2
<1>5. /\ content' \in [Slot -> Task \union {Nothing}]
      /\ \A t \in Slot : t # s => content'[t] = content[t]
      /\ s # Nothing => content'[s] = bytes
  <2>1. content \in [Slot -> Task \union {Nothing}]
    BY <1>1 DEF StreamTypeOK
  <2> QED BY <1>2, <2>1
<1>6. StreamTypeOK'
  BY <1>1, <1>2, <1>3, <1>4, <1>5 DEF StreamTypeOK, TaskType, Total, PoolOK
<1>7. Aborted' = Aborted /\ Destroyed' = Destroyed
  BY <1>2, <1>3 DEF Aborted, Destroyed
<1>8. \A j \in Task \ {i} : s # Nothing => pool'.live[j] # s
  <2>1. \A k, j \in Task : pool'.live[k] = pool'.live[j] /\ pool'.live[k] # Nothing => k = j
    BY <1>2 DEF PoolOK
  <2> QED BY <1>2, <2>1
<1>9. TasksOK'
  <2>1. ASSUME NEW j \in Task, j # i PROVE TaskOK(j)'
    <3>1. TaskOK(j) /\ task'[j] = task[j] /\ pool.live[j] \in Slot \union {Nothing}
      BY <1>1, <1>4, <2>1, StreamTypes DEF TasksOK
    <3>2. pool'.live[j] = pool.live[j] \/ (pool'.live[j] = Nothing /\ task[j].st = "pushed")
      BY <1>2, <2>1
    <3>3. pool'.live[j] = pool.live[j] /\ pool.live[j] # Nothing => content'[pool.live[j]] = content[pool.live[j]]
      BY <1>5, <1>8, <2>1, <3>1
    <3> QED BY <1>2, <1>3, <1>7, <3>1, <3>2, <3>3, TaskKept
  <2>2. TaskOK(i)'
    <3>1. ~(i >= nextDispatch)
      BY <1>1 DEF TasksOK, TaskOK
    <3>2. pool'.live[i] = s /\ task'[i].st = st /\ task'[i].slot = s /\ task'[i].body = s
      BY <1>2, <1>4
    <3> QED BY <1>3, <1>5, <3>1, <3>2 DEF TaskOK
  <2> QED BY <2>1, <2>2 DEF TasksOK
<1>10. Chunks' = Chunks /\ Line' = Line
  BY <1>3 DEF Chunks, Line
<1>11. ChunksOK'
  <2>1. /\ pool.maxSlot \in Nat /\ (\A k \in DOMAIN pool.fifo : pool.fifo[k].idx \in Task)
        /\ \A c \in Chunks : c.idx \in Task
    BY <1>1, StreamTypes
  <2>2. Len(down') <= Layers /\ pool'.maxSlot \in Nat
    BY <1>1, <1>2, <1>3 DEF ChunksOK, PoolOK, Pool
  <2>3. \A c \in Chunks' : c.idx \in Task /\ pool'.live[c.idx] = pool.live[c.idx]
    BY <1>2, <1>10, <2>1
  <2>4. \A j \in Task : task[j].st = "pushed" => task'[j].st = "pushed"
    BY <1>4
  <2> QED BY <1>1, <1>2, <1>3, <1>10, <2>1, <2>2, <2>3, <2>4, ChunksKept
<1>12. LedgerOK'
  BY <1>1, <1>2, <1>3, <1>7, <1>10, LedgerKept
<1>13. RangeOK'
  BY <1>1, <1>2, <1>3, RangeKept
<1>14. ReadAheadBounded'
  <2>1. \A x : In(x)' = (In(x) \ {i}) \union (IF task'[i].st = x THEN {i} ELSE {})
    BY <1>4, OneMoves
  <2>2. i \in In("wire") /\ i \notin In("buffered") /\ i \notin In("decoded")
    BY DEF In
  <2>3. task'[i].st \in {"wire", "decoded"}
    BY <1>4
  <2>4. In("buffered")' = In("buffered") /\ (In("wire") \union In("decoded"))' = In("wire") \union In("decoded")
    BY <2>1, <2>2, <2>3
  <2> QED BY <1>1, <1>3, <1>7, <2>4, AheadKept
<1>15. ASSUME NEW t \in Slot PROVE content'[t] = content[t] \/ t \in LiveSlots(pool')
  <2>1. t = s => t \in LiveSlots(pool')
    BY <1>2, SlotAssumption DEF LiveSlots
  <2> QED BY <1>5, <2>1
<1> QED BY <1>2, <1>6, <1>9, <1>11, <1>12, <1>13, <1>14, <1>15 DEF StreamIInv

--------------------------------------------------------------------------------
(* The end of the stream *)

Over == [st |-> "done", slot |-> Nothing, body |-> Nothing]

\* A teardown: what was buffered is dropped, what may still be read stays.
LEMMA TeardownKeeps ==
  ASSUME StreamIInv, PoolOK(pool'), pool'.destroyed = TRUE,
         pool'.pushed = pool.pushed, pool'.maxSlot = pool.maxSlot,
         \A k \in DOMAIN pool'.fifo : \E j \in DOMAIN pool.fifo : pool'.fifo[k] = pool.fifo[j],
         NEW Gone \in SUBSET Task, In("buffered") \subseteq Gone, \A j \in Gone : task[j].st \in {"wire", "buffered"},
         task' = [j \in Task |-> IF j \in Gone THEN Over ELSE task[j]],
         \A j \in Gone : pool'.live[j] = Nothing,
         \A j \in Task \ Gone : pool'.live[j] = pool.live[j] \/ (pool'.live[j] = Nothing /\ task[j].st = "pushed"),
         \A c \in Chunks' : pool'.live[c.idx] = pool.live[c.idx],
         queue' = <<>>, down' \in {down, <<>>}, inflight' \in 0..MaxConcurrency, closed' \in BOOLEAN,
         UNCHANGED <<nextDispatch, nextEmit, paused, ended, content, skip, limit, pc, cur, reading>>
  PROVE  StreamIInv'
<1>1. StreamTypeOK /\ PoolOK(pool) /\ TasksOK /\ ChunksOK /\ RangeOK /\ ReadAheadBounded
  BY DEF StreamIInv
<1>2. Aborted' /\ Destroyed' /\ pool' \in Pool
  BY DEF Aborted, Destroyed, PoolOK
<1>3. /\ \A j \in Gone : task'[j].st = "done"
      /\ \A j \in Task \ Gone : task'[j] = task[j]
      /\ task' \in [Task -> TaskType]
  <2>1. task \in [Task -> TaskType] /\ Over \in TaskType
    BY <1>1, StreamTypes DEF TaskType, Over, State
  <2>2. Over.st = "done"
    BY DEF Over
  <2> HIDE DEF Over
  <2> QED BY <2>1, <2>2
<1>4. StreamTypeOK'
  <2> DEFINE E == Chunk
             none == <<>>
  <2>1. queue \in Seq(E) /\ down \in Seq(E) /\ none \in Seq(E)
    BY <1>1, StreamTypes
  <2> HIDE DEF E
  <2>2. queue' \in Seq(E) /\ down' \in Seq(E)
    BY <2>1
  <2> HIDE DEF none
  <2>3. queue' \in Seq(Chunk) /\ down' \in Seq(Chunk)
    BY <2>2 DEF E
  <2>4. {paused', ended', reading', closed'} \subseteq BOOLEAN
    BY <1>1 DEF StreamTypeOK
  <2> QED BY <1>1, <1>2, <1>3, <2>3, <2>4 DEF StreamTypeOK, TaskType, Total
<1>5. TasksOK'
  <2>1. ASSUME NEW j \in Task, j \notin Gone PROVE TaskOK(j)'
    <3>1. TaskOK(j) /\ task'[j] = task[j]
      BY <1>1, <1>3, <2>1 DEF TasksOK
    <3>2. task[j].st # "buffered"
      BY <2>1 DEF In
    <3>3. pool'.live[j] = pool.live[j] \/ (pool'.live[j] = Nothing /\ task[j].st = "pushed")
      BY <2>1
    <3> QED BY <1>2, <3>1, <3>2, <3>3, TaskKept
  <2>2. ASSUME NEW j \in Gone PROVE TaskOK(j)'
    <3>1. task'[j].st = "done" /\ pool'.live[j] = Nothing
      BY <1>3
    <3>2. ~(j >= nextDispatch)
      <4>1. TaskOK(j) /\ task[j].st # "todo"
        BY <1>1 DEF TasksOK
      <4> QED BY <4>1 DEF TaskOK
    <3> QED BY <3>1, <3>2 DEF TaskOK
  <2> QED BY <2>1, <2>2 DEF TasksOK
<1>6. Chunks' \subseteq Chunks /\ Len(down') <= Layers
  <2> DEFINE none == <<>>
  <2>1. Range(none) = {} /\ Len(none) = 0
    BY RangeMembers
  <2>2. queue' = none /\ down' \in {down, none}
    OBVIOUS
  <2> HIDE DEF none
  <2>3. Len(down) <= Layers
    BY <1>1 DEF ChunksOK
  <2> QED BY <2>1, <2>2, <2>3, StreamConstants DEF Chunks
<1>7. ChunksOK'
  <2>1. /\ pool.maxSlot \in Nat /\ (\A k \in DOMAIN pool.fifo : pool.fifo[k].idx \in Task)
        /\ \A c \in Chunks : c.idx \in Task
    BY <1>1, StreamTypes
  <2>2. pool'.maxSlot >= pool.maxSlot
    BY <2>1
  <2>3. \A c \in Chunks' : c.idx \in Task /\ pool'.live[c.idx] = pool.live[c.idx]
    BY <1>6, <2>1
  <2>4. \A j \in Task : task[j].st = "pushed" => task'[j].st = "pushed"
    BY <1>3
  <2> QED BY <1>1, <1>6, <2>1, <2>2, <2>3, <2>4, ChunksKept
<1>8. LedgerOK'
  BY <1>2 DEF LedgerOK
<1>9. RangeOK'
  BY <1>1, RangeKept
<1>10. ReadAheadBounded'
  BY <1>2 DEF ReadAheadBounded
<1> QED BY <1>4, <1>5, <1>7, <1>8, <1>9, <1>10 DEF StreamIInv

\* What was completed and not pushed, as a sequence.
LEMMA UnemittedFacts ==
  ASSUME StreamTypeOK
  PROVE  Unemitted \in Seq(Task) /\ Range(Unemitted) = In("buffered")
<1> DEFINE B == In("buffered")
<1>1. IsFiniteSet(B) /\ B \subseteq Task
  BY AheadFacts DEF In
<1> HIDE DEF B
<1>2. SetToSeq(B) \in Seq(B) /\ Range(SetToSeq(B)) = B
  BY <1>1, SetToSeqFacts
<1>3. SetToSeq(B) \in Seq(Task)
  BY <1>1, <1>2
<1> QED BY <1>2, <1>3 DEF Unemitted, B

\* What destroy leaves lent.
LEMMA Drained ==
  ASSUME NEW p, PoolOK(p), StreamTypeOK, NEW q, q = DestroyPool(p, Unemitted)
  PROVE  /\ PoolOK(q) /\ q.destroyed = TRUE
         /\ \A j \in Task : q.live[j] = IF j \in In("buffered") THEN Nothing ELSE p.live[j]
         /\ q.fifo = p.fifo /\ q.pushed = p.pushed /\ q.maxSlot = p.maxSlot
<1>1. PICK idxs \in Seq(Task) : idxs = Unemitted /\ Range(idxs) = In("buffered")
  BY UnemittedFacts
<1>2. /\ PoolOK(q) /\ q.destroyed = TRUE
      /\ q.live = [j \in Task |-> IF j \in Range(idxs) THEN Nothing ELSE p.live[j]]
      /\ q.fifo = p.fifo /\ q.pushed = p.pushed /\ q.maxSlot = p.maxSlot
  BY <1>1, DestroyFacts
<1>3. \A j \in Task : q.live[j] = IF j \in Range(idxs) THEN Nothing ELSE p.live[j]
  BY <1>2
<1> QED BY <1>1, <1>2, <1>3

\* The consumer destroys the stream.
LEMMA DestroyKeeps ==
  ASSUME StreamIInv, Destroy
  PROVE  StreamIInv' /\ content' = content
<1>1. StreamTypeOK /\ PoolOK(pool)
  BY DEF StreamIInv
<1>2. /\ pool' = DestroyPool(pool, Unemitted) /\ queue' = <<>>
      /\ UNCHANGED <<nextDispatch, nextEmit, inflight, paused, ended, content, skip, limit, pc, cur,
                     reading, down, closed>>
  BY DEF Destroy, Destroys
<1>3. /\ PoolOK(pool') /\ pool'.destroyed = TRUE
      /\ \A i \in Task : pool'.live[i] = IF i \in In("buffered") THEN Nothing ELSE pool.live[i]
      /\ pool'.fifo = pool.fifo /\ pool'.pushed = pool.pushed /\ pool'.maxSlot = pool.maxSlot
  BY <1>1, <1>2, Drained
<1>4. task' = [j \in Task |-> IF j \in In("buffered") THEN Over ELSE task[j]]
  BY DEF Destroy, DropBuffered, In, Over
<1>5. \A c \in Chunks' : pool'.live[c.idx] = pool.live[c.idx]
  <2> SUFFICES ASSUME NEW c \in Chunks' PROVE pool'.live[c.idx] = pool.live[c.idx]
    OBVIOUS
  <2>1. c \in Chunks
    BY <1>2, RangeMembers DEF Chunks
  <2>2. c.idx \in Task /\ c.idx \notin In("buffered")
    BY <1>1, <2>1, StreamTypes DEF StreamIInv, ChunksOK, ChunkOK, In
  <2> QED BY <1>3, <2>2
<1>6. In("buffered") \in SUBSET Task /\ \A j \in In("buffered") : task[j].st \in {"wire", "buffered"}
  BY DEF In
<1>7. inflight' \in 0..MaxConcurrency /\ closed' \in BOOLEAN
  BY <1>1, <1>2 DEF StreamTypeOK
<1>8. (\A j \in In("buffered") : pool'.live[j] = Nothing) /\ \A j \in Task \ In("buffered") : pool'.live[j] = pool.live[j]
  BY <1>3, <1>6
<1>9. \A k \in DOMAIN pool'.fifo : \E j \in DOMAIN pool.fifo : pool'.fifo[k] = pool.fifo[j]
  BY <1>3
<1>10. StreamIInv'
  <2> HIDE DEF Over, In
  <2> QED BY <1>2, <1>3, <1>4, <1>5, <1>6, <1>7, <1>8, <1>9, TeardownKeeps
<1> QED BY <1>2, <1>10

\* A fetch fails: the stream is destroyed with it.
LEMMA FailKeeps ==
  ASSUME StreamIInv, NEW i \in Task, Fail(i)
  PROVE  StreamIInv' /\ content' = content
<1> DEFINE q == Release(pool, i)
<1>1. StreamTypeOK /\ PoolOK(pool) /\ ReadAheadBounded
  BY DEF StreamIInv
<1>2. /\ task[i].st = "wire" /\ ~Aborted /\ inflight' = inflight - 1
      /\ pool' = DestroyPool(q, Unemitted) /\ queue' = <<>>
      /\ UNCHANGED <<nextDispatch, nextEmit, paused, ended, content, skip, limit, pc, cur,
                     reading, down, closed>>
  BY DEF Fail, Destroys
<1>3. PoolOK(q) /\ Released(pool, q, {i})
  BY <1>1, ReleaseFacts
<1> HIDE DEF q
<1> DEFINE Gone == In("buffered") \union {i}
<1>4. /\ PoolOK(pool') /\ pool'.destroyed = TRUE
      /\ \A j \in Task : pool'.live[j] = IF j \in In("buffered") THEN Nothing ELSE q.live[j]
      /\ pool'.fifo = q.fifo /\ pool'.pushed = q.pushed /\ pool'.maxSlot = q.maxSlot
  BY <1>1, <1>2, <1>3, Drained
<1>5. /\ pool'.fifo = pool.fifo /\ pool'.pushed = pool.pushed /\ pool'.maxSlot = pool.maxSlot
      /\ \A j \in Gone : pool'.live[j] = Nothing
      /\ \A j \in Task \ Gone : pool'.live[j] = pool.live[j]
  <2>1. \A j \in Task : q.live[j] = IF j \in {i} THEN Nothing ELSE pool.live[j]
    BY <1>3 DEF Released
  <2>2. In("buffered") \subseteq Task
    BY DEF In
  <2> QED BY <1>3, <1>4, <2>1, <2>2 DEF Released
<1>6. task' = [j \in Task |-> IF j \in Gone THEN Over ELSE task[j]]
  BY DEF Fail, In, Over
<1>7. \A c \in Chunks' : pool'.live[c.idx] = pool.live[c.idx]
  <2> SUFFICES ASSUME NEW c \in Chunks' PROVE pool'.live[c.idx] = pool.live[c.idx]
    OBVIOUS
  <2>1. c \in Chunks
    BY <1>2, RangeMembers DEF Chunks
  <2>2. c.idx \in Task /\ c.idx \notin Gone
    BY <1>1, <1>2, <2>1, StreamTypes DEF StreamIInv, ChunksOK, ChunkOK, In
  <2> QED BY <1>5, <2>2
<1>8. Gone \in SUBSET Task /\ In("buffered") \subseteq Gone /\ \A j \in Gone : task[j].st \in {"wire", "buffered"}
  BY <1>2 DEF In
<1>9. inflight' \in 0..MaxConcurrency /\ closed' \in BOOLEAN
  <2> DEFINE F == In("wire") \union In("decoded")
  <2>1. inflight = Cardinality(F) /\ i \in F /\ IsFiniteSet(F)
    BY <1>1, <1>2, AheadFacts, FS_Union DEF ReadAheadBounded, In
  <2> HIDE DEF F
  <2>2. Cardinality(F) \in Nat /\ Cardinality(F) # 0
    BY <2>1, FS_EmptySet, FS_CardinalityType
  <2>3. inflight \in 0..MaxConcurrency /\ closed \in BOOLEAN
    BY <1>1 DEF StreamTypeOK
  <2> QED BY <1>2, <2>1, <2>2, <2>3, StreamConstants
<1>10. \A k \in DOMAIN pool'.fifo : \E j \in DOMAIN pool.fifo : pool'.fifo[k] = pool.fifo[j]
  BY <1>5
<1>11. StreamIInv'
  <2> HIDE DEF Over, In, Gone
  <2> QED BY <1>2, <1>4, <1>5, <1>6, <1>7, <1>8, <1>9, <1>10, TeardownKeeps
<1> QED BY <1>2, <1>11

\* The response is closed: the pushed slots are retired too.
LEMMA CloseKeeps ==
  ASSUME StreamIInv, Close
  PROVE  StreamIInv' /\ content' = content
<1> DEFINE q == IF Destroyed THEN pool ELSE DestroyPool(pool, Unemitted)
           none == <<>>
<1>1. StreamTypeOK /\ PoolOK(pool) /\ TasksOK /\ ChunksOK
  BY DEF StreamIInv
<1>2. /\ pool' = Retire(q) /\ queue' = none /\ down' = none /\ closed' = TRUE
      /\ UNCHANGED <<nextDispatch, nextEmit, inflight, paused, ended, content, skip, limit, pc, cur, reading>>
  BY DEF Close
<1>3. /\ PoolOK(q) /\ q.destroyed = TRUE
      /\ \A j \in In("buffered") : q.live[j] = Nothing
      /\ \A j \in Task \ In("buffered") : q.live[j] = pool.live[j]
      /\ q.fifo = pool.fifo /\ q.pushed = pool.pushed /\ q.maxSlot = pool.maxSlot
  <2>1. CASE Destroyed
    <3>1. In("buffered") = {}
      BY <1>1, <2>1 DEF TasksOK, TaskOK, In
    <3>2. q = pool
      BY <2>1
    <3>3. pool.destroyed = TRUE
      BY <1>1, <2>1, StreamTypes DEF Destroyed
    <3> QED BY <1>1, <3>1, <3>2, <3>3
  <2>2. CASE ~Destroyed
    <3>1. q = DestroyPool(pool, Unemitted) /\ In("buffered") \subseteq Task
      BY <2>2 DEF In
    <3> HIDE DEF q
    <3>2. /\ PoolOK(q) /\ q.destroyed = TRUE
          /\ \A i \in Task : q.live[i] = IF i \in In("buffered") THEN Nothing ELSE pool.live[i]
          /\ q.fifo = pool.fifo /\ q.pushed = pool.pushed /\ q.maxSlot = pool.maxSlot
      BY <1>1, <3>1, Drained
    <3> QED BY <3>1, <3>2
  <2> QED BY <2>1, <2>2
<1> HIDE DEF q
<1>4. /\ PoolOK(pool') /\ pool'.fifo = <<>>
      /\ \A i \in Task : \/ pool'.live[i] = q.live[i]
                         \/ pool'.live[i] = Nothing /\ \E k \in DOMAIN q.fifo : q.fifo[k].idx = i
      /\ pool'.pushed = pool.pushed /\ pool'.maxSlot = pool.maxSlot /\ pool'.destroyed = TRUE
  BY <1>2, <1>3, RetireFacts
<1>5. task' = [j \in Task |-> IF j \in In("buffered") THEN Over ELSE task[j]]
  BY DEF Close, DropBuffered, In, Over
<1>6. /\ \A j \in In("buffered") : pool'.live[j] = Nothing
      /\ \A j \in Task \ In("buffered") :
           pool'.live[j] = pool.live[j] \/ (pool'.live[j] = Nothing /\ task[j].st = "pushed")
  <2>1. \A k \in DOMAIN pool.fifo : task[pool.fifo[k].idx].st = "pushed"
    BY <1>1 DEF ChunksOK
  <2>2. In("buffered") \subseteq Task
    BY DEF In
  <2> QED BY <1>3, <1>4, <2>1, <2>2
<1>7. Chunks' = {}
  BY <1>2, RangeMembers DEF Chunks
<1>8. In("buffered") \in SUBSET Task /\ \A j \in In("buffered") : task[j].st \in {"wire", "buffered"}
  BY DEF In
<1>9. inflight' \in 0..MaxConcurrency /\ closed' \in BOOLEAN
  BY <1>1, <1>2 DEF StreamTypeOK
<1>10. \A k \in DOMAIN pool'.fifo : \E j \in DOMAIN pool.fifo : pool'.fifo[k] = pool.fifo[j]
  BY <1>4
<1>11. StreamIInv'
  <2> HIDE DEF Over, In
  <2> QED BY <1>2, <1>4, <1>5, <1>6, <1>7, <1>8, <1>9, <1>10, TeardownKeeps
<1> QED BY <1>2, <1>11

--------------------------------------------------------------------------------
(* push *)

\* The pool writes down where the pushed chunk ended.
LEMMA RecordFacts ==
  ASSUME NEW p, PoolOK(p), NEW i \in Task, NEW len \in Nat
  PROVE  LET q == RecordPush(p, i, len)
         IN  /\ PoolOK(q) /\ q.live = p.live /\ q.maxSlot = p.maxSlot /\ q.destroyed = p.destroyed
             /\ q.pushed = p.pushed + len
             /\ \A k \in DOMAIN q.fifo : \/ \E j \in DOMAIN p.fifo : q.fifo[k] = p.fifo[j]
                                         \/ q.fifo[k].idx = i /\ q.fifo[k].end = p.pushed + len
<1> DEFINE E == [idx : Task, end : Nat]
           e == [idx |-> i, end |-> p.pushed + len]
           fifo == IF p.live[i] = Nothing THEN p.fifo ELSE Append(p.fifo, e)
           q == RecordPush(p, i, len)
<1>1. p \in Pool /\ p.fifo \in Seq(E) /\ p.pushed \in Nat /\ e \in E /\ e.idx = i /\ e.end = p.pushed + len
  BY DEF PoolOK, Pool
<1>2. q = [p EXCEPT !.pushed = p.pushed + len, !.fifo = fifo]
  BY DEF RecordPush
<1> HIDE DEF E, e, q
<1>3. /\ fifo \in Seq(E)
      /\ \A k \in DOMAIN fifo : (\E j \in DOMAIN p.fifo : fifo[k] = p.fifo[j]) \/ fifo[k] = e
  <2>1. CASE p.live[i] = Nothing
    BY <1>1, <2>1
  <2>2. CASE p.live[i] # Nothing
    <3>1. /\ Append(p.fifo, e) \in Seq(E)
          /\ DOMAIN Append(p.fifo, e) = 1..(Len(p.fifo) + 1) /\ DOMAIN p.fifo = 1..Len(p.fifo) /\ Len(p.fifo) \in Nat
          /\ \A k \in 1..Len(p.fifo) : Append(p.fifo, e)[k] = p.fifo[k]
          /\ Append(p.fifo, e)[Len(p.fifo) + 1] = e
      BY <1>1, AppendFacts
    <3>2. fifo = Append(p.fifo, e)
      BY <2>2
    <3> HIDE DEF fifo
    <3>3. ASSUME NEW k \in DOMAIN fifo PROVE (\E j \in DOMAIN p.fifo : fifo[k] = p.fifo[j]) \/ fifo[k] = e
      <4>1. k \in 1..Len(p.fifo) \/ k = Len(p.fifo) + 1
        BY <3>1, <3>2
      <4> QED BY <3>1, <3>2, <4>1
    <3> QED BY <3>1, <3>2, <3>3
  <2> QED BY <2>1, <2>2
<1> HIDE DEF fifo
<1>4. /\ q \in Pool /\ q.fifo = fifo /\ q.pushed = p.pushed + len /\ q.live = p.live /\ q.free = p.free
      /\ q.allocated = p.allocated /\ q.bank = p.bank /\ q.maxSlot = p.maxSlot /\ q.destroyed = p.destroyed
  BY <1>1, <1>2, <1>3 DEF Pool, E
<1>5. LiveSlots(q) = LiveSlots(p)
  BY <1>4 DEF LiveSlots
<1>6. PoolOK(q)
  BY <1>4, <1>5 DEF PoolOK
<1>7. ASSUME NEW k \in DOMAIN q.fifo
      PROVE  \/ \E j \in DOMAIN p.fifo : q.fifo[k] = p.fifo[j]
             \/ q.fifo[k].idx = i /\ q.fifo[k].end = p.pushed + len
  <2>0. q.fifo = fifo
    BY <1>4
  <2>1. k \in DOMAIN fifo /\ q.fifo[k] = fifo[k]
    BY <2>0
  <2>2. (\E j \in DOMAIN p.fifo : fifo[k] = p.fifo[j]) \/ fifo[k] = e
    BY <1>3, <2>1
  <2>3. ASSUME fifo[k] = e PROVE fifo[k].idx = i /\ fifo[k].end = p.pushed + len
    BY <1>1, <2>3
  <2> QED BY <2>1, <2>2, <2>3
<1> QED BY <1>4, <1>6, <1>7, Zenon DEF q

\* push() returned: the chunk is accounted.
LEMMA RecordChunkKeeps ==
  ASSUME StreamIInv, RecordChunk
  PROVE  StreamIInv' /\ content' = content
<1>1. StreamTypeOK /\ PoolOK(pool) /\ TasksOK /\ ChunksOK /\ LedgerOK /\ RangeOK /\ ReadAheadBounded
  BY DEF StreamIInv
<1>2. /\ pc = "record" /\ pool' = RecordPush(pool, cur.idx, cur.len) /\ cur' = Nothing
      /\ UNCHANGED <<task, nextDispatch, nextEmit, inflight, content, skip, limit, queue, reading, down, closed>>
  BY DEF RecordChunk
<1>3. /\ pc' \in {"flush", "dispatch"} /\ paused' \in BOOLEAN /\ ended' \in BOOLEAN
      /\ (ended => ended') /\ (ended' => ended \/ limit = 0)
  <2>1. paused \in BOOLEAN /\ ended \in BOOLEAN
    BY <1>1 DEF StreamTypeOK
  <2>2. CASE limit = 0 /\ FinishEnd /\ pc' = "dispatch" /\ UNCHANGED paused
    BY <2>1, <2>2 DEF FinishEnd
  <2>3. CASE /\ limit # 0 /\ paused' = (QueuedBytes >= HighWater)
             /\ pc' = (IF paused' THEN "dispatch" ELSE "flush") /\ UNCHANGED ended
    <3> HIDE DEF QueuedBytes
    <3> QED BY <2>1, <2>3
  <2> QED BY <2>2, <2>3 DEF RecordChunk
<1>4. cur \in Chunk /\ cur.idx \in Task /\ cur.len \in Nat /\ task[cur.idx].st = "pushed"
  BY <1>1, <1>2, StreamTypes DEF ChunksOK
<1>5. /\ PoolOK(pool') /\ pool' \in Pool /\ pool'.live = pool.live /\ pool'.maxSlot = pool.maxSlot
      /\ pool'.destroyed = pool.destroyed /\ pool'.pushed = pool.pushed + cur.len
      /\ \A k \in DOMAIN pool'.fifo : \/ \E j \in DOMAIN pool.fifo : pool'.fifo[k] = pool.fifo[j]
                                      \/ pool'.fifo[k].idx = cur.idx /\ pool'.fifo[k].end = pool.pushed + cur.len
  BY <1>1, <1>2, <1>4, RecordFacts DEF PoolOK
<1>6. StreamTypeOK'
  <2>1. {paused', ended', reading', closed'} \subseteq BOOLEAN
    BY <1>1, <1>2, <1>3 DEF StreamTypeOK
  <2> QED BY <1>1, <1>2, <1>3, <1>5, <2>1 DEF StreamTypeOK, Total
<1>7. Destroyed' = Destroyed /\ (Aborted => Aborted')
  BY <1>3, <1>5 DEF Aborted, Destroyed
<1>8. TasksOK'
  <2>1. ASSUME NEW j \in Task PROVE TaskOK(j)'
    <3>1. TaskOK(j)
      BY <1>1 DEF TasksOK
    <3> QED BY <1>2, <1>5, <1>7, <3>1, TaskKept
  <2> QED BY <2>1 DEF TasksOK
<1>9. ChunksOK'
  <2>1. Chunks' = Chunks
    BY <1>2 DEF Chunks
  <2>2. \A c \in Chunks : ChunkOK(c)'
    BY <1>1, <1>2, <1>5 DEF ChunksOK, ChunkOK
  <2>3. \A k \in DOMAIN pool'.fifo : task'[pool'.fifo[k].idx].st = "pushed"
    BY <1>1, <1>2, <1>4, <1>5 DEF ChunksOK
  <2>4. Len(down') <= Layers /\ pool'.maxSlot >= MaxLength
    BY <1>1, <1>2, <1>5 DEF ChunksOK
  <2> QED BY <1>2, <1>3, <2>1, <2>2, <2>3, <2>4 DEF ChunksOK
<1>10. Pushed = pool.pushed + cur.len /\ Pushed' = Pushed
  <2>1. pool.pushed \in Nat /\ Pushed = pool.pushed + cur.len
    BY <1>1, <1>2, StreamTypes DEF Pushed
  <2>2. Pushed' = pool'.pushed + 0
    BY <1>3 DEF Pushed
  <2> QED BY <1>4, <1>5, <2>1, <2>2
<1>11. LedgerOK'
  <2> SUFFICES ASSUME ~Destroyed' PROVE (\E e : Ends(e))'
    BY DEF LedgerOK
  <2>1. PICK e : Ends(e)
    BY <1>1, <1>7 DEF LedgerOK
  <2>2. Line' = Line
    BY <1>2 DEF Line
  <2>3. (\A k \in 0..Len(Line') : e[k] \in Int) /\ e[Len(Line')] = Pushed'
    BY <1>10, <2>1, <2>2, Zenon DEF Ends
  <2>4. ASSUME NEW k \in 1..Len(Line')
        PROVE  /\ e[k] = e[k - 1] + Line'[k].len
               /\ \A j \in DOMAIN pool'.fifo : pool'.fifo[j].idx = Line'[k].idx => pool'.fifo[j].end = e[k]
               /\ pc' = "record" /\ Line'[k].idx = cur'.idx => e[k] = Pushed'
    <3>1. /\ e[k] = e[k - 1] + Line[k].len
          /\ \A j \in DOMAIN pool.fifo : pool.fifo[j].idx = Line[k].idx => pool.fifo[j].end = e[k]
          /\ pc = "record" /\ Line[k].idx = cur.idx => e[k] = Pushed
      BY <2>1, <2>2, Zenon DEF Ends
    <3>2. ASSUME NEW j \in DOMAIN pool'.fifo, pool'.fifo[j].idx = Line'[k].idx PROVE pool'.fifo[j].end = e[k]
      BY <1>2, <1>5, <1>10, <2>2, <3>1, <3>2
    <3> QED BY <1>3, <2>2, <3>1, <3>2
  <2>5. Ends(e)'
    BY <2>3, <2>4 DEF Ends
  <2> QED BY <2>5
<1>12. RangeOK'
  <2>1. Emitted' = Emitted
    BY <1>2 DEF Emitted
  <2>2. ended' => limit = 0
    BY <1>1, <1>2, <1>3 DEF RangeOK
  <2>3. pc' # "record" /\ limit' = limit /\ skip' = skip
    BY <1>2, <1>3
  <2> QED BY <1>1, <1>10, <2>1, <2>2, <2>3 DEF RangeOK
<1>13. ReadAheadBounded'
  <2>1. \A x : In(x)' = In(x)
    BY <1>2 DEF In
  <2> QED BY <1>1, <1>2, <1>7, <2>1, AheadKept
<1> QED BY <1>2, <1>5, <1>6, <1>8, <1>9, <1>11, <1>12, <1>13 DEF StreamIInv

\* Of E bytes of the tasks, P were pushed: k of the K to skip are left and L
\* of the limit.
Cuts(P, L, E, K, k) == k = Larger(0, K - E) /\ P = Smaller(P + L, Larger(0, E - K))
Passes(L, k, n) == IF n <= k THEN 0 ELSE IF n - k > L THEN L ELSE n - k
SkipLeft(k, n) == IF n <= k THEN k - n ELSE 0

\* transformChunk: what is emitted of n bytes, and what it makes of the skip
\* and the limit.
LEMMA EmitArithmetic ==
  ASSUME NEW P \in Int, NEW L \in Nat, NEW E \in Nat, NEW K \in Nat, NEW k \in Nat, NEW n \in Nat,
         Cuts(P, L, E, K, k)
  PROVE  /\ Passes(L, k, n) \in Nat /\ Passes(L, k, n) <= n /\ L - Passes(L, k, n) \in Nat
         /\ SkipLeft(k, n) \in 0..K
         /\ Cuts(P + Passes(L, k, n), L - Passes(L, k, n), E + n, K, SkipLeft(k, n))
<1> DEFINE a == Passes(L, k, n)
<1>0. /\ k = Larger(0, K - E) /\ P = Smaller(P + L, Larger(0, E - K))
      /\ a = IF n <= k THEN 0 ELSE IF n - k > L THEN L ELSE n - k
  BY DEF Cuts, Passes
<1> HIDE DEF a
<1>1. k \in 0..K
  BY <1>0 DEF Larger
<1>2. ASSUME n <= k
      PROVE  /\ a \in Nat /\ a <= n /\ L - a \in Nat
             /\ (IF n <= k THEN k - n ELSE 0) = Larger(0, K - (E + n))
             /\ (IF n <= k THEN k - n ELSE 0) \in 0..K
             /\ P + a = Smaller((P + a) + (L - a), Larger(0, (E + n) - K))
  <2>1. a = 0
    BY <1>0, <1>2
  <2>2. k = K - E \/ n = 0
    BY <1>0, <1>2 DEF Larger
  <2>3. (IF n <= k THEN k - n ELSE 0) = k - n
    BY <1>2
  <2>4. k - n = Larger(0, K - (E + n)) /\ k - n \in 0..K
    BY <1>0, <1>1, <1>2, <2>2 DEF Larger
  <2>5. P = Smaller(P + L, Larger(0, (E + n) - K))
    <3>1. Larger(0, (E + n) - K) = Larger(0, E - K)
      BY <1>2, <2>2 DEF Larger
    <3> QED BY <1>0, <3>1
  <2> QED BY <2>1, <2>3, <2>4, <2>5
<1>3. ASSUME ~(n <= k)
      PROVE  /\ a \in Nat /\ a <= n /\ L - a \in Nat
             /\ (IF n <= k THEN k - n ELSE 0) = Larger(0, K - (E + n))
             /\ (IF n <= k THEN k - n ELSE 0) \in 0..K
             /\ P + a = Smaller((P + a) + (L - a), Larger(0, (E + n) - K))
  <2>1. a \in Nat /\ a <= n /\ L - a \in Nat /\ (a = L \/ a = n - k) /\ a <= L /\ a <= n - k
    BY <1>0, <1>1, <1>3
  <2>2. (IF n <= k THEN k - n ELSE 0) = 0
    BY <1>3
  <2>3. 0 = Larger(0, K - (E + n)) /\ Larger(0, (E + n) - K) = (E + n) - K
    BY <1>0, <1>1, <1>3 DEF Larger
  <2>4. Larger(0, E - K) + (n - k) = (E + n) - K \/ L = 0
    BY <1>0, <1>1, <1>3 DEF Larger, Smaller
  <2>5. P + a = Smaller((P + a) + (L - a), (E + n) - K)
    <3>1. CASE L = 0
      BY <1>0, <1>1, <1>3, <2>1, <3>1 DEF Larger, Smaller
    <3>2. CASE L # 0
      <4>1. P = Larger(0, E - K)
        BY <1>0, <3>2 DEF Larger, Smaller
      <4>2. P + (n - k) = (E + n) - K
        BY <2>4, <3>2, <4>1
      <4> QED BY <2>1, <4>2 DEF Smaller
    <3> QED BY <3>1, <3>2
  <2> QED BY <1>1, <2>1, <2>2, <2>3, <2>5
<1>4. /\ a \in Nat /\ a <= n /\ L - a \in Nat
      /\ (IF n <= k THEN k - n ELSE 0) = Larger(0, K - (E + n))
      /\ (IF n <= k THEN k - n ELSE 0) \in 0..K
      /\ P + a = Smaller((P + a) + (L - a), Larger(0, (E + n) - K))
  BY <1>2, <1>3
<1> QED BY <1>4, Zenon DEF Cuts, SkipLeft, a

\* One more task is emitted.
LEMMA EmittedGrows ==
  ASSUME NEW i \in Task, nextEmit = i, nextEmit' = i + 1
  PROVE  Emitted \in Nat /\ Emitted' = Emitted + Length[i] /\ Length[i] \in Nat
<1>1. i \in Nat /\ 0..i \subseteq Task /\ 0..(i - 1) = (0..i) \ {i} /\ i \in 0..i /\ (i + 1) - 1 = i
  BY StreamConstants
<1>2. IsFiniteSet(0..i) /\ IsFiniteSet(0..(i - 1)) /\ (\A j \in 0..i : Length[j] \in Nat) /\ \A j \in 0..(i - 1) : Length[j] \in Nat
  <2>1. 0..(i - 1) \subseteq Task
    BY <1>1
  <2> QED BY <1>1, <2>1, StreamConstants, FS_Subset
<1>3. Emitted = SumOf(Length, 0..(i - 1)) /\ Emitted' = SumOf(Length, 0..i)
  BY <1>1 DEF Emitted
<1>4. SumOf(Length, 0..i) = Length[i] + SumOf(Length, 0..(i - 1))
  BY <1>1, <1>2, SumAdd
<1>5. SumOf(Length, 0..(i - 1)) \in Nat
  BY <1>2, SumType
<1>6. Length[i] \in Nat
  BY StreamConstants
<1> QED BY <1>3, <1>4, <1>5, <1>6

\* What every flushed task does to the range and the budget.
LEMMA FlushedRange ==
  ASSUME StreamIInv, FlushChunk, NEW i \in Task, nextEmit = i
  PROVE  /\ Emits(i) \in Nat /\ Emits(i) <= MaxLength
         /\ skip' \in 0..SkipBytes /\ limit' \in Nat /\ nextEmit' \in 0..Total
         /\ Pushed' = Pushed + Emits(i)
         /\ RangeOK' /\ ReadAheadBounded'
<1>1. StreamTypeOK /\ PoolOK(pool) /\ RangeOK /\ ReadAheadBounded
  BY DEF StreamIInv
<1>2. /\ pc = "flush" /\ ~ended /\ i \in In("buffered") /\ nextEmit' = i + 1
      /\ skip' = (IF Length[i] <= skip THEN skip - Length[i] ELSE 0)
      /\ limit' = limit - Emits(i)
      /\ task' = [task EXCEPT ![i].st = "pushed"]
      /\ \/ Emits(i) = 0 /\ pool' = Release(pool, i) /\ pc' = pc
         \/ pool' = pool /\ pc' = "record" /\ cur' = [idx |-> i, slot |-> task[i].body, len |-> Emits(i)]
      /\ ended' = ended /\ inflight' = inflight
  BY DEF FlushChunk, Aborted, Become
<1>3. Emitted \in Nat /\ Emitted' = Emitted + Length[i] /\ Length[i] \in Nat /\ Length[i] <= MaxLength /\ MaxLength \in Nat
  BY <1>2, EmittedGrows, StreamConstants
<1>4. limit \in Nat /\ skip \in Nat /\ pool.pushed \in Nat /\ Pushed = pool.pushed
  <2>1. Pushed = pool.pushed + 0 /\ pool.pushed \in Nat
    BY <1>1, <1>2, StreamTypes DEF Pushed
  <2>2. limit \in Nat /\ skip \in Nat
    BY <1>1, StreamConstants DEF StreamTypeOK
  <2> QED BY <2>1, <2>2
<1>5. Emits(i) = IF Length[i] <= skip THEN 0 ELSE IF Length[i] - skip > limit THEN limit ELSE Length[i] - skip
  BY DEF Emits
<1>6. /\ Emits(i) \in Nat /\ Emits(i) <= Length[i] /\ limit - Emits(i) \in Nat
      /\ skip' = Larger(0, SkipBytes - (Emitted + Length[i])) /\ skip' \in 0..SkipBytes
      /\ Pushed + Emits(i) = Smaller((Pushed + Emits(i)) + (limit - Emits(i)), Larger(0, (Emitted + Length[i]) - SkipBytes))
  <2>1. Cuts(Pushed, limit, Emitted, SkipBytes, skip)
    BY <1>1 DEF RangeOK, Cuts
  <2>2. Pushed \in Int /\ SkipBytes \in Nat
    BY <1>4, StreamConstants
  <2> DEFINE a == Passes(limit, skip, Length[i])
  <2>3. /\ a \in Nat /\ a <= Length[i] /\ limit - a \in Nat /\ SkipLeft(skip, Length[i]) \in 0..SkipBytes
        /\ Cuts(Pushed + a, limit - a, Emitted + Length[i], SkipBytes, SkipLeft(skip, Length[i]))
    <3> HIDE DEF Pushed, Emitted
    <3> QED BY <1>3, <1>4, <2>1, <2>2, EmitArithmetic, Zenon
  <2>4. a = Emits(i)
    BY <1>5 DEF Passes
  <2> HIDE DEF a
  <2>5. skip' = (IF Length[i] <= skip THEN skip - Length[i] ELSE 0)
    BY <1>2
  <2>6. skip' = SkipLeft(skip, Length[i])
    BY <2>5 DEF SkipLeft
  <2> QED BY <2>3, <2>4, <2>6, Zenon DEF Cuts
<1>7. Pushed' = Pushed + Emits(i)
  <2>1. CASE Emits(i) = 0 /\ pool' = Release(pool, i) /\ pc' = pc
    <3>1. pool'.pushed = pool.pushed
      BY <1>1, <2>1, ReleaseFacts DEF Released
    <3>2. Pushed' = pool'.pushed + 0
      BY <1>2, <2>1 DEF Pushed
    <3> QED BY <1>4, <2>1, <3>1, <3>2
  <2>2. CASE pool' = pool /\ pc' = "record" /\ cur' = [idx |-> i, slot |-> task[i].body, len |-> Emits(i)]
    <3>1. cur'.len = Emits(i)
      BY <2>2
    <3>2. Pushed' = pool'.pushed + cur'.len
      BY <2>2 DEF Pushed
    <3> QED BY <1>4, <2>2, <3>1, <3>2
  <2> QED BY <1>2, <2>1, <2>2
<1>8. RangeOK'
  <2>1. ~ended'
    BY <1>2
  <2> QED BY <1>2, <1>3, <1>6, <1>7, <2>1 DEF RangeOK
<1>9. ReadAheadBounded'
  <2> DEFINE F == In("wire") \union In("decoded")
             B == In("buffered")
  <2>1. \A x : In(x)' = (In(x) \ {i}) \union (IF task'[i].st = x THEN {i} ELSE {})
    <3>1. \A j \in Task \ {i} : task'[j].st = task[j].st
      BY <1>1, <1>2, StreamTypes
    <3> QED BY <3>1, OneMoves
  <2>2. task'[i].st = "pushed"
    BY <1>1, <1>2, StreamTypes DEF TaskType
  <2>3. i \in B /\ i \notin F
    BY <1>2 DEF In
  <2>4. B' = B \ {i} /\ F' = F
    BY <2>1, <2>2, <2>3
  <2>5. IsFiniteSet(B) /\ (\A j \in B : j \in Task) /\ inflight \in Nat
    BY <1>1, AheadFacts
  <2>6. SumOf(Length, B) = Length[i] + SumOf(Length, B \ {i}) /\ SumOf(Length, B \ {i}) \in Nat
    <3>1. (\A j \in B : Length[j] \in Nat) /\ (\A j \in B \ {i} : Length[j] \in Nat) /\ IsFiniteSet(B \ {i})
      BY <2>5, StreamConstants, FS_Subset
    <3> HIDE DEF B
    <3> QED BY <2>3, <2>5, <3>1, SumAdd, SumType
  <2>7. CouldHold = SumOf(Length, B) + inflight * Longest /\ CouldHold' = SumOf(Length, B') + inflight' * Longest
    BY BufferedSum DEF CouldHold
  <2>8. CouldHold' <= CouldHold /\ CouldHold \in Int /\ CouldHold' \in Int
    <3>1. inflight * Longest \in Nat
      BY <1>3, <2>5, StreamConstants
    <3> HIDE DEF B
    <3> QED BY <1>2, <1>3, <2>4, <2>6, <2>7, <3>1
  <2>9. ~Aborted
    BY DEF FlushChunk
  <2>10. MaxConcurrency * Longest + MaxBufferedBytes + TaskBytes \in Int
    BY StreamConstants
  <2>11. /\ CouldHold < MaxConcurrency * Longest + MaxBufferedBytes + TaskBytes
         /\ inflight = Cardinality(F)
    BY <1>1, <2>9 DEF ReadAheadBounded
  <2>12. CouldHold' < MaxConcurrency * Longest + MaxBufferedBytes + TaskBytes
    BY <2>8, <2>10, <2>11
  <2> QED BY <1>2, <2>4, <2>11, <2>12 DEF ReadAheadBounded
<1>10. limit' \in Nat /\ nextEmit' \in 0..Total /\ Emits(i) <= MaxLength
  <2>1. i + 1 \in 0..Total
    BY StreamConstants
  <2> QED BY <1>2, <1>3, <1>6, <2>1
<1> QED BY <1>6, <1>7, <1>8, <1>9, <1>10

\* A chunk joins the end of the line.
LEMMA PushedLine ==
  ASSUME StreamIInv, pc = "flush", pc' = "record", pool' = pool, down' = down, NEW i \in Task, task[i].st # "pushed",
         cur' \in Chunk, cur'.idx = i, queue' = Append(queue, cur')
  PROVE  LedgerOK' /\ Chunks' = Chunks \union {cur'} /\ queue' \in Seq(Chunk)
<1> DEFINE E == Chunk
           N == Len(Line)
<1>1. StreamTypeOK /\ PoolOK(pool) /\ ChunksOK /\ LedgerOK
  BY DEF StreamIInv
<1>2. queue \in Seq(E) /\ down \in Seq(E) /\ Line \in Seq(E) /\ Range(Line) = Chunks /\ cur' \in E
  BY <1>1, StreamTypes
<1>3. pool.pushed \in Nat /\ cur'.len \in Nat /\ Pushed = pool.pushed /\ Pushed' = pool.pushed + cur'.len
  <2>1. pool.pushed \in Nat /\ cur'.len \in Nat
    BY <1>1, StreamTypes DEF Chunk
  <2> QED BY <2>1 DEF Pushed
<1> HIDE DEF E
<1>4. queue' \in Seq(E) /\ Range(queue') = Range(queue) \union {cur'}
  BY <1>2, AppendFacts
<1>5. Chunks' = Chunks \union {cur'}
  BY <1>4 DEF Chunks
<1>6. Line' = Append(Line, cur')
  BY <1>2, LineFacts DEF Line
<1>7. /\ Len(Line') = N + 1 /\ N \in Nat /\ DOMAIN Line = 1..N
      /\ (\A k \in 1..N : Line'[k] = Line[k]) /\ Line'[N + 1] = cur'
  <2>1. Line' \in Seq(E) /\ DOMAIN Line' = 1..(N + 1)
    BY <1>2, <1>6, AppendFacts
  <2> QED BY <1>2, <1>6, <2>1, AppendFacts
<1> HIDE DEF N
<1>8. (\A k \in 1..N : Line[k].idx # i) /\ \A j \in DOMAIN pool.fifo : pool.fifo[j].idx # i
  <2>1. \A k \in 1..N : Line[k] \in Chunks
    BY <1>2, <1>7, RangeMembers
  <2>2. \A k \in 1..N : task[Line[k].idx].st = "pushed"
    BY <1>1, <2>1 DEF ChunksOK, ChunkOK
  <2>3. \A j \in DOMAIN pool.fifo : task[pool.fifo[j].idx].st = "pushed"
    BY <1>1 DEF ChunksOK
  <2> QED BY <2>2, <2>3
<1>9. LedgerOK'
  <2> SUFFICES ASSUME ~Destroyed' PROVE (\E e : Ends(e))'
    BY DEF LedgerOK
  <2>1. PICK e : Ends(e)
    BY <1>1 DEF LedgerOK, Destroyed
  <2>2. /\ \A k \in 0..N : e[k] \in Int
        /\ e[N] = pool.pushed
        /\ \A k \in 1..N : e[k] = e[k - 1] + Line[k].len
        /\ \A k \in 1..N : \A j \in DOMAIN pool.fifo : pool.fifo[j].idx = Line[k].idx => pool.fifo[j].end = e[k]
    BY <1>3, <2>1 DEF Ends, N
  <2>3. PICK f : f = [k \in 0..(N + 1) |-> IF k = N + 1 THEN Pushed' ELSE e[k]]
    OBVIOUS
  <2>4. f[N + 1] = Pushed' /\ \A k \in 0..N : f[k] = e[k]
    BY <1>7, <2>3
  <2>5. (\A k \in 0..Len(Line') : f[k] \in Int) /\ f[Len(Line')] = Pushed'
    <3>1. \A k \in 0..(N + 1) : k = N + 1 \/ k \in 0..N
      BY <1>7
    <3>2. Pushed' \in Int
      BY <1>3
    <3> QED BY <1>7, <2>2, <2>4, <3>1, <3>2
  <2>6. ASSUME NEW k \in 1..Len(Line')
        PROVE  /\ f[k] = f[k - 1] + Line'[k].len
               /\ \A j \in DOMAIN pool'.fifo : pool'.fifo[j].idx = Line'[k].idx => pool'.fifo[j].end = f[k]
               /\ pc' = "record" /\ Line'[k].idx = cur'.idx => f[k] = Pushed'
    <3>1. CASE k = N + 1
      <4>1. f[k] = Pushed' /\ f[k - 1] = pool.pushed
        <5>1. k - 1 = N /\ N \in 0..N
          BY <1>7, <3>1
        <5> QED BY <2>2, <2>4, <3>1, <5>1
      <4>2. Line'[k] = cur'
        BY <1>7, <3>1
      <4> QED BY <1>3, <1>8, <4>1, <4>2
    <3>2. CASE k # N + 1
      <4>1. k \in 1..N /\ k \in 0..N /\ k - 1 \in 0..N
        BY <1>7, <3>2
      <4>2. f[k] = e[k] /\ f[k - 1] = e[k - 1] /\ Line'[k] = Line[k] /\ Line[k].idx # cur'.idx
        BY <1>7, <1>8, <2>4, <4>1
      <4> QED BY <2>2, <4>1, <4>2
    <3> QED BY <3>1, <3>2
  <2>7. Ends(f)'
    BY <2>5, <2>6 DEF Ends
  <2> QED BY <2>7
<1> QED BY <1>4, <1>5, <1>9 DEF E

\* The next chunk in order is pushed, or consumed whole by the skip.
LEMMA FlushChunkKeeps ==
  ASSUME StreamIInv, FlushChunk
  PROVE  StreamIInv' /\ content' = content
<1>1. StreamTypeOK /\ PoolOK(pool) /\ TasksOK /\ ChunksOK /\ LedgerOK
  BY DEF StreamIInv
<1>2. PICK i \in Task : nextEmit = i /\ task[i].st = "buffered"
  BY DEF FlushChunk, In
<1>3. /\ pc = "flush" /\ ~Aborted
      /\ task' = [task EXCEPT ![i].st = "pushed"]
      /\ UNCHANGED <<nextDispatch, inflight, paused, ended, content, down, closed>>
  BY <1>2 DEF FlushChunk, Become
<1>4. /\ Emits(i) \in Nat /\ Emits(i) <= MaxLength
      /\ skip' \in 0..SkipBytes /\ limit' \in Nat /\ nextEmit' \in 0..Total
      /\ RangeOK' /\ ReadAheadBounded'
  BY <1>2, FlushedRange
<1>5. /\ task' \in [Task -> TaskType] /\ task'[i].st = "pushed"
      /\ task'[i].body = task[i].body /\ task[i].body \in Slot \union {Nothing}
      /\ \A j \in Task \ {i} : task'[j] = task[j]
  <2>1. task \in [Task -> TaskType] /\ task[i].body \in Slot \union {Nothing}
    BY <1>1, StreamTypes
  <2> QED BY <1>3, <2>1 DEF TaskType, State
<1>6. TaskOK(i) /\ pool.live[i] = task[i].body
  BY <1>1, <1>2 DEF TasksOK, TaskOK
<1>7. \A j \in Task : task[j].st = "pushed" => task'[j].st = "pushed" /\ j # i
  BY <1>2, <1>5
<1>9. ASSUME PoolOK(pool'), pool'.destroyed = pool.destroyed,
             \A j \in Task \ {i} : pool'.live[j] = pool.live[j], pool'.live[i] \in {pool.live[i], Nothing}
      PROVE  TasksOK'
  <2>0. Aborted' = Aborted
    BY <1>3, <1>9 DEF Aborted, Destroyed
  <2>1. ASSUME NEW j \in Task, j # i PROVE TaskOK(j)'
    <3>1. TaskOK(j) /\ task'[j] = task[j] /\ pool'.live[j] = pool.live[j]
      BY <1>1, <1>5, <1>9, <2>1 DEF TasksOK
    <3> QED BY <1>3, <1>9, <2>0, <3>1, TaskKept
  <2>2. TaskOK(i)'
    <3>1. ~(i >= nextDispatch) /\ (pool.live[i] # Nothing => content[pool.live[i]] = i)
      BY <1>2, <1>6 DEF TaskOK
    <3> QED BY <1>3, <1>5, <1>9, <3>1 DEF TaskOK
  <2> QED BY <2>1, <2>2 DEF TasksOK
<1>10. CASE Emits(i) = 0
  <2>1. pool' = Release(pool, i) /\ UNCHANGED <<pc, cur, queue, reading>>
    BY <1>2, <1>10 DEF FlushChunk
  <2>2. PoolOK(pool') /\ Released(pool, pool', {i})
    BY <1>1, <2>1, ReleaseFacts
  <2>3. /\ pool'.live[i] = Nothing /\ (\A j \in Task \ {i} : pool'.live[j] = pool.live[j])
        /\ pool'.destroyed = pool.destroyed /\ pool' \in Pool
    BY <2>2 DEF Released, PoolOK
  <2>4. TasksOK'
    BY <1>9, <2>2, <2>3
  <2>5. StreamTypeOK'
    <3>1. {paused', ended', reading', closed'} \subseteq BOOLEAN
      BY <1>1, <1>3, <2>1 DEF StreamTypeOK
    <3> QED BY <1>1, <1>3, <1>4, <1>5, <2>1, <2>3, <3>1 DEF StreamTypeOK, TaskType, Total
  <2>6. ChunksOK' /\ LedgerOK'
    <3>1. \A j \in Task : task[j].st = "pushed" => task'[j].st = "pushed" /\ pool'.live[j] = pool.live[j]
      BY <1>7, <2>3
    <3>2. Destroyed => Destroyed'
      BY <2>3 DEF Destroyed
    <3> QED BY <1>3, <2>1, <2>2, <3>1, <3>2, QuietStep DEF Released
  <2> QED BY <1>3, <1>4, <2>2, <2>4, <2>5, <2>6 DEF StreamIInv
<1>11. CASE Emits(i) # 0
  <2>1. /\ cur' = [idx |-> i, slot |-> task[i].body, len |-> Emits(i)] /\ queue' = Append(queue, cur')
        /\ reading' = FALSE /\ pc' = "record" /\ pool' = pool
    BY <1>2, <1>11 DEF FlushChunk
  <2>2. cur' \in Chunk /\ cur'.idx = i /\ cur'.slot = task[i].body /\ cur'.len = Emits(i)
    BY <1>4, <1>5, <2>1 DEF Chunk
  <2>3. LedgerOK' /\ Chunks' = Chunks \union {cur'} /\ queue' \in Seq(Chunk)
    BY <1>2, <1>3, <2>1, <2>2, PushedLine
  <2>4. TasksOK'
    BY <1>1, <1>9, <2>1
  <2>5. StreamTypeOK'
    <3>1. {paused', ended', reading', closed'} \subseteq BOOLEAN
      BY <1>1, <1>3, <2>1 DEF StreamTypeOK
    <3> QED BY <1>1, <1>3, <1>4, <1>5, <2>1, <2>2, <2>3, <3>1 DEF StreamTypeOK, TaskType, Total
  <2>6. ChunksOK'
    <3>1. ASSUME NEW c \in Chunks PROVE ChunkOK(c)'
      <4>1. c.idx \in Task /\ ChunkOK(c)
        BY <1>1, StreamTypes DEF ChunksOK
      <4> QED BY <1>7, <2>1, <4>1 DEF ChunkOK
    <3>0. PICK last : last = cur'
      OBVIOUS
    <3>2. ChunkOK(last)'
      <4>1. last.len \in 1..MaxLength
        BY <1>4, <1>11, <2>2, <3>0, StreamConstants
      <4> QED BY <1>5, <1>6, <2>1, <2>2, <3>0, <4>1 DEF ChunkOK
    <3>3. \A k \in DOMAIN pool'.fifo : task'[pool'.fifo[k].idx].st = "pushed"
      <4>1. \A k \in DOMAIN pool.fifo : pool.fifo[k].idx \in Task /\ task[pool.fifo[k].idx].st = "pushed"
        BY <1>1, StreamTypes DEF ChunksOK
      <4> QED BY <1>7, <2>1, <4>1
    <3>4. Len(down') <= Layers /\ pool'.maxSlot >= MaxLength
      BY <1>1, <1>3, <2>1 DEF ChunksOK
    <3> QED BY <1>5, <2>1, <2>2, <2>3, <3>0, <3>1, <3>2, <3>3, <3>4 DEF ChunksOK
  <2> QED BY <1>1, <1>3, <1>4, <2>1, <2>3, <2>4, <2>5, <2>6 DEF StreamIInv
<1> QED BY <1>10, <1>11

--------------------------------------------------------------------------------
(* The invariant of the stream *)

\* A stream that has fetched nothing has nothing to account for.
LEMMA StreamInitInv == StreamInit => StreamIInv
<1> SUFFICES ASSUME StreamInit PROVE StreamIInv
  OBVIOUS
<1> DEFINE none == <<>>
<1>0. none = <<>> /\ Len(none) = 0 /\ DOMAIN none = {} /\ Range(none) = {} /\ none \o none = none
  BY RangeMembers
<1>1. /\ task = [i \in Task |-> [st |-> "todo", slot |-> Nothing, body |-> Nothing]]
      /\ nextDispatch = 0 /\ nextEmit = 0 /\ inflight = 0 /\ paused = FALSE /\ ended = FALSE
      /\ content = [s \in Slot |-> Nothing]
      /\ skip = SkipBytes /\ limit \in Limits /\ pc = "idle" /\ cur = Nothing
      /\ queue = none /\ reading = FALSE /\ down = none /\ closed = FALSE
  BY DEF StreamInit
<1>2. /\ pool.free = none /\ pool.allocated = 0 /\ pool.live = [i \in Task |-> Nothing] /\ pool.fifo = none
      /\ pool.pushed = 0 /\ pool.maxSlot = InitialSlot /\ pool.bank = {} /\ pool.destroyed = FALSE
  BY DEF StreamInit, NewPool
<1>3. pool \in Pool
  <2> DEFINE E == [idx : Task, end : Nat]
  <2>1. none \in Seq(Slot) /\ none \in Seq(E)
    OBVIOUS
  <2>2. [i \in Task |-> Nothing] \in [Task -> Slot \union {Nothing}]
    OBVIOUS
  <2>3. InitialSlot \in Nat
    BY StreamConstants
  <2> HIDE DEF E, none
  <2>4. pool = [free |-> none, allocated |-> 0, live |-> [i \in Task |-> Nothing], fifo |-> none,
                pushed |-> 0, maxSlot |-> InitialSlot, bank |-> {}, destroyed |-> FALSE]
    BY DEF StreamInit, NewPool, none
  <2> QED BY <2>1, <2>2, <2>3, <2>4 DEF Pool, E
<1>4. task \in [Task -> TaskType]
  BY <1>1 DEF TaskType, State
<1> HIDE DEF none
<1>5. PoolOK(pool)
  <2>1. LiveSlots(pool) = {}
    BY <1>2, <1>3, LiveFacts
  <2>2. Cardinality(LiveSlots(pool)) = 0
    BY <2>1, FS_EmptySet
  <2>3. Distinct(pool.free)
    BY <1>0, <1>2 DEF Distinct
  <2> QED BY <1>0, <1>2, <1>3, <2>1, <2>2, <2>3, CapAssumption DEF PoolOK
<1>6. StreamTypeOK
  <2> DEFINE E == Chunk
  <2>1. none \in Seq(E)
    BY DEF none
  <2>2. 0 \in 0..Total /\ 0 \in 0..MaxConcurrency /\ SkipBytes \in 0..SkipBytes /\ limit \in Nat
    BY <1>1, StreamConstants
  <2>3. [s \in Slot |-> Nothing] \in [Slot -> Task \union {Nothing}]
    OBVIOUS
  <2> HIDE DEF E
  <2>4. queue \in Seq(E) /\ down \in Seq(E)
    BY <1>1, <2>1
  <2> QED BY <1>1, <1>3, <1>4, <2>2, <2>3, <2>4 DEF StreamTypeOK, TaskType, E
<1>7. TasksOK
  BY <1>1, <1>2 DEF TasksOK, TaskOK
<1>8. ChunksOK
  <2>1. Chunks = {} /\ DOMAIN pool.fifo = {} /\ Len(down) = 0 /\ pc # "record" /\ pool.maxSlot = InitialSlot
    BY <1>0, <1>1, <1>2 DEF Chunks
  <2> QED BY <2>1, StreamConstants DEF ChunksOK
<1>9. LedgerOK
  <2> DEFINE e == [k \in 0..0 |-> 0]
  <2>1. Len(Line) = 0 /\ 1..Len(Line) = {} /\ Pushed = 0
    BY <1>0, <1>1, <1>2 DEF Line, Pushed
  <2>2. (\A k \in 0..0 : e[k] \in Int) /\ e[0] = 0
    OBVIOUS
  <2> HIDE DEF e
  <2>3. Ends(e)
    BY <2>1, <2>2 DEF Ends
  <2> QED BY <2>3 DEF LedgerOK
<1>10. RangeOK
  <2>1. 0..(nextEmit - 1) = {}
    BY <1>1
  <2>2. Emitted = 0
    BY <2>1, SumEmpty DEF Emitted
  <2>3. Pushed = 0
    BY <1>1, <1>2 DEF Pushed
  <2> QED BY <1>1, <2>2, <2>3, StreamConstants DEF RangeOK, Larger, Smaller
<1>11. ReadAheadBounded
  <2>1. In("buffered") = {} /\ In("wire") \union In("decoded") = {}
    BY <1>1 DEF In
  <2>2. BufferedBytes = 0
    BY <2>1, BufferedSum, SumEmpty
  <2>3. Cardinality(In("wire") \union In("decoded")) = 0
    BY <2>1, FS_EmptySet
  <2>4. CouldHold = 0
    BY <1>1, <2>2, StreamConstants DEF CouldHold
  <2>5. MaxConcurrency * Longest \in Nat
    BY StreamConstants
  <2>6. 0 < MaxConcurrency * Longest + MaxBufferedBytes + TaskBytes
    BY <2>5, StreamConstants
  <2> QED BY <1>1, <2>3, <2>4, <2>6 DEF ReadAheadBounded
<1> QED BY <1>5, <1>6, <1>7, <1>8, <1>9, <1>10, <1>11 DEF StreamIInv

\* Nothing happens.
LEMMA StutterKeeps ==
  ASSUME StreamIInv, UNCHANGED streamVars
  PROVE  StreamIInv' /\ content' = content
<1>1. StreamTypeOK /\ PoolOK(pool) /\ TasksOK /\ RangeOK /\ ReadAheadBounded
  BY DEF StreamIInv
<1>2. UNCHANGED <<task, nextDispatch, nextEmit, inflight, paused, ended, pool, content, skip, limit, pc, cur,
                  queue, reading, down, closed>>
  BY DEF streamVars
<1>3. StreamTypeOK'
  BY <1>1, <1>2 DEF StreamTypeOK
<1>4. TasksOK'
  <2> SUFFICES ASSUME NEW j \in Task PROVE TaskOK(j)'
    BY DEF TasksOK
  <2>1. TaskOK(j) /\ (Aborted => Aborted')
    BY <1>1, <1>2 DEF TasksOK, Aborted, Destroyed
  <2> QED BY <1>2, <2>1, TaskKept
<1>5. ChunksOK' /\ LedgerOK'
  BY <1>2, QuietStep DEF Destroyed
<1>6. RangeOK'
  BY <1>1, <1>2, RangeKept
<1>7. ReadAheadBounded'
  <2>1. Aborted' = Aborted /\ \A x : In(x)' = In(x)
    BY <1>2 DEF Aborted, Destroyed, In
  <2> QED BY <1>1, <1>2, <2>1, AheadKept
<1> QED BY <1>1, <1>2, <1>3, <1>4, <1>5, <1>6, <1>7 DEF StreamIInv

\* Every step keeps the invariant, and writes into nothing but slots lent to
\* its own tasks. The write of another stream into what it took from the bank
\* leaves bytes that are none of this stream's.
LEMMA StreamStep ==
  ASSUME StreamIInv, [StreamNext]_streamVars
  PROVE  /\ StreamIInv'
         /\ \A s \in Slot : content'[s] \in {content[s], Nothing} \/ s \in LiveSlots(pool')
<1> DEFINE Writes == \A s \in Slot : content'[s] \in {content[s], Nothing} \/ s \in LiveSlots(pool')
<1>0. content' = content => Writes
  OBVIOUS
<1> HIDE DEF Writes
<1>1. ASSUME NEW i \in Task, Decode(i) PROVE StreamIInv' /\ Writes
  <2>1. /\ task[i].st = "wire" /\ ~Aborted /\ pc = "idle" /\ UNCHANGED restVars /\ DecodeInto(i, i, "decoded")
        /\ i \in Task \union {Nothing}
    BY <1>1 DEF Decode
  <2> QED BY <2>1, DecodeKeeps DEF Writes
<1>2. ASSUME NEW i \in Task, DecodeCorrupt(i) PROVE StreamIInv' /\ Writes
  <2>1. /\ task[i].st = "wire" /\ ~Aborted /\ pc = "idle" /\ UNCHANGED restVars /\ DecodeInto(i, Nothing, "wire")
        /\ Nothing \in Task \union {Nothing}
    BY <1>2 DEF DecodeCorrupt
  <2> QED BY <2>1, DecodeKeeps DEF Writes
<1>3. ASSUME NEW i \in Task, OwnedBody(i) PROVE StreamIInv' /\ Writes
  BY <1>0, <1>3, OwnedBodyKeeps DEF OwnedBody
<1>4. ASSUME NEW i \in Task, Complete(i) PROVE StreamIInv' /\ Writes
  BY <1>0, <1>4, CompleteKeeps DEF Complete
<1>5. ASSUME NEW i \in Task, Pad(i) PROVE StreamIInv' /\ Writes
  BY <1>0, <1>5, PadKeeps DEF Pad
<1>6. ASSUME NEW i \in Task, Fail(i) PROVE StreamIInv' /\ Writes
  BY <1>0, <1>6, FailKeeps
<1>7. ASSUME NEW i \in Task, AbandonTask(i) PROVE StreamIInv' /\ Writes
  BY <1>0, <1>7, AbandonTaskKeeps DEF AbandonTask
<1>8. ASSUME NEW i \in Task, Lands(i) PROVE StreamIInv' /\ Writes
  BY <1>0, <1>8, LandsKeeps
<1>9. CASE Runs
  <2>1. CASE FlushChunk
    BY <1>0, <2>1, FlushChunkKeeps
  <2>2. CASE RecordChunk
    BY <1>0, <2>2, RecordChunkKeeps
  <2>3. CASE FlushDone
    BY <1>0, <2>3, FlushDoneKeeps DEF FlushDone
  <2>4. CASE StartTask
    BY <1>0, <2>4, StartTaskKeeps DEF StartTask
  <2>5. CASE DispatchDone
    BY <1>0, <2>5, DispatchDoneKeeps DEF DispatchDone
  <2> QED BY <1>9, <2>1, <2>2, <2>3, <2>4, <2>5 DEF Runs, Writes
<1>10. CASE Read
  BY <1>0, <1>10, ReadKeeps DEF Writes
<1>11. CASE Deliver
  BY <1>0, <1>11, DeliverKeeps DEF Deliver, Writes
<1>12. CASE Consume
  BY <1>0, <1>12, ConsumeKeeps DEF Consume, Writes
<1>13. CASE Destroy
  BY <1>0, <1>13, DestroyKeeps DEF Writes
<1>14. CASE Close
  BY <1>0, <1>14, CloseKeeps DEF Writes
<1>15. CASE OtherStream
  BY <1>15, OtherStreamKeeps DEF Writes
<1>16. CASE UNCHANGED streamVars
  BY <1>0, <1>16, StutterKeeps DEF Writes
<1>17. CASE \E i \in Task : Settles(i) \/ DecodeCorrupt(i) \/ Lands(i)
  <2>1. PICK i \in Task : Settles(i) \/ DecodeCorrupt(i) \/ Lands(i)
    BY <1>17
  <2>2. StreamIInv' /\ Writes
    BY <2>1, <1>1, <1>2, <1>3, <1>4, <1>5, <1>6, <1>7, <1>8 DEF Settles
  <2> QED BY <2>2 DEF Writes
<1> QED BY <1>9, <1>10, <1>11, <1>12, <1>13, <1>14, <1>15, <1>16, <1>17 DEF StreamNext, Writes

\* The inductive invariant of the serve path's stream: what the pool has lent
\* to each task, where each pushed chunk ends, how much of the range is out.
THEOREM StreamInvariance == StreamSpec => []StreamIInv
<1>1. StreamIInv /\ [StreamNext]_streamVars => StreamIInv'
  BY StreamStep
<1> QED BY StreamInitInv, <1>1, PTL DEF StreamSpec

--------------------------------------------------------------------------------
(* The properties *)

\* ChunksIntact: recycling a slot never reaches bytes somebody will still read
\* (SlotPool.reclaim, the consumption lag and the bank).
THEOREM StreamChunksIntact == StreamSpec => []ChunksIntact
<1>1. StreamIInv => ChunksIntact
  <2> SUFFICES ASSUME StreamIInv PROVE ChunksIntact
    OBVIOUS
  <2>1. StreamTypeOK /\ PoolOK(pool) /\ TasksOK /\ ChunksOK
    BY DEF StreamIInv
  <2>2. ASSUME NEW c \in Range(queue) \union Range(down), c.slot # Nothing PROVE content[c.slot] = c.idx
    <3>1. c \in Chunks /\ c.idx \in Task /\ ChunkOK(c)
      BY <2>1, <2>2, StreamTypes DEF Chunks, ChunksOK
    <3>2. task[c.idx].st = "pushed" /\ pool.live[c.idx] = c.slot /\ TaskOK(c.idx)
      BY <2>1, <2>2, <3>1 DEF ChunkOK, TasksOK
    <3> QED BY <2>2, <3>2 DEF TaskOK
  <2>3. ASSUME NEW i \in Task, task[i].st \in {"decoded", "buffered"}, task[i].body # Nothing
        PROVE  content[task[i].body] = i
    <3>1. TaskOK(i)
      BY <2>1 DEF TasksOK
    <3> QED BY <2>3, <3>1 DEF TaskOK
  <2> QED BY <2>2, <2>3 DEF ChunksIntact
<1> QED BY <1>1, StreamInvariance, PTL

\* As many elements as places.
LEMMA DistinctCount ==
  ASSUME NEW S, NEW q \in Seq(S), Distinct(q)
  PROVE  Cardinality(Range(q)) = Len(q)
<1>1. Len(q) \in Nat /\ DOMAIN q = 1..Len(q) /\ q \in [1..Len(q) -> S]
  OBVIOUS
<1>2. Range(q) = {q[i] : i \in 1..Len(q)}
  BY <1>1, RangeMembers
<1>3. q \in Bijection(1..Len(q), Range(q))
  <2>1. q \in [1..Len(q) -> Range(q)]
    BY <1>1, <1>2
  <2>2. q \in Injection(1..Len(q), Range(q))
    BY <1>1, <2>1 DEF Injection, IsInjective, Distinct
  <2>3. q \in Surjection(1..Len(q), Range(q))
    BY <1>2, <2>1 DEF Surjection
  <2> QED BY <2>2, <2>3 DEF Bijection
<1>4. IsFiniteSet(1..Len(q)) /\ Cardinality(1..Len(q)) = Len(q)
  BY <1>1, FS_Interval
<1>5. Cardinality(Range(q)) = Cardinality(1..Len(q))
  <2>1. ExistsBijection(1..Len(q), Range(q))
    BY <1>3 DEF ExistsBijection
  <2> QED BY <1>4, <2>1, FS_Bijection
<1> QED BY <1>4, <1>5

\* PoolAccounted: acquire, release, reclaim, destroy and retire keep the count
\* of slots exact, and no slot has two owners.
THEOREM StreamPoolAccounted == StreamSpec => []PoolAccounted
<1>1. StreamIInv => PoolAccounted
  <2> SUFFICES ASSUME StreamIInv PROVE PoolAccounted
    OBVIOUS
  <2>1. PoolOK(pool)
    BY DEF StreamIInv
  <2>2. pool.free \in Seq(Slot)
    BY <2>1 DEF PoolOK, Pool
  <2>3. Cardinality(Range(pool.free)) = Len(pool.free)
    BY <2>1, <2>2, DistinctCount DEF PoolOK
  <2> QED BY <2>1, <2>3 DEF PoolOK, PoolAccounted, Destroyed
<1> QED BY <1>1, StreamInvariance, PTL

\* What has been emitted is part of what there is, and all of it at the end.
LEMMA EmittedOf ==
  ASSUME nextEmit \in 0..Total
  PROVE  /\ Emitted \in Nat /\ SumOf(Length, Task) \in Nat /\ Emitted <= SumOf(Length, Task)
         /\ nextEmit = Total => Emitted = SumOf(Length, Task)
<1>1. PICK R : R = 0..(nextEmit - 1)
  OBVIOUS
<1>2. IsFiniteSet(Task) /\ (\A x \in Task : Length[x] \in Nat) /\ R \in SUBSET Task /\ Emitted = SumOf(Length, R)
  BY <1>1, StreamConstants DEF Emitted
<1>3. IsFiniteSet(R) /\ IsFiniteSet(Task \ R)
  BY <1>2, FS_Subset
<1>4. SumOf(Length, Task) = SumOf(Length, R) + SumOf(Length, Task \ R)
  BY <1>2, SumSplit
<1>5. \A T \in SUBSET Task : IsFiniteSet(T) => SumOf(Length, T) \in Nat
  <2> SUFFICES ASSUME NEW T \in SUBSET Task, IsFiniteSet(T) PROVE SumOf(Length, T) \in Nat
    OBVIOUS
  <2> QED BY <1>2, SumType
<1>6. nextEmit = Total => R = Task
  BY <1>1, StreamConstants
<1>7. SumOf(Length, R) \in Nat /\ SumOf(Length, Task \ R) \in Nat
  BY <1>2, <1>3, <1>5
<1> QED BY <1>2, <1>4, <1>6, <1>7

\* RangeSound: the end of the stream is the end of the range, and the read-ahead
\* budget and the count of downloads in flight hold (flush, dispatch).
THEOREM StreamRangeSound == StreamSpec => []RangeSound
<1>1. StreamIInv => RangeSound
  <2> SUFFICES ASSUME StreamIInv PROVE RangeSound
    OBVIOUS
  <2>1. StreamTypeOK /\ PoolOK(pool) /\ RangeOK /\ ReadAheadBounded
    BY DEF StreamIInv
  <2> DEFINE S == SumOf(Length, Task)
  <2>2. MapThenSumSet(LAMBDA i : Length[i], Task) = S
    BY DEF SumOf, MapThenSumSet, MapThenFoldSet
  <2>3. nextEmit \in 0..Total /\ limit \in Nat /\ pool.pushed \in Nat
    BY <2>1, StreamTypes DEF StreamTypeOK
  <2>4. /\ Emitted \in Nat /\ S \in Nat /\ Emitted <= S
        /\ nextEmit = Total => Emitted = S
    BY <2>3, EmittedOf
  <2> HIDE DEF S
  <2>5. EofComplete
    <3> SUFFICES ASSUME ended PROVE pool.pushed = RangeBytes
      BY DEF EofComplete
    <3>1. /\ pc # "record" /\ (limit = 0 \/ nextEmit = Total)
          /\ Pushed = Smaller(Pushed + limit, Larger(0, Emitted - SkipBytes))
      BY <2>1 DEF RangeOK
    <3>2. Pushed = pool.pushed
      BY <2>3, <3>1 DEF Pushed
    <3>3. pool.pushed = Smaller(pool.pushed + limit, Larger(0, Emitted - SkipBytes))
      BY <3>1, <3>2
    <3>4. SkipBytes \in Nat /\ (limit = 0 \/ Emitted = S)
      BY <2>4, <3>1, StreamConstants
    <3>5. pool.pushed = Smaller(pool.pushed + limit, Larger(0, S - SkipBytes))
      BY <2>3, <2>4, <3>3, <3>4 DEF Smaller, Larger
    <3> QED BY <2>2, <3>5 DEF RangeBytes
  <2> QED BY <2>1, <2>5 DEF RangeSound
<1> QED BY <1>1, StreamInvariance, PTL

\* NoLateWrite: nothing of this stream, a download it abandoned included, writes
\* into a slot the bank has (fetchBody asks the signal before it decodes).
THEOREM StreamNoLateWrite == StreamSpec => NoLateWrite
<1>1. StreamIInv /\ [StreamNext]_streamVars
        => \A s \in pool.bank \intersect pool.bank' : content'[s] \in {content[s], Nothing}
  <2> SUFFICES ASSUME StreamIInv, [StreamNext]_streamVars, NEW s \in pool.bank \intersect pool.bank'
               PROVE  content'[s] \in {content[s], Nothing}
    OBVIOUS
  <2>1. PoolOK(pool) /\ PoolOK(pool')
    BY StreamStep DEF StreamIInv
  <2>2. s \in Slot
    BY <2>1 DEF PoolOK, Pool
  <2>3. s \notin LiveSlots(pool')
    BY <2>1 DEF PoolOK
  <2> QED BY <2>2, <2>3, StreamStep
<1>2. StreamIInv /\ [StreamNext]_streamVars
        => [\A s \in pool.bank \intersect pool.bank' : content'[s] \in {content[s], Nothing}]_streamVars
  BY <1>1
<1> QED BY <1>2, StreamInvariance, PTL DEF StreamSpec, NoLateWrite

================================================================================
