----------------------------- MODULE SegmentFailover -----------------------------
(***************************************************************************)
(* LocalSegmentFetcher (usenet/nntp/segment-fetcher.ts): one article is    *)
(* asked of the providers in order until one delivers it; what the others  *)
(* answered decides between "missing", "corrupt" and "unavailable"; and a  *)
(* per-release record of the answers moves providers that miss much of the *)
(* release to the back.                                                    *)
(*                                                                         *)
(* The worker pools are external: each may have its breaker tripped when a *)
(* call starts, and answers a request in any of the ways that              *)
(* ProviderWorkerPool and the NNTP connection settle one. All calls are of *)
(* one release. Order by priority, load and latency is any order in a tier.*)
(***************************************************************************)
EXTENDS Integers, Sequences, FiniteSets, SequencesExt

CONSTANTS
  Provider,    \* the enabled providers
  Backup,      \* isBackup
  Call,        \* bound: calls under way at once
  MinSamples,  \* AFFINITY_MIN_SAMPLES
  DemotePct,   \* AFFINITY_DEMOTE_RATIO, in percent
  RecoverPct,  \* AFFINITY_RECOVER_RATIO, in percent
  MaxSamples,  \* bound: outcomes counted per provider
  None

ASSUME ProviderAssumption == IsFiniteSet(Provider) /\ Provider # {} /\ Backup \subseteq Provider
ASSUME RatioAssumption ==
  /\ {MinSamples, DemotePct, RecoverPct, MaxSamples} \subseteq Nat /\ MinSamples > 0
  /\ RecoverPct < DemotePct /\ DemotePct <= 100

ASSUME NoneAssumption ==
  None \notin {"served", "missing", "corrupt", "unreachable", "transient", "fatal", "unavailable", "unanswered", "aborted"}

VARIABLES
  call,     \* per call: see Calls
  affinity  \* per provider: [served, missed, demoted] for the release

vars == <<call, affinity>>

\* How a request to one provider can settle: the body (or "present") comes; a
\* 430 (or "absent"); a copy that does not decode; no login; a transport
\* failure; any other error.
Answer == {"served", "missing", "corrupt", "unreachable", "transient", "fatal"}
Definitive == {"missing", "corrupt"}

\* `up` is what was not tripped at the start and `asked` what each provider said.
Calls == [st     : {"idle", "asking", "done"},
          stat   : BOOLEAN,              \* statSegmentDetailed, not submitWithFailover
          up     : SUBSET Provider,
          only   : SUBSET Provider,      \* providerIds of a STAT, all of them otherwise
          todo   : Seq(Provider),        \* the provider asked now, then the ones after it
          asked  : [Provider -> Answer \union {None}],
          aborted : BOOLEAN,
          result : {None, "served", "missing", "corrupt", "unavailable", "unanswered", "aborted", "fatal"},
          final  : BOOLEAN]              \* allProviders, terminal
Idle == [st |-> "idle", stat |-> FALSE, up |-> {}, only |-> Provider, todo |-> <<>>,
         asked |-> [p \in Provider |-> None], aborted |-> FALSE, result |-> None, final |-> FALSE]
Unrated == [served |-> 0, missed |-> 0, demoted |-> FALSE]

TypeOK ==
  /\ call \in [Call -> Calls]
  /\ \A f \in Call : /\ IsInjective(call[f].todo)
                     /\ \A p \in ToSet(call[f].todo) : call[f].asked[p] = None
                     /\ call[f].st = "asking" <=> call[f].todo # <<>>
                     /\ call[f].st = "done" <=> call[f].result # None
  /\ affinity \in [Provider -> [served : 0..MaxSamples, missed : 0..MaxSamples, demoted : BOOLEAN]]

Init ==
  /\ call = [f \in Call |-> Idle]
  /\ affinity = [p \in Provider |-> Unrated]

--------------------------------------------------------------------------------
(* The order of the providers *)

\* orderProviders: the healthy ones of a tier, or all of it when none is.
Tier(ps, up) == IF ps \intersect up # {} THEN ps \intersect up ELSE ps

\* orderedCandidates: primaries, backups, and behind them what is demoted.
Candidates_Dropped(up) == {p \in Tier(Provider \ Backup, up) \union Tier(Backup, up) : ~affinity[p].demoted}
Candidates(up) == Tier(Provider \ Backup, up) \union Tier(Backup, up)
Place(p) == (IF affinity[p].demoted THEN 2 ELSE 0) + (IF p \in Backup THEN 1 ELSE 0)

\* In that order, those that `only` leaves.
Orders(up, only) ==
  {list \in SetToSeqs(Candidates(up) \intersect only) :
     \A i, j \in DOMAIN list : i < j => Place(list[i]) <= Place(list[j])}

--------------------------------------------------------------------------------
(* ProviderAffinity.record *)

\* With hysteresis between the two ratios.
Rated(served, missed, demoted) ==
  LET n == served + missed IN
  [served |-> served, missed |-> missed,
   demoted |-> IF demoted THEN missed * 100 > RecoverPct * n
                          ELSE n >= MinSamples /\ missed * 100 >= DemotePct * n]

\* A STAT's "present" is not counted: some servers say so of what they lack.
Counted_EveryStat(stat, answer) == answer \in {"served"} \union Definitive
Counted(stat, answer) == answer \in Definitive \/ (answer = "served" /\ ~stat)

Record(p, stat, answer) ==
  LET a == affinity[p] IN
  IF Counted(stat, answer) /\ a.served + a.missed < MaxSamples
    THEN affinity' = [affinity EXCEPT ![p] =
           IF answer = "served" THEN Rated(a.served + 1, a.missed, a.demoted)
                                ELSE Rated(a.served, a.missed + 1, a.demoted)]
    ELSE UNCHANGED affinity

\* AFFINITY_TTL_MS, or room made for another release.
Expire ==
  /\ affinity' = [p \in Provider |-> Unrated]
  /\ UNCHANGED call

--------------------------------------------------------------------------------
(* The failover loop *)

\* A STAT that nobody is left for is not answered, which is no failure.
Started(up, stat, only, order) ==
  [Idle EXCEPT !.st = IF order # <<>> THEN "asking" ELSE "done", !.stat = stat, !.up = up, !.only = only,
               !.todo = order, !.result = IF order # <<>> THEN None ELSE "unanswered"]

Start(f, up, stat, only) ==
  /\ call[f].st = "idle"
  /\ ~stat => only = Provider
  /\ \E order \in Orders(up, only) : call' = [call EXCEPT ![f] = Started(up, stat, only, order)]
  /\ UNCHANGED affinity

Abort(f) ==
  /\ call[f].st = "asking" /\ ~call[f].aborted
  /\ call' = [call EXCEPT ![f].aborted = TRUE]
  /\ UNCHANGED affinity

Said(asked, answers) == \E p \in Provider : asked[p] \in answers

\* What the loop throws when nobody delivered.
Exhausted_DespiteLogins(asked) == ~Said(asked, {"transient"})
Exhausted(asked) == ~Said(asked, {"transient", "unreachable"})
Verdict(asked) ==
  IF ~Said(asked, Definitive) THEN "unavailable" ELSE IF Said(asked, {"corrupt"}) THEN "corrupt" ELSE "missing"

Settle(f, c, result, final) ==
  call' = [call EXCEPT ![f] = [c EXCEPT !.st = "done", !.todo = <<>>, !.result = result, !.final = final]]

\* The rest of the providers, behind the one that answered.
Rest(todo) == Tail(todo)

Continue(f, c) ==
  IF Len(c.todo) > 1
    THEN call' = [call EXCEPT ![f] = [c EXCEPT !.todo = Rest(c.todo)]]
    ELSE Settle(f, c, Verdict(c.asked), Said(c.asked, Definitive) /\ Exhausted(c.asked))

\* One provider answers a body request. An abort ends the loop unless the body
\* came; an error of no known kind ends it at once.
BodyAnswered(f, answer) ==
  LET p == Head(call[f].todo)
      c == [call[f] EXCEPT !.asked[p] = answer] IN
  /\ call[f].st = "asking" /\ ~call[f].stat
  /\ \/ answer = "served" /\ Settle(f, c, "served", FALSE)
     \/ answer # "served" /\ c.aborted /\ Settle(f, c, "aborted", FALSE)
     \/ answer = "fatal" /\ ~c.aborted /\ Settle(f, c, "fatal", FALSE)
     \/ answer \notin {"served", "fatal"} /\ ~c.aborted /\ Continue(f, c)
  /\ IF c.aborted /\ answer # "served" THEN UNCHANGED affinity ELSE Record(p, FALSE, answer)

\* One provider answers a STAT: any error, an abort's too, moves on. It reports
\* "missing" once anybody said so, and claims nothing of the others.
StatAnswered(f, answer) ==
  LET p == Head(call[f].todo)
      c == [call[f] EXCEPT !.asked[p] = answer] IN
  /\ call[f].st = "asking" /\ call[f].stat /\ answer # "corrupt"
  /\ answer \in {"served", "missing"} => ~c.aborted
  /\ IF answer = "served" THEN Settle(f, c, "served", FALSE)
     ELSE IF Len(c.todo) > 1 THEN call' = [call EXCEPT ![f] = [c EXCEPT !.todo = Rest(c.todo)]]
     ELSE Settle(f, c, Verdict(c.asked), FALSE)
  /\ Record(p, TRUE, answer)

Return(f) ==
  /\ call[f].st = "done"
  /\ call' = [call EXCEPT ![f] = Idle]
  /\ UNCHANGED affinity

Next ==
  \/ \E f \in Call :
       \/ \E up, only \in SUBSET Provider, stat \in BOOLEAN : Start(f, up, stat, only)
       \/ \E answer \in Answer : BodyAnswered(f, answer) \/ StatAnswered(f, answer)
       \/ Abort(f) \/ Return(f)
  \/ Expire

Spec == Init /\ [][Next]_vars

--------------------------------------------------------------------------------
(* Properties *)

Failed(f) == call[f].result \in {"missing", "corrupt", "unavailable", "unanswered"}
Final(f) == call[f].st = "done" /\ call[f].final

\* "a transport/capacity problem never reads as missing": a final verdict needs a
\* definitive answer of every provider that was asked, a verdict of any kind one.
VerdictsHonest ==
  \A f \in Call :
    /\ Final(f) => \A p \in Provider : call[f].asked[p] \in Definitive \union {None}
    /\ call[f].result \in Definitive => Said(call[f].asked, {call[f].result})
    /\ call[f].result = "unavailable" => ~Said(call[f].asked, Definitive)

\* "every fetch still falls through the full provider list": a call fails, or says
\* that nobody answered, only after it asked every provider that was healthy when
\* it started and that the caller allows, the demoted and the backup ones
\* included; and it asks none that the caller leaves out.
AsksEveryHealthyProvider ==
  \A f \in Call :
    /\ Failed(f) => \A p \in call[f].up \intersect call[f].only : call[f].asked[p] # None
    /\ \A p \in Provider \ call[f].only : call[f].asked[p] = None

LoopSound == TypeOK /\ AsksEveryHealthyProvider

\* A demoted provider comes back to the front only by a body it delivers, never by
\* a STAT's promise, or when the record expires.
OnlyBodiesRehabilitate ==
  [][\A p \in Provider :
       affinity[p].demoted /\ ~affinity[p].demoted' =>
         \/ \A q \in Provider : affinity'[q] = Unrated
         \/ \E f \in Call : ~call[f].stat /\ call[f].asked[p] = None /\ call'[f].asked[p] = "served"]_vars
================================================================================
