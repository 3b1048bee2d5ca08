------------------------------ MODULE SegmentFetch ------------------------------
(***************************************************************************)
(* The single-flight fetch coordinator of the Usenet engine                *)
(* (fetchSegmentShared / runShared / runFetch of                           *)
(* usenet/pool/multi-provider-pool.ts) with the arena, the disk tier and   *)
(* the download budget it drives. Callers of one message-id share one      *)
(* flight; each gets its own pin; the last caller to abort cancels it.     *)
(*                                                                         *)
(* An action is one synchronous stretch of the code between two awaits.    *)
(* Providers are external: on the wire a flight asks its candidates one    *)
(* after the other (fetchBody of segment-fetcher.ts), and each answers, or *)
(* fails to, on its own.                                                   *)
(***************************************************************************)
EXTENDS SegmentArena

CONSTANTS
  Flight,      \* bound: flights alive at once, dying ones included
  MaxPermits,  \* of the download budget
  Provider,    \* the configured providers
  Steady,      \* those whose breaker never trips, so that they are always candidates
  Copies       \* the providers that hold a whole copy of a segment

ASSUME FlightAssumption == None \notin Flight \union Slot \union Id
ASSUME BudgetOfPermits  == MaxPermits \in Nat \ {0}
ASSUME CopiesAssumption == Steady \subseteq Provider /\ Copies \in [Id -> SUBSET Provider]

VARIABLES
  limit, inUse, waiters, lowAcc, granting, handle, bypassed,  \* the budget
  flight,   \* per flight: id, phase, ctl aborted, lease, body in the lease, waiters
  inflight, \* sharedInflight
  running,  \* the flight inside a synchronous stretch of several actions
  caller,   \* per caller: where its request stands, and for which segment
  disk,     \* segments on the disk tier
  missed,   \* the negative cache
  walk      \* per flight on the wire: the providers asked, and what they came to

arenaVars == vars
budgetVars == <<limit, inUse, waiters, lowAcc, granting, handle, bypassed>>
ownVars == <<flight, inflight, running, caller, disk, missed, walk>>
fetchVars == <<arenaVars, budgetVars, ownVars>>

\* A caller has one request or pin at a time, so its pin handle names it.
Caller == Handle

Download == INSTANCE PrioritySemaphore WITH Client <- Flight, LowOdds <- 0, ThrottleTo <- {}

NoFlight == [id |-> None, phase |-> "idle", aborted |-> FALSE, lease |-> None,
             inSlot |-> FALSE, waiters |-> {}]

NoWalk == [asked |-> {}, heard |-> {}]

Phase == {"idle", "disk", "reading", "fetch", "landed", "failed"}

FetchTypeOK ==
  /\ TypeOK
  /\ flight \in [Flight -> [id : Id \union {None}, phase : Phase, aborted : BOOLEAN,
                            lease : Slot \union {None}, inSlot : BOOLEAN,
                            waiters : SUBSET Caller]]
  /\ inflight \in [Id -> Flight \union {None}]
  /\ running \in Flight \union {None}
  /\ caller \in [Caller -> [st : {"idle", "waiting", "served", "failed"}, id : Id \union {None}]]
  /\ disk \subseteq Id
  /\ missed \subseteq Id
  /\ walk \in [Flight -> [asked : SUBSET Provider, heard : SUBSET {"loss", "trouble"}]]

FetchInit ==
  /\ Init
  /\ Download!Init
  /\ flight = [f \in Flight |-> NoFlight]
  /\ inflight = [m \in Id |-> None]
  /\ running = None
  /\ caller = [c \in Caller |-> [st |-> "idle", id |-> None]]
  /\ disk = {}
  /\ missed = {}
  /\ walk = [f \in Flight |-> NoWalk]

Active(f) == flight[f].phase # "idle"
OnWire(f) == flight[f].phase = "fetch" /\ handle[f] = "held"
Put(c, st, m) == caller' = [caller EXCEPT ![c] = [st |-> st, id |-> m]]

\* Each waiter of a settling flight is answered.
Answer(C, st) == caller' = [c \in Caller |-> IF c \in C THEN [caller[c] EXCEPT !.st = st] ELSE caller[c]]

--------------------------------------------------------------------------------
(* fetchSegmentShared *)

Free(c) == caller[c].st \in {"idle", "failed"}

RequestHit(c, m) ==
  /\ running = None /\ Free(c)
  /\ Acquire(m, c)
  /\ Put(c, "served", m)
  /\ UNCHANGED <<budgetVars, flight, inflight, running, disk, missed, walk>>

RequestMissed(c, m) ==
  /\ running = None /\ Free(c)
  /\ Cached(m) = {} /\ m \in missed
  /\ Put(c, "failed", m)
  /\ UNCHANGED <<arenaVars, budgetVars, flight, inflight, running, disk, missed, walk>>

Joinable(m) == {f \in Flight : inflight[m] = f}

RequestJoin(c, m) ==
  /\ running = None /\ Free(c)
  /\ Cached(m) = {} /\ m \notin missed
  /\ \E f \in Joinable(m) : flight' = [flight EXCEPT ![f].waiters = @ \union {c}]
  /\ Put(c, "waiting", m)
  /\ UNCHANGED <<arenaVars, budgetVars, inflight, running, disk, missed, walk>>

RequestNew(c, m) ==
  /\ running = None /\ Free(c)
  /\ Cached(m) = {} /\ m \notin missed /\ Joinable(m) = {}
  /\ \E f \in Flight :
       /\ ~Active(f)
       /\ flight' = [flight EXCEPT ![f] = [NoFlight EXCEPT !.id = m, !.phase = "disk", !.waiters = {c}]]
       /\ inflight' = [inflight EXCEPT ![m] = f]
  /\ Put(c, "waiting", m)
  /\ UNCHANGED <<arenaVars, budgetVars, running, disk, missed, walk>>

\* A reader is done with its segment: an owned body has no pin to release.
Done(c) ==
  /\ running = None /\ caller[c].st = "served"
  /\ IF pins[c] # None THEN ReleasePin(c) ELSE UNCHANGED arenaVars
  /\ Put(c, "idle", None)
  /\ UNCHANGED <<budgetVars, flight, inflight, running, disk, missed, walk>>

\* A flight leaves the index, unless a newer one took its place.
Unregister_Blind(f) == inflight' = [inflight EXCEPT ![flight[f].id] = None]
Unregister(f) ==
  inflight' = [inflight EXCEPT ![flight[f].id] = IF @ = f THEN None ELSE @]

\* Whether a departing waiter cancels the flight.
Cancels_Always(f, c) == TRUE
Cancels(f, c) == flight[f].waiters = {c}

\* The caller's signal aborts. The last one out deregisters the flight before
\* aborting it, and an acquire still queued at the budget is withdrawn.
AbortCaller(c) ==
  /\ running = None /\ caller[c].st = "waiting"
  /\ \E f \in Flight :
       /\ c \in flight[f].waiters
       /\ IF Cancels(f, c)
            THEN /\ Unregister(f)
                 /\ IF handle[f] = "queued"
                      THEN /\ Download!Abort(f)
                           /\ flight' = [flight EXCEPT ![f].waiters = @ \ {c}, ![f].aborted = TRUE,
                                                       ![f].phase = "failed"]
                      ELSE /\ flight' = [flight EXCEPT ![f].waiters = @ \ {c}, ![f].aborted = TRUE]
                           /\ UNCHANGED budgetVars
            ELSE /\ flight' = [flight EXCEPT ![f].waiters = @ \ {c}]
                 /\ UNCHANGED <<inflight, budgetVars>>
  /\ Put(c, "failed", caller[c].id)
  /\ UNCHANGED <<arenaVars, running, disk, missed, walk>>

--------------------------------------------------------------------------------
(* runShared and runFetch *)

\* The disk index knows the segment: its file is read.
DiskFound(f) ==
  /\ running = None /\ flight[f].phase = "disk" /\ flight[f].id \in disk
  /\ flight' = [flight EXCEPT ![f].phase = "reading"]
  /\ UNCHANGED <<arenaVars, budgetVars, inflight, running, caller, disk, missed, walk>>

\* The read succeeds (and indexes the segment again): the body is promoted into
\* a leased slot when one is to be had, and delivered in the same stretch.
DiskHit(f) ==
  /\ running = None /\ flight[f].phase = "reading"
  /\ \E need \in Need :
       \/ \E s \in Slot :
            /\ Lease(need, s)
            /\ content' = [content EXCEPT ![s] = flight[f].id]
            /\ flight' = [flight EXCEPT ![f].phase = "landed", ![f].lease = s, ![f].inSlot = TRUE]
       \/ /\ CheckoutFails(need)
          /\ flight' = [flight EXCEPT ![f].phase = "landed"]
  /\ running' = f
  /\ disk' = disk \union {flight[f].id}
  /\ UNCHANGED <<budgetVars, inflight, caller, missed, walk>>

\* A walk over the providers starts with nobody asked, and leaves nothing behind.
FreshWalk(f) == walk' = [walk EXCEPT ![f] = NoWalk]

\* Not indexed, or unreadable and dropped from the index: the fetch asks the
\* budget, unless the flight was cancelled.
DiskMiss(f) ==
  /\ running = None
  /\ \/ flight[f].phase = "disk" /\ flight[f].id \notin disk
     \/ flight[f].phase = "reading"
  /\ disk' = disk \ {flight[f].id}
  /\ IF flight[f].aborted
       THEN flight' = [flight EXCEPT ![f].phase = "failed"] /\ UNCHANGED budgetVars
       ELSE /\ flight' = [flight EXCEPT ![f].phase = "fetch"]
            /\ Download!AcquireNow(f) \/ Download!AcquireQueued(f, Download!High)
  /\ FreshWalk(f)
  /\ UNCHANGED <<arenaVars, inflight, running, caller, missed>>

\* decodeArticle on the leased slot, taken lazily and kept across failover
\* attempts; `m` is what ends up in it. Without a slot the body is owned.
DecodeInto(f, m, ph) ==
  \E need \in Need :
    \/ /\ flight[f].lease = None
       /\ \E s \in Slot :
            /\ Lease(need, s)
            /\ content' = [content EXCEPT ![s] = m]
            /\ flight' = [flight EXCEPT ![f].lease = s, ![f].inSlot = TRUE, ![f].phase = ph]
    \/ /\ flight[f].lease = None
       /\ CheckoutFails(need)
       /\ flight' = [flight EXCEPT ![f].phase = ph]
    \/ /\ flight[f].lease # None
       /\ Decode(flight[f].lease, m)
       /\ flight' = [flight EXCEPT ![f].inSlot = TRUE, ![f].phase = ph]

\* The candidates of a walk, drawn up once the permit is there: whoever is
\* tripped then may be left out, and a tier that is tripped as a whole is asked
\* all the same. Which set it was shows when the walk ends.
CandidateSets == {C \in SUBSET Provider : Steady \subseteq C /\ (C = {} => Provider = {})}

\* A candidate came to nothing, and the next one is asked.
Asked(f, p, what) ==
  walk' = [walk EXCEPT ![f] = [asked |-> @.asked \union {p}, heard |-> @.heard \union {what}]]

\* One provider's copy does not decode.
WireCorrupt(f, p) ==
  /\ running = None /\ OnWire(f) /\ ~flight[f].aborted
  /\ p \notin walk[f].asked \union Copies[flight[f].id]
  /\ DecodeInto(f, None, "fetch")
  /\ Asked(f, p, "loss")
  /\ UNCHANGED <<budgetVars, inflight, running, caller, disk, missed>>

\* One provider does not have the article.
WireMissing(f, p) ==
  /\ running = None /\ OnWire(f) /\ ~flight[f].aborted
  /\ p \notin walk[f].asked \union Copies[flight[f].id]
  /\ Asked(f, p, "loss")
  /\ UNCHANGED <<arenaVars, budgetVars, flight, inflight, running, caller, disk, missed>>

\* One provider, whether it has the article or not, cannot be reached, refuses
\* the login or the connection, times out or drops the transfer.
WireTrouble(f, p) ==
  /\ running = None /\ OnWire(f) /\ ~flight[f].aborted
  /\ p \notin walk[f].asked
  /\ Asked(f, p, "trouble")
  /\ UNCHANGED <<arenaVars, budgetVars, flight, inflight, running, caller, disk, missed>>

\* Every way off the wire returns the permit.
ReturnsPermit_Never(f) == UNCHANGED budgetVars
ReturnsPermit(f) == Download!Release(f)

\* The body decodes: written through to disk, permit returned.
WireServes(f, p) ==
  /\ running = None /\ OnWire(f) /\ ~flight[f].aborted
  /\ p \in Copies[flight[f].id] \ walk[f].asked
  /\ DecodeInto(f, flight[f].id, "landed")
  /\ ReturnsPermit(f) /\ FreshWalk(f)
  /\ disk' = disk \union {flight[f].id}
  /\ UNCHANGED <<inflight, running, caller, missed>>

\* The body decodes into a buffer of its own (larger than the slot); a slot
\* leased by an earlier attempt is no longer the body's.
WireServesOwned(f, p) ==
  /\ running = None /\ OnWire(f) /\ ~flight[f].aborted /\ flight[f].lease # None
  /\ p \in Copies[flight[f].id] \ walk[f].asked
  /\ flight' = [flight EXCEPT ![f].phase = "landed", ![f].inSlot = FALSE]
  /\ ReturnsPermit(f) /\ FreshWalk(f)
  /\ disk' = disk \union {flight[f].id}
  /\ UNCHANGED <<arenaVars, inflight, running, caller, missed>>

\* A loss is definitive, and remembered, when every candidate reported it.
Definitive_Any(heard) == "loss" \in heard
Definitive(heard) == heard = {"loss"}

\* No candidate is left.
WireFails(f) ==
  /\ running = None /\ OnWire(f) /\ walk[f].asked \in CandidateSets
  /\ flight' = [flight EXCEPT ![f].phase = "failed"]
  /\ ReturnsPermit(f) /\ FreshWalk(f)
  /\ missed' = missed \union (IF Definitive(walk[f].heard) THEN {flight[f].id} ELSE {})
  /\ UNCHANGED <<arenaVars, inflight, running, caller, disk>>

\* The walk is broken off: the flight was cancelled, so that the body is not
\* decoded and no candidate is tried, or an error of another kind came up.
WireThrows(f) ==
  /\ running = None /\ OnWire(f) /\ walk[f].asked # Provider
  /\ flight' = [flight EXCEPT ![f].phase = "failed"]
  /\ ReturnsPermit(f) /\ FreshWalk(f)
  /\ UNCHANGED <<arenaVars, inflight, running, caller, disk, missed>>

\* Delivery, one synchronous block: unregister, commit, one pin per waiter.
Deliver(f) ==
  /\ running \in {None, f} /\ flight[f].phase = "landed"
  /\ Unregister(f)
  /\ IF flight[f].lease = None THEN UNCHANGED arenaVars
     ELSE IF flight[f].inSlot THEN Commit(flight[f].lease, flight[f].id, flight[f].waiters)
     ELSE Abandon(flight[f].lease)
  /\ Answer(flight[f].waiters, "served")
  /\ flight' = [flight EXCEPT ![f] = NoFlight]
  /\ running' = None
  /\ UNCHANGED <<budgetVars, disk, missed, walk>>

\* The catch block.
KeepsLease(f) == UNCHANGED arenaVars
GivesLeaseBack(f) ==
  IF flight[f].lease = None THEN UNCHANGED arenaVars ELSE Abandon(flight[f].lease)

FlightFails_Leak(f) ==
  /\ running = None /\ flight[f].phase = "failed"
  /\ Unregister(f)
  /\ KeepsLease(f)
  /\ Answer(flight[f].waiters, "failed")
  /\ flight' = [flight EXCEPT ![f] = NoFlight]
  /\ UNCHANGED <<budgetVars, running, disk, missed, walk>>
FlightFails(f) ==
  /\ running = None /\ flight[f].phase = "failed"
  /\ Unregister(f)
  /\ GivesLeaseBack(f)
  /\ Answer(flight[f].waiters, "failed")
  /\ flight' = [flight EXCEPT ![f] = NoFlight]
  /\ UNCHANGED <<budgetVars, running, disk, missed, walk>>

--------------------------------------------------------------------------------
(* The tiers' own life *)

MissExpires(m) == running = None /\ m \in missed /\ missed' = missed \ {m}
                  /\ UNCHANGED <<arenaVars, budgetVars, flight, inflight, running, caller, disk, walk>>

DiskEvicts(m) == running = None /\ m \in disk /\ disk' = disk \ {m}
                 /\ UNCHANGED <<arenaVars, budgetVars, flight, inflight, running, caller, missed, walk>>

ClearCache == running = None /\ Clear /\ disk' = {}
              /\ UNCHANGED <<budgetVars, flight, inflight, running, caller, missed, walk>>

FlightStep(f) ==
  DiskFound(f) \/ DiskHit(f) \/ DiskMiss(f) \/ WireFails(f) \/ WireThrows(f) \/ Deliver(f) \/ FlightFails(f)

WireStep(f, p) ==
  WireServes(f, p) \/ WireServesOwned(f, p) \/ WireCorrupt(f, p) \/ WireMissing(f, p) \/ WireTrouble(f, p)

FetchNext ==
  \/ \E c \in Caller, m \in Id : RequestHit(c, m) \/ RequestMissed(c, m) \/ RequestJoin(c, m) \/ RequestNew(c, m)
  \/ \E c \in Caller : Done(c) \/ AbortCaller(c)
  \/ \E f \in Flight : FlightStep(f)
  \/ \E f \in Flight, p \in Provider : WireStep(f, p)
  \/ \E m \in Id : MissExpires(m) \/ DiskEvicts(m)
  \/ ClearCache

FetchSpec == FetchInit /\ [][FetchNext]_fetchVars

--------------------------------------------------------------------------------
(* Properties *)

\* One live flight per segment: a flight that nobody cancelled is the one new
\* callers find, and the index holds nothing else.
SingleFlight ==
  \A f \in Flight :
    /\ Active(f) /\ ~flight[f].aborted => inflight[flight[f].id] = f
    /\ \A m \in Id : inflight[m] = f => Active(f) /\ flight[f].id = m /\ ~flight[f].aborted

\* A caller waits exactly while one live flight for its segment will answer
\* it; a cancelled flight has nobody left, so no caller is failed or stranded
\* by another one's abort.
WaitersAnswered ==
  /\ \A c \in Caller : caller[c].st = "waiting" =>
       Cardinality({f \in Flight : c \in flight[f].waiters}) = 1
  /\ \A f \in Flight : \A c \in flight[f].waiters :
       caller[c].st = "waiting" /\ caller[c].id = flight[f].id
  /\ \A f \in Flight : flight[f].aborted => flight[f].waiters = {}

FlightsSound == FetchTypeOK /\ SingleFlight /\ WaitersAnswered

\* Every lease belongs to one flight still running: no decode slot leaks on
\* an abort, a failure or an owned fallback.
LeasesOwned ==
  /\ leases = {flight[f].lease : f \in Flight} \ {None}
  /\ \A f, g \in Flight : flight[f].lease = flight[g].lease /\ flight[f].lease # None => f = g

\* The budget is held by the flights on the wire and by nobody else.
PermitsOwned ==
  \A f \in Flight : handle[f] \in {"queued", "held"} <=> flight[f].phase = "fetch"

HoldingsOwned == LeasesOwned /\ PermitsOwned

\* What a caller reads through its pin is the segment it asked for.
CallerReadsItsSegment ==
  \A c \in Caller : pins[c] # None =>
    /\ caller[c].st = "served" /\ pins[c].id = caller[c].id
    /\ content[pins[c].slot] = caller[c].id

\* A segment that a steady provider holds is never remembered as lost: not when
\* that provider fails transiently and the others lack the article, not on an
\* abort, in whatever order the candidates answer (definitiveLossKind).
Available == {m \in Id : Copies[m] \intersect Steady # {}}
MissesHonest == missed \intersect Available = {}
================================================================================
