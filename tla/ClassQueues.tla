------------------------------ MODULE ClassQueues ------------------------------
(***************************************************************************)
(* What the download budget promises, without the sorted queue, the        *)
(* accumulator or the counter that implement it: at most `ceiling` holders *)
(* whenever someone enters, one first-in-first-out queue per class, no     *)
(* barging past a queue, and Idle served only when nobody else waits.      *)
(***************************************************************************)
EXTENDS Naturals, Sequences, FiniteSets, SequencesExt

CONSTANTS Client, MaxPermits

High == 0
Low  == 1
Idle == 2
Priority == {High, Low, Idle}

VARIABLES ceiling, holders, queue

vars == <<ceiling, holders, queue>>

Init ==
  /\ ceiling = MaxPermits
  /\ holders = {}
  /\ queue = [p \in Priority |-> <<>>]

Room(H) == Cardinality(H) < ceiling
NobodyWaits == \A p \in Priority : queue[p] = <<>>
Outside(c) == c \notin holders /\ \A p \in Priority : \A i \in DOMAIN queue[p] : queue[p][i] # c

Serve(p, H) ==
  /\ queue[p] # <<>>
  /\ Room(H)
  /\ p = Idle => queue[High] = <<>> /\ queue[Low] = <<>>
  /\ holders' = H \union {Head(queue[p])}
  /\ queue' = [queue EXCEPT ![p] = Tail(@)]

Enter(c) == Outside(c) /\ Room(holders) /\ NobodyWaits
            /\ holders' = holders \union {c} /\ UNCHANGED <<ceiling, queue>>

Wait(c, p) == Outside(c) /\ ~Room(holders)
              /\ queue' = [queue EXCEPT ![p] = Append(@, c)] /\ UNCHANGED <<ceiling, holders>>

GiveUp(c) == /\ ~Outside(c) /\ c \notin holders
             /\ \E p \in Priority : \E i \in DOMAIN queue[p] :
                  queue[p][i] = c /\ queue' = [queue EXCEPT ![p] = RemoveAt(@, i)]
             /\ UNCHANGED <<ceiling, holders>>

\* A permit comes back: it is passed on at once unless nobody may take it.
Leave(c) == /\ c \in holders
            /\ UNCHANGED ceiling
            /\ LET H == holders \ {c} IN
                 IF NobodyWaits \/ ~Room(H) THEN holders' = H /\ UNCHANGED queue
                 ELSE \E p \in Priority : Serve(p, H)

SetCeiling(n) == ceiling' = n /\ UNCHANGED <<holders, queue>>

Catchup == \E p \in Priority : Serve(p, holders) /\ UNCHANGED ceiling

Next == \/ \E c \in Client : Enter(c) \/ GiveUp(c) \/ Leave(c)
        \/ \E c \in Client, p \in Priority : Wait(c, p)
        \/ \E n \in 1..MaxPermits : SetCeiling(n)
        \/ Catchup

Spec == Init /\ [][Next]_vars
================================================================================
