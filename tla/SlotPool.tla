------------------------------ MODULE SlotPool ------------------------------
(***************************************************************************)
(* What a priority-aware semaphore promises its users: a set of at most    *)
(* Limit processes inside, the others waiting, and a freed slot handed to  *)
(* a waiter of the highest rank.  Queue, flags and condition variable are  *)
(* left to the implementation (PrioritySem).                               *)
(***************************************************************************)
EXTENDS Integers, FiniteSets

CONSTANTS Procs,      \* the goroutines that use the semaphore
          Limit,      \* number of slots
          Priorities  \* ranks a request may have; greater is served first

VARIABLES inside,   \* processes that own a slot
          waiting,  \* processes that have asked and own none
          rank      \* rank of the current or last request of a process

poolVars == <<inside, waiting, rank>>

Init ==
  /\ inside = {}
  /\ waiting = {}
  /\ rank \in [Procs -> Priorities]

\* A free slot is taken at once, but never past a waiter.
Enter(p) ==
  /\ p \notin inside \cup waiting
  /\ waiting = {}
  /\ Cardinality(inside) < Limit
  /\ inside' = inside \cup {p}
  /\ UNCHANGED <<waiting, rank>>

\* A process only waits while every slot is owned.
Queue(p, pr) ==
  /\ p \notin inside \cup waiting
  /\ Cardinality(inside) = Limit
  /\ waiting' = waiting \cup {p}
  /\ rank' = [rank EXCEPT ![p] = pr]
  /\ UNCHANGED inside

Withdraw(p) ==
  /\ p \in waiting
  /\ waiting' = waiting \ {p}
  /\ UNCHANGED <<inside, rank>>

\* A slot becomes free only when nobody waits for it.
Leave(p) ==
  /\ p \in inside
  /\ waiting = {}
  /\ inside' = inside \ {p}
  /\ UNCHANGED <<waiting, rank>>

\* The slot of p passes to a waiter q that no other waiter outranks.
HandOver(p, q) ==
  /\ p \in inside
  /\ q \in waiting
  /\ \A r \in waiting : rank[r] <= rank[q]
  /\ inside' = (inside \ {p}) \cup {q}
  /\ waiting' = waiting \ {q}
  /\ UNCHANGED rank

Next ==
  \/ \E p \in Procs : Enter(p) \/ Withdraw(p) \/ Leave(p)
  \/ \E p \in Procs, pr \in Priorities : Queue(p, pr)
  \/ \E p, q \in Procs : HandOver(p, q)

Spec == Init /\ [][Next]_poolVars
=============================================================================
