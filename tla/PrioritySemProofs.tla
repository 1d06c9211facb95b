-------------------------- MODULE PrioritySemProofs --------------------------
(***************************************************************************)
(* Proofs about PrioritySem, for any finite set of goroutines, any limit   *)
(* and any set of priorities.                                              *)
(***************************************************************************)
EXTENDS PrioritySem, SequenceLemmas, FiniteSetTheorems, SequenceTheorems, TLAPS

-----------------------------------------------------------------------------
(* The inductive invariant.  The safety properties need each other: the     *)
(* bound on held needs the count of owners, the count needs grants to be    *)
(* disjoint from the queue, the order of the queue needs entries to be      *)
(* unique.                                                                  *)
Inv ==
  /\ TypeOK
  /\ SlotsAccounted
  /\ NoIdleSlot
  /\ QueueMatchesWaits
  /\ QueueSorted

\* Where acquire puts a request: behind its equals and betters, in front of the rest.
LEMMA InsertPosProperties ==
  ASSUME TypeOK, QueueSorted, NEW pr \in Priorities
  PROVE  /\ InsertPos(pr) \in 1..Len(waiters)+1
         /\ \A i \in 1..Len(waiters) :
              /\ i < InsertPos(pr) => priority[waiters[i]] >= pr
              /\ i >= InsertPos(pr) => priority[waiters[i]] < pr
<1> DEFINE lower == {i \in 1..Len(waiters) : priority[waiters[i]] < pr}
<1>0. waiters \in Seq(Procs) /\ \A i \in 1..Len(waiters) : waiters[i] \in Procs
  BY ElementOfSeq DEF TypeOK
<1>1. /\ Len(waiters) \in Nat
      /\ pr \in Nat
      /\ \A i \in 1..Len(waiters) : priority[waiters[i]] \in Nat
  <2>1. \A i \in 1..Len(waiters) : priority[waiters[i]] \in Priorities
    BY <1>0 DEF TypeOK
  <2>2. pr \in Nat /\ \A x \in Priorities : x \in Nat
    BY SemAssumption
  <2>3. Len(waiters) \in Nat
    BY <1>0
  <2> QED
    BY <2>1, <2>2, <2>3
<1>2. CASE lower = {}
  <2>1. InsertPos(pr) = Len(waiters) + 1
    BY <1>2 DEF InsertPos
  <2> QED
    BY <1>1, <1>2, <2>1
<1>3. CASE lower # {}
  <2>1. InsertPos(pr) = Min(lower)
    BY <1>3 DEF InsertPos
  <2>0. lower \in SUBSET Nat
    BY <1>1
  <2> HIDE DEF lower
  <2>2. Min(lower) \in lower /\ \A j \in lower : Min(lower) <= j
    BY <1>3, <2>0, MinProperties
  <2> DEFINE m == Min(lower)
  <2>3. m \in 1..Len(waiters) /\ priority[waiters[m]] < pr
    BY <2>2 DEF lower
  <2> HIDE DEF m
  <2>4. ASSUME NEW i \in 1..Len(waiters), i < m PROVE priority[waiters[i]] >= pr
    BY <1>1, <2>2, <2>3, <2>4 DEF lower, m
  <2>5. ASSUME NEW i \in 1..Len(waiters), i >= m PROVE priority[waiters[i]] < pr
    <3>1. priority[waiters[m]] >= priority[waiters[i]]
      BY <1>1, <2>3, <2>5 DEF QueueSorted
    <3> QED
      BY <1>1, <2>3, <3>1
  <2> QED
    BY <1>1, <2>1, <2>3, <2>4, <2>5 DEF m
<1> QED
  BY <1>2, <1>3

\* Finitely many processes own a slot, so that counting them makes sense.
LEMMA OwnersFinite ==
  ASSUME TypeOK
  PROVE  IsFiniteSet(Owners) /\ Cardinality(Owners) \in Nat
BY SemAssumption, FS_Subset, FS_CardinalityType DEF TypeOK, Owners

\* The initial state satisfies the invariant.
LEMMA InitInv == Init => Inv
<1> SUFFICES ASSUME Init PROVE Inv
  OBVIOUS
<1>1. TypeOK
  BY SemAssumption DEF Init, TypeOK
<1>2. Owners = {} /\ Waiters = {}
  BY DEF Init, Owners, Waiters, ToSet
<1>3. SlotsAccounted
  BY <1>2, FS_EmptySet DEF Init, SlotsAccounted
<1>4. QueueMatchesWaits
  BY <1>2 DEF Init, QueueMatchesWaits, IsInjective
<1> QED
  BY <1>1, <1>3, <1>4 DEF Init, Inv, NoIdleSlot, QueueSorted

\* A free slot is taken.
LEMMA AcquireFastInv ==
  ASSUME Inv, NEW p \in Procs, AcquireFast(p) PROVE Inv'
<1> USE DEF AcquireFast, FastPath
<1>1. TypeOK'
  BY SemAssumption DEF Inv, TypeOK
<1>2. Owners' = Owners \cup {p} /\ p \notin Owners
  BY DEF Inv, TypeOK, QueueMatchesWaits, Owners
<1>3. SlotsAccounted'
  BY <1>2, OwnersFinite, FS_AddElement DEF Inv, SlotsAccounted
<1>4. QueueMatchesWaits'
  BY DEF Inv, TypeOK, QueueMatchesWaits, Waiters
<1> QED
  BY <1>1, <1>3, <1>4 DEF Inv, NoIdleSlot, QueueSorted

\* A request queues up: every slot is owned, and the queue stays in order.
LEMMA AcquireWaitInv ==
  ASSUME Inv, NEW p \in Procs, NEW pr \in Priorities, AcquireWait(p, pr)
  PROVE  Inv'
<1> DEFINE pos == InsertPos(pr)
<1>1. /\ pos \in 1..Len(waiters)+1
      /\ \A i \in 1..Len(waiters) :
           /\ i < pos => priority[waiters[i]] >= pr
           /\ i >= pos => priority[waiters[i]] < pr
  BY InsertPosProperties DEF Inv
<1>2. waiters \in Seq(Procs) /\ p \notin Waiters /\ IsInjective(waiters)
  BY DEF Inv, TypeOK, QueueMatchesWaits, AcquireWait
<1>3. waiters' = InsertAt(waiters, pos, p)
  BY DEF AcquireWait
<1> HIDE DEF pos
<1>0. pos \in 1..Len(waiters)+1
  BY <1>1
<1>4. /\ waiters' \in Seq(Procs)
      /\ Len(waiters') = Len(waiters) + 1
      /\ \A i \in 1..Len(waiters)+1 :
           waiters'[i] = IF i < pos THEN waiters[i]
                         ELSE IF i = pos THEN p ELSE waiters[i-1]
  <2>1. waiters' \in Seq(Procs) /\ Len(waiters') = Len(waiters) + 1
    BY <1>0, <1>2, <1>3, InsertAtProperties
  <2>2. ASSUME NEW i \in 1..Len(waiters)+1
        PROVE  waiters'[i] = Shifted(waiters, pos, p, i)
    BY <1>0, <1>2, <1>3, InsertAtProperties
  <2> QED
    BY <2>1, <2>2 DEF Shifted
<1>5. Waiters' = Waiters \cup {p} /\ IsInjective(waiters')
  BY <1>0, <1>2, <1>3, InsertElements DEF Waiters
<1>6. TypeOK'
  BY <1>4 DEF Inv, TypeOK, AcquireWait
<1>7. SlotsAccounted'
  <2>1. Owners' = Owners
    BY DEF Inv, TypeOK, Owners, AcquireWait
  <2> QED
    BY <2>1 DEF Inv, SlotsAccounted, AcquireWait
<1>8. NoIdleSlot'
  BY SemAssumption DEF Inv, TypeOK, NoIdleSlot, AcquireWait, FastPath
<1>9. QueueMatchesWaits'
  BY <1>5 DEF Inv, TypeOK, QueueMatchesWaits, AcquireWait
<1>10. QueueSorted'
  <2>1. /\ priority'[p] = pr
        /\ \A i \in 1..Len(waiters) : priority'[waiters[i]] = priority[waiters[i]]
    <3>1. \A i \in 1..Len(waiters) : waiters[i] \in Procs /\ waiters[i] # p
      BY <1>2, ToSetByIndex DEF Waiters
    <3> QED
      BY <3>1 DEF Inv, TypeOK, AcquireWait
  <2>2. pr \in Nat /\ \A i \in 1..Len(waiters) : priority[waiters[i]] \in Nat
    BY SemAssumption, <1>2, ElementOfSeq DEF Inv, TypeOK
  <2>3. Len(waiters) \in Nat
    BY <1>2
  <2> SUFFICES ASSUME NEW i \in 1..Len(waiters)+1, NEW j \in 1..Len(waiters)+1,
                      i < j
               PROVE  priority'[waiters'[i]] >= priority'[waiters'[j]]
    BY <1>4 DEF QueueSorted
  <2>4. CASE j < pos
    BY <1>1, <1>4, <2>1, <2>2, <2>3, <2>4 DEF Inv, QueueSorted
  <2>5. CASE j = pos
    BY <1>1, <1>4, <2>1, <2>2, <2>3, <2>5
  <2>6. CASE j > pos /\ i < pos
    <3>1. j - 1 \in 1..Len(waiters) /\ j - 1 >= pos /\ i \in 1..Len(waiters)
      BY <1>1, <2>3, <2>6
    <3>2. waiters'[i] = waiters[i] /\ waiters'[j] = waiters[j - 1]
      BY <1>1, <1>4, <2>6
    <3> QED
      BY <1>1, <2>1, <2>2, <2>6, <3>1, <3>2
  <2>7. CASE j > pos /\ i = pos
    <3>1. j - 1 \in 1..Len(waiters) /\ j - 1 >= pos
      BY <1>1, <2>3, <2>7
    <3>2. waiters'[i] = p /\ waiters'[j] = waiters[j - 1]
      BY <1>1, <1>4, <2>7
    <3> QED
      BY <1>1, <2>1, <2>2, <2>7, <3>1, <3>2
  <2>8. CASE i > pos
    <3>1. j - 1 \in 1..Len(waiters) /\ i - 1 \in 1..Len(waiters) /\ i - 1 < j - 1
      BY <1>1, <2>3, <2>8
    <3>2. waiters'[i] = waiters[i - 1] /\ waiters'[j] = waiters[j - 1]
      BY <1>1, <1>4, <2>8
    <3> QED
      BY <2>1, <2>2, <3>1, <3>2 DEF Inv, QueueSorted
  <2>9. j < pos \/ j = pos \/ (j > pos /\ i < pos) \/ (j > pos /\ i = pos) \/ i > pos
    BY <1>1, <2>3
  <2> QED
    BY <2>4, <2>5, <2>6, <2>7, <2>8, <2>9
<1> QED
  BY <1>6, <1>7, <1>8, <1>9, <1>10 DEF Inv

\* A request with a dead context comes and goes.
LEMMA AcquireRefusedInv ==
  ASSUME Inv, NEW p \in Procs, AcquireRefused(p) PROVE Inv'
BY DEF AcquireRefused, Inv, TypeOK, SlotsAccounted, NoIdleSlot, Owners,
       QueueMatchesWaits, Waiters, QueueSorted

\* A granted waiter returns with its slot.
LEMMA WakeGrantedInv ==
  ASSUME Inv, NEW p \in Procs, WakeGranted(p) PROVE Inv'
<1>1. TypeOK'
  BY DEF Inv, TypeOK, WakeGranted
<1>2. Owners' = Owners
  BY DEF Inv, TypeOK, Owners, WakeGranted
<1>3. SlotsAccounted'
  BY <1>2 DEF Inv, SlotsAccounted, WakeGranted
<1>4. QueueMatchesWaits'
  BY DEF Inv, TypeOK, QueueMatchesWaits, Waiters, WakeGranted
<1> QED
  BY <1>1, <1>3, <1>4 DEF Inv, NoIdleSlot, QueueSorted, WakeGranted

\* The entry of a queued process is found and taken out.
LEMMA RemoveWaiterProperties ==
  ASSUME Inv, NEW p \in Waiters
  PROVE  \E pos \in 1..Len(waiters) :
           waiters[pos] = p /\ RemoveWaiter(p) = RemoveAt(waiters, pos)
<1>1. \E j \in 1..Len(waiters) : waiters[j] = p
  BY ToSetByIndex DEF Inv, TypeOK, Waiters
<1> QED
  BY <1>1 DEF RemoveWaiter

\* A cancelled waiter leaves the queue; the others keep their order.
LEMMA WakeCancelledInv ==
  ASSUME Inv, NEW p \in Procs, WakeCancelled(p) PROVE Inv'
<1>1. p \in Waiters
  BY DEF Inv, QueueMatchesWaits, WakeCancelled
<1>2. PICK pos \in 1..Len(waiters) :
        waiters[pos] = p /\ RemoveWaiter(p) = RemoveAt(waiters, pos)
  BY <1>1, RemoveWaiterProperties
<1>3. waiters \in Seq(Procs) /\ IsInjective(waiters) /\ Len(waiters) \in Nat
  BY DEF Inv, TypeOK, QueueMatchesWaits
<1>4. waiters' = RemoveAt(waiters, pos)
  BY <1>2 DEF WakeCancelled
<1>5. /\ waiters' \in Seq(Procs)
      /\ Len(waiters') = Len(waiters) - 1
      /\ \A i \in 1..Len(waiters)-1 :
           waiters'[i] = IF i < pos THEN waiters[i] ELSE waiters[i+1]
  BY <1>3, <1>4, RemoveAtProperties
<1>6. Waiters' = Waiters \ {p} /\ IsInjective(waiters')
  BY <1>2, <1>3, <1>4, RemoveElements DEF Waiters
<1>7. TypeOK'
  BY <1>5 DEF Inv, TypeOK, WakeCancelled
<1>8. SlotsAccounted'
  <2>1. Owners' = Owners
    BY DEF Inv, TypeOK, Owners, WakeCancelled
  <2> QED
    BY <2>1 DEF Inv, SlotsAccounted, WakeCancelled
<1>9. NoIdleSlot'
  <2>1. waiters # <<>>
    BY <1>3
  <2> QED
    BY <2>1 DEF Inv, NoIdleSlot, WakeCancelled
<1>10. QueueMatchesWaits'
  BY <1>6 DEF Inv, TypeOK, QueueMatchesWaits, WakeCancelled
<1>11. QueueSorted'
  <2> SUFFICES ASSUME NEW i \in 1..Len(waiters)-1, NEW j \in 1..Len(waiters)-1,
                      i < j
               PROVE  priority[waiters'[i]] >= priority[waiters'[j]]
    BY <1>5 DEF QueueSorted, WakeCancelled
  <2> DEFINE i1 == IF i < pos THEN i ELSE i + 1
             j1 == IF j < pos THEN j ELSE j + 1
  <2>1. i1 \in 1..Len(waiters) /\ j1 \in 1..Len(waiters) /\ i1 < j1
    BY <1>3
  <2>2. waiters'[i] = waiters[i1] /\ waiters'[j] = waiters[j1]
    BY <1>5
  <2> HIDE DEF i1, j1
  <2> QED
    BY <2>1, <2>2 DEF Inv, QueueSorted
<1> QED
  BY <1>7, <1>8, <1>9, <1>10, <1>11 DEF Inv

\* A waiter woken for another's sake waits on.
LEMMA WakeAgainInv ==
  ASSUME Inv, NEW p \in Procs, WakeAgain(p) PROVE Inv'
<1>1. TypeOK'
  BY DEF Inv, TypeOK, WakeAgain
<1>2. Owners' = Owners
  BY DEF Inv, TypeOK, Owners, WakeAgain
<1>3. SlotsAccounted'
  BY <1>2 DEF Inv, SlotsAccounted, WakeAgain
<1>4. QueueMatchesWaits'
  BY DEF Inv, TypeOK, QueueMatchesWaits, Waiters, WakeAgain
<1> QED
  BY <1>1, <1>3, <1>4 DEF Inv, NoIdleSlot, QueueSorted, WakeAgain

\* A slot is given back with nobody waiting.
LEMMA ReleaseFreeInv ==
  ASSUME Inv, NEW p \in Procs, ReleaseFree(p) PROVE Inv'
<1>1. Owners' = Owners \ {p} /\ p \in Owners
  BY DEF Inv, TypeOK, QueueMatchesWaits, Owners, ReleaseFree
<1>2. Cardinality(Owners) \in Nat /\ Cardinality(Owners) # 0
      /\ Cardinality(Owners') = Cardinality(Owners) - 1
  BY <1>1, OwnersFinite, FS_RemoveElement, FS_EmptySet DEF Inv
<1>3. SlotsAccounted'
  BY <1>2 DEF Inv, SlotsAccounted, ReleaseFree
<1>4. TypeOK'
  BY <1>2, SemAssumption DEF Inv, TypeOK, SlotsAccounted, ReleaseFree
<1>5. QueueMatchesWaits'
  BY DEF Inv, TypeOK, QueueMatchesWaits, Waiters, ReleaseFree
<1> QED
  BY <1>3, <1>4, <1>5 DEF Inv, NoIdleSlot, QueueSorted, ReleaseFree

\* The first waiter is awake and owns no slot yet when the grant is made.
LEMMA GrantTarget ==
  ASSUME Inv, waiters # <<>>
  PROVE  /\ Head(waiters) \in Procs
         /\ Head(waiters) \notin Owners
         /\ pc[Head(waiters)] \in {"parked", "woken"}
         /\ waiters' = Tail(waiters) =>
              /\ waiters' \in Seq(Procs)
              /\ Waiters' = Waiters \ {Head(waiters)}
              /\ IsInjective(waiters')
<1>1. waiters \in Seq(Procs) /\ IsInjective(waiters)
  BY DEF Inv, TypeOK, QueueMatchesWaits
<1>2. Head(waiters) \in Waiters /\ Tail(waiters) \in Seq(Procs)
  BY <1>1, TailElements, HeadTailProperties DEF Waiters
<1>3. waiters' = Tail(waiters) =>
        Waiters' = Waiters \ {Head(waiters)} /\ IsInjective(waiters')
  BY <1>1, TailElements DEF Waiters
<1> QED
  BY <1>2, <1>3 DEF Inv, TypeOK, QueueMatchesWaits, Owners

\* A slot passes to the first waiter.
LEMMA ReleaseGrantInv ==
  ASSUME Inv, NEW p \in Procs, ReleaseGrant(p) PROVE Inv'
<1> DEFINE q == Head(waiters)
<1>1. /\ q \in Procs /\ q \notin Owners /\ pc[q] \in {"parked", "woken"}
      /\ waiters' \in Seq(Procs) /\ Waiters' = Waiters \ {q} /\ IsInjective(waiters')
  BY GrantTarget DEF ReleaseGrant
<1>2. ready' = ready \cup {q}
  BY DEF ReleaseGrant
<1> HIDE DEF q
<1>3. pc' = [Broadcast EXCEPT ![p] = "idle"] /\ pc[p] = "holding" /\ q # p
  BY <1>1 DEF ReleaseGrant
<1>4. pc' \in [Procs -> {"idle", "parked", "woken", "holding"}]
      /\ \A r \in Procs : pc'[r] = IF r = p THEN "idle"
                                   ELSE IF pc[r] = "parked" THEN "woken" ELSE pc[r]
  BY <1>3 DEF Inv, TypeOK, Broadcast
<1>5. TypeOK'
  BY <1>1, <1>2, <1>4 DEF Inv, TypeOK, ReleaseGrant
<1>6. Owners' = (Owners \ {p}) \cup {q} /\ p \in Owners
  BY <1>1, <1>2, <1>3, <1>4 DEF Inv, TypeOK, QueueMatchesWaits, Owners
<1>7. SlotsAccounted'
  <2>1. IsFiniteSet(Owners \ {p})
        /\ Cardinality(Owners \ {p}) = Cardinality(Owners) - 1
        /\ Cardinality(Owners) \in Nat
    BY <1>6, OwnersFinite, FS_RemoveElement DEF Inv
  <2>2. Cardinality((Owners \ {p}) \cup {q}) = Cardinality(Owners \ {p}) + 1
    BY <1>1, <2>1, FS_AddElement
  <2>3. Cardinality(Owners') = Cardinality(Owners)
    BY <1>6, <2>1, <2>2
  <2> QED
    BY <2>3 DEF Inv, SlotsAccounted, ReleaseGrant
<1>8. NoIdleSlot'
  BY DEF Inv, NoIdleSlot, ReleaseGrant
<1>9. QueueMatchesWaits'
  BY <1>1, <1>2, <1>3, <1>4 DEF Inv, TypeOK, QueueMatchesWaits
<1>10. QueueSorted'
  <2>1. /\ Len(waiters) \in Nat /\ Len(waiters') = Len(waiters) - 1
        /\ \A i \in 1..Len(waiters)-1 : waiters'[i] = waiters[i+1]
    BY HeadTailProperties DEF Inv, TypeOK, ReleaseGrant
  <2> SUFFICES ASSUME NEW i \in 1..Len(waiters)-1, NEW j \in 1..Len(waiters)-1,
                      i < j
               PROVE  priority[waiters'[i]] >= priority[waiters'[j]]
    BY <2>1 DEF QueueSorted, ReleaseGrant
  <2> QED
    BY <2>1 DEF Inv, QueueSorted
<1> QED
  BY <1>5, <1>7, <1>8, <1>9, <1>10 DEF Inv

\* Every step of the semaphore keeps the invariant.
LEMMA NextInv == Inv /\ [Next]_vars => Inv'
<1> SUFFICES ASSUME Inv, [Next]_vars PROVE Inv'
  OBVIOUS
<1>1. ASSUME NEW p \in Procs, Cancel(p) PROVE Inv'
  BY <1>1 DEF Cancel, Inv, TypeOK, SlotsAccounted, NoIdleSlot, Owners,
              QueueMatchesWaits, Waiters, QueueSorted
<1>2. CASE UNCHANGED vars
  BY <1>2 DEF vars, Inv, TypeOK, SlotsAccounted, NoIdleSlot, Owners,
              QueueMatchesWaits, Waiters, QueueSorted
<1> QED
  BY <1>1, <1>2, AcquireFastInv, AcquireWaitInv, AcquireRefusedInv, WakeGrantedInv,
     WakeCancelledInv, WakeAgainInv, ReleaseFreeInv, ReleaseGrantInv
     DEF Next, Wake, Release

\* The inductive invariant holds in every reachable state of the semaphore.
THEOREM Invariance == Spec => []Inv
BY InitInv, NextInv, PTL DEF Spec

\* The type invariant, with held between 0 and the limit: never more than Limit
\* windows are fetched at once (budgetSem), or requests sent to one host (hostSem).
THEOREM TypeCorrect == Spec => []TypeOK
BY Invariance, PTL DEF Inv

\* held counts the slot owners exactly: cancellation and late wake-ups neither leak
\* nor duplicate a slot.
THEOREM SlotsNeverLost == Spec => []SlotsAccounted
BY Invariance, PTL DEF Inv

\* The queue holds exactly the ungranted waiters, each once, and no granted waiter is
\* left asleep.
THEOREM QueueCorrect == Spec => []QueueMatchesWaits
BY Invariance, PTL DEF Inv

\* acquire's fast path and release never leave a free slot next to a waiter.
THEOREM SlotsNeverIdle == Spec => []NoIdleSlot
BY Invariance, PTL DEF Inv

\* The sorted insertion, the removal of cancelled waiters and the grants keep the
\* queue in priority order.
THEOREM QueueInOrder == Spec => []QueueSorted
BY Invariance, PTL DEF Inv

-----------------------------------------------------------------------------
(* The order of service. *)

\* What one step does to the order of the queue and to the owners of slots.
KeepsTurns(p, q) ==
  /\ p \in Waiters /\ Before(waiters', q, p) =>
       Before(waiters, q, p) \/ priority'[q] > priority[p]
  /\ p \in Waiters /\ q \in Owners' \ Owners =>
       q = p \/ Before(waiters, q, p)

\* A newcomer passes only waiters of a lower rank.
LEMMA ArrivalKeepsTurns ==
  ASSUME Inv, NEW e \in Procs, NEW pr \in Priorities, AcquireWait(e, pr),
         NEW p \in Waiters, NEW q \in Procs, Before(waiters', q, p)
  PROVE  Before(waiters, q, p) \/ priority'[q] > priority[p]
<1> DEFINE pos == InsertPos(pr)
<1>1. /\ pos \in 1..Len(waiters)+1
      /\ \A i \in 1..Len(waiters) : i >= pos => priority[waiters[i]] < pr
  BY InsertPosProperties DEF Inv
<1>2. waiters \in Seq(Procs) /\ Len(waiters) \in Nat /\ e \notin Waiters
  BY DEF Inv, TypeOK, QueueMatchesWaits, AcquireWait
<1>3. waiters' = InsertAt(waiters, pos, e) /\ priority' = [priority EXCEPT ![e] = pr]
  BY DEF AcquireWait
<1> HIDE DEF pos
<1>4. /\ Len(waiters') = Len(waiters) + 1
      /\ \A i \in 1..Len(waiters)+1 : waiters'[i] = Shifted(waiters, pos, e, i)
  <2>1. pos \in 1..Len(waiters)+1
    BY <1>1
  <2>2. Len(waiters') = Len(waiters) + 1
    BY <1>2, <1>3, <2>1, InsertAtProperties
  <2>3. ASSUME NEW i \in 1..Len(waiters)+1
        PROVE  waiters'[i] = Shifted(waiters, pos, e, i)
    BY <1>2, <1>3, <2>1, InsertAtProperties
  <2> QED BY <2>2, <2>3
<1>5. PICK i, j \in 1..Len(waiters)+1 : i < j /\ waiters'[i] = q /\ waiters'[j] = p
  BY <1>4 DEF Before
<1> DEFINE j1 == IF j < pos THEN j ELSE j - 1
           i1 == IF i < pos THEN i ELSE i - 1
<1>6. j # pos
  BY <1>2, <1>4, <1>5 DEF Shifted
<1>7. j1 \in 1..Len(waiters) /\ waiters[j1] = p
  BY <1>1, <1>2, <1>4, <1>5, <1>6 DEF Shifted
<1>8. CASE i = pos
  <2>1. q = e /\ j1 >= pos
    BY <1>1, <1>2, <1>4, <1>5, <1>8 DEF Shifted
  <2>2. priority[p] < pr /\ priority'[q] = pr
    BY <1>1, <1>3, <1>7, <2>1 DEF Inv, TypeOK
  <2>3. pr \in Nat /\ priority[p] \in Nat
    <3>1. p \in Procs
      BY <1>2, <1>7, ElementOfSeq
    <3> QED BY <3>1, SemAssumption DEF Inv, TypeOK
  <2> QED BY <2>2, <2>3
<1>9. CASE i # pos
  <2>1. i1 \in 1..Len(waiters) /\ waiters[i1] = q /\ i1 < j1
    BY <1>1, <1>2, <1>4, <1>5, <1>6, <1>9 DEF Shifted
  <2> HIDE DEF i1, j1
  <2> QED BY <1>7, <2>1 DEF Before
<1> QED BY <1>8, <1>9

\* A waiter that leaves the queue changes nothing among the others.
LEMMA DepartureKeepsTurns ==
  ASSUME NEW s \in Seq(Procs), NEW pos \in 1..Len(s), NEW p, NEW q,
         Before(RemoveAt(s, pos), q, p)
  PROVE  Before(s, q, p)
<1> DEFINE t == RemoveAt(s, pos)
<1>1. /\ Len(t) = Len(s) - 1 /\ Len(s) \in Nat
      /\ \A i \in 1..Len(s)-1 : t[i] = IF i < pos THEN s[i] ELSE s[i+1]
  BY RemoveAtProperties
<1>2. PICK i, j \in 1..Len(s)-1 : i < j /\ t[i] = q /\ t[j] = p
  BY <1>1 DEF Before
<1> HIDE DEF t
<1> DEFINE i1 == IF i < pos THEN i ELSE i + 1
           j1 == IF j < pos THEN j ELSE j + 1
<1>3. i1 \in 1..Len(s) /\ j1 \in 1..Len(s) /\ i1 < j1
  BY <1>1, <1>2
<1>4. s[i1] = q /\ s[j1] = p
  BY <1>1, <1>2
<1> HIDE DEF i1, j1
<1> QED BY <1>3, <1>4 DEF Before

\* A grant goes to the front of the queue, and the rest moves up.
LEMMA GrantKeepsTurns ==
  ASSUME Inv, NEW e \in Procs, ReleaseGrant(e), NEW p \in Procs, NEW q \in Procs
  PROVE  KeepsTurns(p, q)
<1>1. /\ waiters \in Seq(Procs) /\ waiters # <<>> /\ Len(waiters) \in Nat
      /\ Len(waiters') = Len(waiters) - 1
      /\ \A i \in 1..Len(waiters)-1 : waiters'[i] = waiters[i+1]
  BY HeadTailProperties DEF Inv, TypeOK, ReleaseGrant
<1>2. ASSUME Before(waiters', q, p) PROVE Before(waiters, q, p)
  <2>1. PICK i, j \in 1..Len(waiters)-1 : i < j /\ waiters'[i] = q /\ waiters'[j] = p
    BY <1>1, <1>2 DEF Before
  <2>2. /\ i + 1 \in 1..Len(waiters) /\ j + 1 \in 1..Len(waiters) /\ i + 1 < j + 1
        /\ waiters[i+1] = q /\ waiters[j+1] = p
    BY <1>1, <2>1
  <2> QED BY <2>2 DEF Before
<1>3. ASSUME p \in Waiters, q \in Owners' \ Owners PROVE q = p \/ Before(waiters, q, p)
  <2>1. q = Head(waiters)
    BY <1>3 DEF Inv, TypeOK, Owners, ReleaseGrant, Broadcast
  <2>2. q = waiters[1] /\ 1 \in 1..Len(waiters)
    BY <1>1, <2>1
  <2>3. PICK j \in 1..Len(waiters) : waiters[j] = p
    BY <1>1, <1>3, ToSetByIndex DEF Waiters
  <2> QED BY <1>1, <2>2, <2>3 DEF Before
<1> QED BY <1>2, <1>3 DEF KeepsTurns

LEMMA StepKeepsTurns ==
  ASSUME Inv, [Next]_vars, NEW p \in Procs, NEW q \in Procs
  PROVE  KeepsTurns(p, q)
<1>1. ASSUME NEW e \in Procs, AcquireFast(e) PROVE KeepsTurns(p, q)
  <2>1. Waiters = {}
    BY <1>1 DEF AcquireFast, FastPath, Waiters, ToSet
  <2> QED BY <2>1 DEF KeepsTurns
<1>2. ASSUME NEW e \in Procs, NEW pr \in Priorities, AcquireWait(e, pr)
      PROVE  KeepsTurns(p, q)
  <2>1. Owners' = Owners
    BY <1>2 DEF Inv, TypeOK, Owners, AcquireWait
  <2> QED BY <1>2, <2>1, ArrivalKeepsTurns DEF KeepsTurns
<1>3. ASSUME NEW e \in Procs,
             AcquireRefused(e) \/ WakeAgain(e) \/ WakeGranted(e) \/ Cancel(e) \/ ReleaseFree(e)
      PROVE  KeepsTurns(p, q)
  <2>1. Owners' \subseteq Owners /\ waiters' = waiters
    BY <1>3 DEF Inv, TypeOK, Owners, AcquireRefused, WakeAgain, WakeGranted, Cancel, ReleaseFree
  <2> QED BY <2>1 DEF KeepsTurns
<1>4. ASSUME NEW e \in Procs, WakeCancelled(e) PROVE KeepsTurns(p, q)
  <2>1. e \in Waiters /\ waiters \in Seq(Procs)
    BY <1>4 DEF Inv, TypeOK, QueueMatchesWaits, WakeCancelled
  <2>2. PICK pos \in 1..Len(waiters) : waiters' = RemoveAt(waiters, pos)
    BY <1>4, <2>1, RemoveWaiterProperties DEF WakeCancelled
  <2>3. Before(waiters', q, p) => Before(waiters, q, p)
    BY <2>1, <2>2, DepartureKeepsTurns
  <2>4. Owners' \subseteq Owners
    BY <1>4 DEF Inv, TypeOK, Owners, WakeCancelled
  <2> QED BY <2>3, <2>4 DEF KeepsTurns
<1>5. CASE UNCHANGED vars
  <2>1. Owners' = Owners /\ waiters' = waiters
    BY <1>5 DEF vars, Owners
  <2> QED BY <2>1 DEF KeepsTurns
<1> QED
  BY <1>1, <1>2, <1>3, <1>4, <1>5, GrantKeepsTurns DEF Next, Wake, Release

\* Requests of one rank are served first come, first served: no step lets a process
\* pass another unless it arrives with a higher rank, and no slot goes to a process
\* with somebody in front of it, whatever is cancelled meanwhile.
THEOREM TurnsKept == Spec => FirstComeFirstServed
<1>1. Inv /\ [Next]_vars => [\A p, q \in Procs : KeepsTurns(p, q)]_vars
  BY StepKeepsTurns
<1>2. Spec => [][\A p, q \in Procs : KeepsTurns(p, q)]_vars
  BY <1>1, Invariance, PTL DEF Spec
<1> QED BY <1>2, PTL DEF FirstComeFirstServed, KeepsTurns

-----------------------------------------------------------------------------
(* The semaphore implements the slot pool. *)

\* Nobody queued outranks the first waiter.
LEMMA HeadOutranks ==
  ASSUME Inv, waiters # <<>>, NEW r \in Waiters
  PROVE  priority[r] <= priority[Head(waiters)]
<1>1. PICK i \in 1..Len(waiters) : waiters[i] = r
  BY ToSetByIndex DEF Inv, TypeOK, Waiters
<1>2. /\ Head(waiters) = waiters[1]
      /\ 1 \in 1..Len(waiters) /\ waiters[1] \in Procs /\ r \in Procs
  BY <1>1, ElementOfSeq DEF Inv, TypeOK
<1>3. priority[r] \in Nat /\ priority[waiters[1]] \in Nat
  BY <1>2, SemAssumption DEF Inv, TypeOK
<1>4. CASE i = 1
  BY <1>1, <1>2, <1>3, <1>4
<1>5. CASE i # 1
  <2>1. priority[waiters[1]] >= priority[waiters[i]]
    BY <1>2, <1>5 DEF Inv, QueueSorted
  <2> QED
    BY <1>1, <1>2, <1>3, <2>1
<1> QED
  BY <1>4, <1>5

\* Every step of the semaphore is a step of the pool or leaves it unchanged.
LEMMA PoolStep ==
  ASSUME Inv, [Next]_vars
  PROVE  [Pool!Next]_(Pool!poolVars)
<1> USE DEF Pool!poolVars
<1>0. Inv'
  BY NextInv
<1>a. waiters = <<>> => Waiters = {}
  BY DEF Waiters, ToSet
<1>1. ASSUME NEW p \in Procs, AcquireFast(p) PROVE Pool!Enter(p)
  <2>1. Owners' = Owners \cup {p} /\ p \notin Owners \cup Waiters /\ Waiters = {}
    BY <1>1, <1>a DEF Inv, TypeOK, QueueMatchesWaits, Owners, AcquireFast, FastPath
  <2>2. Cardinality(Owners) < Limit
    BY <1>1 DEF Inv, SlotsAccounted, AcquireFast, FastPath
  <2>3. UNCHANGED <<Waiters, priority>>
    BY <1>1 DEF AcquireFast, Waiters
  <2> QED
    BY <2>1, <2>2, <2>3 DEF Pool!Enter, Pool!Cardinality, Cardinality
<1>2. ASSUME NEW p \in Procs, NEW pr \in Priorities, AcquireWait(p, pr)
      PROVE  Pool!Queue(p, pr)
  <2>1. Waiters' = Waiters \cup {p} /\ p \notin Owners \cup Waiters
    BY <1>0, <1>2 DEF Inv, TypeOK, QueueMatchesWaits, Owners, AcquireWait
  <2>2. Cardinality(Owners) = Limit
    BY <1>2, SemAssumption
       DEF Inv, TypeOK, SlotsAccounted, NoIdleSlot, AcquireWait, FastPath
  <2>3. Owners' = Owners
    BY <1>2 DEF Inv, TypeOK, Owners, AcquireWait
  <2>4. priority' = [priority EXCEPT ![p] = pr]
    BY <1>2 DEF AcquireWait
  <2> QED
    BY <2>1, <2>2, <2>3, <2>4 DEF Pool!Queue, Pool!Cardinality, Cardinality
<1>3. ASSUME NEW p \in Procs, AcquireRefused(p) \/ WakeAgain(p) \/ WakeGranted(p) \/ Cancel(p)
      PROVE  UNCHANGED <<Owners, Waiters, priority>>
  BY <1>3 DEF Inv, TypeOK, Owners, Waiters, AcquireRefused, WakeAgain, WakeGranted, Cancel
<1>4. ASSUME NEW p \in Procs, WakeCancelled(p) PROVE Pool!Withdraw(p)
  <2>1. p \in Waiters /\ Waiters' = Waiters \ {p}
    BY <1>0, <1>4 DEF Inv, TypeOK, QueueMatchesWaits, WakeCancelled
  <2>2. UNCHANGED <<Owners, priority>>
    BY <1>4 DEF Inv, TypeOK, Owners, WakeCancelled
  <2> QED
    BY <2>1, <2>2 DEF Pool!Withdraw
<1>5. ASSUME NEW p \in Procs, ReleaseFree(p) PROVE Pool!Leave(p)
  <2>1. p \in Owners /\ Owners' = Owners \ {p} /\ Waiters = {}
    BY <1>5, <1>a DEF Inv, TypeOK, QueueMatchesWaits, Owners, ReleaseFree
  <2>2. UNCHANGED <<Waiters, priority>>
    BY <1>5 DEF ReleaseFree, Waiters
  <2> QED
    BY <2>1, <2>2 DEF Pool!Leave
<1>6. ASSUME NEW p \in Procs, ReleaseGrant(p) PROVE Pool!HandOver(p, Head(waiters))
  <2> DEFINE q == Head(waiters)
  <2>1. /\ q \in Procs /\ q \notin Owners /\ pc[q] \in {"parked", "woken"}
        /\ Waiters' = Waiters \ {q}
        /\ \A r \in Waiters : priority[r] <= priority[q]
    BY <1>6, GrantTarget, HeadOutranks DEF ReleaseGrant
  <2>2. q \in Waiters
    BY <2>1 DEF Inv, QueueMatchesWaits, Owners
  <2>3. ready' = ready \cup {q} /\ UNCHANGED priority
    BY <1>6 DEF ReleaseGrant
  <2> HIDE DEF q
  <2>4. p \in Owners /\ Owners' = (Owners \ {p}) \cup {q}
    BY <1>6, <2>1, <2>3
       DEF Inv, TypeOK, QueueMatchesWaits, Owners, ReleaseGrant, Broadcast
  <2> QED
    BY <2>1, <2>2, <2>3, <2>4 DEF Pool!HandOver, q
<1>7. CASE UNCHANGED vars
  BY <1>7 DEF vars, Owners, Waiters
<1>8. ASSUME NEW p \in Procs, ReleaseGrant(p) PROVE Head(waiters) \in Procs
  BY <1>8, GrantTarget DEF ReleaseGrant
<1> QED
  BY <1>1, <1>2, <1>3, <1>4, <1>5, <1>6, <1>7, <1>8 DEF Next, Wake, Release, Pool!Next

\* The semaphore with its queue, flags and condition variable implements the slot
\* pool: at most Limit inside, a slot free only when nobody waits, and each freed
\* slot handed to a waiter of the highest rank.
THEOREM Refinement == Spec => ImplementsPool
<1>1. Init => Pool!Init
  BY DEF Init, Pool!Init, Owners, Waiters, ToSet
<1>2. Inv /\ [Next]_vars => [Pool!Next]_(Pool!poolVars)
  BY PoolStep
<1> QED
  BY <1>1, <1>2, Invariance, PTL DEF Spec, ImplementsPool, Pool!Spec
=============================================================================
