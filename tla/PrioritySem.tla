----------------------------- MODULE PrioritySem -----------------------------
(***************************************************************************)
(* The priority semaphore of the streaming path: budgetSem (reader.go, the *)
(* global window budget) and its twin hostSem (cdn.go, the per-host        *)
(* connection limit).  A mutex guards the state, a sync.Cond parks the     *)
(* waiters.  The mutex is never held across anything but cond.Wait, which  *)
(* gives it up, so a critical section is one action here.                  *)
(***************************************************************************)
EXTENDS Integers, FiniteSets, Sequences, SequencesExt

CONSTANTS Procs,      \* goroutines that call acquire and release
          Limit,      \* budgetSem.limit
          Priorities  \* 0 = scan, 1 = playback

ASSUME SemAssumption ==
  /\ IsFiniteSet(Procs)
  /\ Limit \in Nat \ {0}
  /\ Priorities \subseteq Nat
  /\ Priorities # {}

VARIABLES held,      \* budgetSem.held
          waiters,   \* budgetSem.waiters, as the processes that own the entries
          ready,     \* processes whose budgetWaiter has ready = true
          priority,  \* budgetWaiter.priority of a process's last request
          pc,        \* where a process stands in acquire
          ctxDone    \* processes whose request context is cancelled

vars == <<held, waiters, ready, priority, pc, ctxDone>>

Waiters == ToSet(waiters)

\* Processes that own a slot: acquire has returned nil, or is about to.
Owners == {p \in Procs : pc[p] = "holding"} \cup ready

Init ==
  /\ held = 0
  /\ waiters = <<>>
  /\ ready = {}
  /\ priority \in [Procs -> Priorities]
  /\ pc = [p \in Procs |-> "idle"]
  /\ ctxDone = {}

\* Mutant: one slot too many.
FastPathOffByOne == held <= Limit /\ waiters = <<>>

FastPath == held < Limit /\ waiters = <<>>

\* Mutants: plain FIFO; a newcomer in front of its equals.
InsertPosAtEnd(pr) == Len(waiters) + 1
InsertPosBeforeEquals(pr) ==
  LET lower == {i \in 1..Len(waiters) : priority[waiters[i]] <= pr}
  IN IF lower = {} THEN Len(waiters) + 1 ELSE Min(lower)

\* Index at which a request of rank pr enters the queue: in front of the first
\* waiter of a lower rank, else at the end.
InsertPos(pr) ==
  LET lower == {i \in 1..Len(waiters) : priority[waiters[i]] < pr}
  IN IF lower = {} THEN Len(waiters) + 1 ELSE Min(lower)

\* The queue with the entry of p taken out, the others in their order.
RemoveWaiter(p) ==
  LET i == CHOOSE j \in 1..Len(waiters) : waiters[j] = p
  IN IF p \in Waiters THEN RemoveAt(waiters, i) ELSE waiters

AcquireFast(p) ==
  /\ pc[p] = "idle"
  /\ FastPath
  /\ held' = held + 1
  /\ pc' = [pc EXCEPT ![p] = "holding"]
  /\ UNCHANGED <<waiters, ready, priority, ctxDone>>

\* The waiter queues up and parks in cond.Wait.
AcquireWait(p, pr) ==
  /\ pc[p] = "idle"
  /\ ~FastPath
  /\ p \notin ctxDone
  /\ waiters' = InsertAt(waiters, InsertPos(pr), p)
  /\ priority' = [priority EXCEPT ![p] = pr]
  /\ pc' = [pc EXCEPT ![p] = "parked"]
  /\ UNCHANGED <<held, ready, ctxDone>>

\* A context that is dead already: in and out of the queue in one critical section.
AcquireRefused(p) ==
  /\ pc[p] = "idle"
  /\ ~FastPath
  /\ p \in ctxDone
  /\ ctxDone' = ctxDone \ {p}
  /\ UNCHANGED <<held, waiters, ready, priority, pc>>

\* cond.Wait returns to a waiter that was granted a slot, cancelled or not.
WakeGranted(p) ==
  /\ pc[p] = "woken"
  /\ p \in ready
  /\ ready' = ready \ {p}
  /\ pc' = [pc EXCEPT ![p] = "holding"]
  /\ UNCHANGED <<held, waiters, priority, ctxDone>>

\* Mutants: w.ready is not looked at on cancellation; cancellation is not looked at.
WakeCancelledDropsGrant(p) ==
  /\ pc[p] = "woken"
  /\ p \in ctxDone
  /\ waiters' = RemoveWaiter(p)
  /\ ready' = ready \ {p}
  /\ pc' = [pc EXCEPT ![p] = "idle"]
  /\ ctxDone' = ctxDone \ {p}
  /\ UNCHANGED <<held, priority>>
WakeCancelledWaitsOn(p) ==
  /\ pc[p] = "woken"
  /\ p \notin ready
  /\ pc' = [pc EXCEPT ![p] = "parked"]
  /\ UNCHANGED <<held, waiters, ready, priority, ctxDone>>

\* cond.Wait returns, no slot, context cancelled: leave the queue with an error.
WakeCancelled(p) ==
  /\ pc[p] = "woken"
  /\ p \notin ready
  /\ p \in ctxDone
  /\ waiters' = RemoveWaiter(p)
  /\ pc' = [pc EXCEPT ![p] = "idle"]
  /\ ctxDone' = ctxDone \ {p}
  /\ UNCHANGED <<held, ready, priority>>

\* cond.Wait returns for another's sake: wait again.
WakeAgain(p) ==
  /\ pc[p] = "woken"
  /\ p \notin ready
  /\ p \notin ctxDone
  /\ pc' = [pc EXCEPT ![p] = "parked"]
  /\ UNCHANGED <<held, waiters, ready, priority, ctxDone>>

\* Mutant: the grant is not signalled.
BroadcastMissing == pc

Broadcast ==
  [q \in Procs |-> IF pc[q] = "parked" THEN "woken" ELSE pc[q]]

\* Mutant: release never looks at the queue.
ReleaseFreeIgnoresQueue(p) ==
  /\ pc[p] = "holding"
  /\ held' = held - 1
  /\ pc' = [pc EXCEPT ![p] = "idle"]
  /\ ctxDone' = ctxDone \ {p}
  /\ UNCHANGED <<waiters, ready, priority>>

\* release with nobody waiting: the slot becomes free.
ReleaseFree(p) ==
  /\ pc[p] = "holding"
  /\ waiters = <<>>
  /\ held' = held - 1
  /\ pc' = [pc EXCEPT ![p] = "idle"]
  /\ ctxDone' = ctxDone \ {p}
  /\ UNCHANGED <<waiters, ready, priority>>

\* release with waiters: held-- and held++ around the grant to the first of them.
ReleaseGrant(p) ==
  /\ pc[p] = "holding"
  /\ waiters # <<>>
  /\ waiters' = Tail(waiters)
  /\ ready' = ready \cup {Head(waiters)}
  /\ pc' = [Broadcast EXCEPT ![p] = "idle"]
  /\ ctxDone' = ctxDone \ {p}
  /\ UNCHANGED <<held, priority>>

Release(p) == ReleaseFree(p) \/ ReleaseGrant(p)

\* The caller's context ends, at any time; nothing is signalled to the cond.
Cancel(p) ==
  /\ p \notin ctxDone
  /\ ctxDone' = ctxDone \cup {p}
  /\ UNCHANGED <<held, waiters, ready, priority, pc>>

Wake(p) == WakeGranted(p) \/ WakeCancelled(p) \/ WakeAgain(p)

Next ==
  \E p \in Procs :
    \/ AcquireFast(p)
    \/ \E pr \in Priorities : AcquireWait(p, pr)
    \/ AcquireRefused(p)
    \/ Wake(p)
    \/ Release(p)
    \/ Cancel(p)

Spec == Init /\ [][Next]_vars

\* A woken goroutine gets to run; a holder's deferred release runs.
Fairness == \A p \in Procs : WF_vars(Wake(p)) /\ WF_vars(Release(p))

FairSpec == Spec /\ Fairness
-----------------------------------------------------------------------------
\* The types of the semaphore's state; held never exceeds the limit.
TypeOK ==
  /\ held \in 0..Limit
  /\ waiters \in Seq(Procs)
  /\ ready \subseteq Procs
  /\ priority \in [Procs -> Priorities]
  /\ pc \in [Procs -> {"idle", "parked", "woken", "holding"}]
  /\ ctxDone \subseteq Procs

\* No slot is lost or invented: held counts the processes that own one, through
\* hand-over, cancellation and late wake-ups.
SlotsAccounted == held = Cardinality(Owners)

\* Nobody waits next to a free slot (the fast path and release rely on it).
NoIdleSlot == waiters # <<>> => held = Limit

\* A request sits in the queue once while it waits without a grant, and a grant
\* always finds its process awake: no wake-up is lost.
QueueMatchesWaits ==
  /\ IsInjective(waiters)
  /\ Waiters = {p \in Procs : pc[p] \in {"parked", "woken"}} \ ready
  /\ \A p \in ready : pc[p] = "woken"

\* The queue stands in priority order after any inserts and withdrawals.
QueueSorted ==
  \A i, j \in 1..Len(waiters) :
    i < j => priority[waiters[i]] >= priority[waiters[j]]

Before(s, p, q) == \E i, j \in 1..Len(s) : i < j /\ s[i] = p /\ s[j] = q

\* Requests of one rank are served first come, first served: a step never lets a
\* process pass another unless it arrives with a higher rank, and a slot never
\* goes to a process that has somebody in front of it.
FirstComeFirstServed ==
  [][\A p, q \in Procs :
       /\ p \in Waiters /\ Before(waiters', q, p) =>
            Before(waiters, q, p) \/ priority'[q] > priority[p]
       /\ p \in Waiters /\ q \in Owners' \ Owners =>
            q = p \/ Before(waiters, q, p)]_vars

\* A playback request (highest rank) gets a slot or gives up.
PlaybackServed ==
  \A p \in Procs :
    (/\ pc[p] \in {"parked", "woken"}
     /\ \A pr \in Priorities : priority[p] >= pr)
      ~> pc[p] \in {"holding", "idle"}

\* A waiter of any rank whose context is cancelled leaves acquire, although the
\* cancellation itself signals nobody.
CancelledLeaves ==
  \A p \in Procs :
    (pc[p] \in {"parked", "woken"} /\ p \in ctxDone)
      ~> pc[p] \in {"holding", "idle"}

\* The semaphore implements the slot pool its callers reason with.
Pool == INSTANCE SlotPool WITH inside <- Owners, waiting <- Waiters,
                               rank <- priority
ImplementsPool == Pool!Spec
=============================================================================
