-------------------------- MODULE APIClientProofs --------------------------
(***************************************************************************)
(* For any callers, accounts, page size and number of attempts: the slot   *)
(* for API requests is given back on every path, fewer passing failures    *)
(* than attempts never make a listing fail, the response cache keeps its   *)
(* limit, and a listing misses or repeats a download only when the account *)
(* has shifted under the pages it had read.                                *)
(***************************************************************************)
EXTENDS APIClient, SequenceLemmas, FiniteSetTheorems, TLAPS

Fields == {"pc", "op", "item", "offset", "attempt", "got", "result", "done",
           "steady", "removed", "pushed"}

\* Calls are records with these fields.
Shape ==
  /\ call = [c \in Callers |-> call[c]]
  /\ \A c \in Callers : call[c] = [f \in Fields |-> call[c][f]]

Inside == {"send", "wait", "backoff"}

\* What a call in state r has cost after f passing failures and g others: each attempt
\* but the first follows a failure, and a dead context is one of the others.
Paid(r, f, g) ==
  /\ r.attempt \in Nat
  /\ r.done = TRUE => g > 0
  /\ r.op = "list" /\ g = 0 =>
       /\ r.pc = "send" => f >= r.attempt
       /\ r.pc \in {"wait", "backoff"} => f >= r.attempt + 1
       /\ r.result = "failed" => f >= MaxRetries

\* The inductive invariant.
Inv ==
  /\ Shape
  /\ SlotOwned
  /\ faults \in Nat /\ fatal \in Nat
  /\ \A c \in Callers : Paid(call[c], faults, fatal)

LEMMA InvAbsorb == Inv => RetriesAbsorb
BY APIAssumption DEF Inv, Paid, RetriesAbsorb

LEMMA InitInv == Init => Inv
<1> SUFFICES ASSUME Init PROVE Inv
  OBVIOUS
<1>1. Shape
  BY DEF Init, NoCall, Shape, Fields
<1>2. SlotOwned
  BY APIAssumption DEF Init, NoCall, SlotOwned, Callers
<1>3. \A c \in Callers : Paid(call[c], faults, fatal)
  BY DEF Init, NoCall, Paid
<1> QED BY <1>1, <1>2, <1>3 DEF Init, Inv

\* The fields that the invariant looks at.
Same(d) ==
  /\ call'[d].pc = call[d].pc /\ call'[d].op = call[d].op
  /\ call'[d].attempt = call[d].attempt /\ call'[d].result = call[d].result
  /\ call'[d].done = call[d].done

\* Failures are only counted up.
Counted == faults' \in Nat /\ fatal' \in Nat /\ faults' >= faults /\ fatal' >= fatal

LEMMA BoundsCounted ==
  ASSUME Inv, Fault \/ Fatal \/ Change \/ UNCHANGED bounds
  PROVE  Counted
BY DEF Inv, Fault, Fatal, Change, bounds, Counted

\* What an operation on the slot may do when call c takes a step.
SlotKept(c) == slot' = slot /\ (call'[c].pc \in Inside <=> call[c].pc \in Inside)
SlotTaken(c) == slot = None /\ slot' = c /\ call'[c].pc \in Inside
SlotFreed(c) == slot' = None /\ call[c].pc \in Inside /\ call'[c].pc \notin Inside

\* A step of one call that pays for what it does and minds the slot.
LEMMA OneCall ==
  ASSUME Inv, NEW c \in Callers, Shape', Counted,
         \A d \in Callers : d # c => Same(d),
         Paid(call'[c], faults', fatal'),
         SlotKept(c) \/ SlotTaken(c) \/ SlotFreed(c)
  PROVE  Inv'
<1>0. None \notin Callers
  BY APIAssumption DEF Callers
<1>1. SlotOwned'
  <2>1. \A d \in Callers : slot = d <=> call[d].pc \in Inside
    BY DEF Inv, SlotOwned, Inside
  <2>2. \A d \in Callers : slot' = d <=> call'[d].pc \in Inside
    BY <1>0, <2>1 DEF Same, SlotKept, SlotTaken, SlotFreed
  <2> QED BY <2>2 DEF SlotOwned, Inside
<1>2. \A d \in Callers : Paid(call[d], faults, fatal)'
  <2> SUFFICES ASSUME NEW d \in Callers, d # c PROVE Paid(call'[d], faults', fatal')
    BY DEF Paid
  <2> QED BY APIAssumption DEF Inv, Paid, Same, Counted
<1> QED BY <1>1, <1>2 DEF Inv, Counted

\* A call begins, gets the slot, waits and tries again, or is over.
LEMMA PaceInv ==
  ASSUME Inv, NEW c \in Callers,
         \/ ListDownloads(c) \/ (\E d \in ToSet(account) : DeleteDownload(c, d))
         \/ TakeSlot(c) \/ RetryAfterPasses(c) \/ Backoff(c) \/ Finish(c)
  PROVE  Inv'
<1> USE DEF Inv, Shape, Fields
<1>0. Counted
  BY BoundsCounted DEF ListDownloads, DeleteDownload, TakeSlot, RetryAfterPasses, Backoff, Finish
<1>1. CASE ListDownloads(c)
  <2>1. Shape' /\ \A d \in Callers : d # c => Same(d)
    BY <1>1 DEF ListDownloads, NoCall, Same
  <2>2. SlotKept(c) /\ Paid(call'[c], faults', fatal')
    BY <1>1 DEF ListDownloads, NoCall, SlotKept, Inside, Paid
  <2> QED BY <1>0, <2>1, <2>2, OneCall
<1>2. ASSUME NEW x \in ToSet(account), DeleteDownload(c, x) PROVE Inv'
  <2>1. Shape' /\ \A d \in Callers : d # c => Same(d)
    BY <1>2 DEF DeleteDownload, NoCall, Same
  <2>2. SlotKept(c) /\ Paid(call'[c], faults', fatal')
    BY <1>2 DEF DeleteDownload, NoCall, SlotKept, Inside, Paid
  <2> QED BY <1>0, <2>1, <2>2, OneCall
<1>3. CASE TakeSlot(c)
  <2>1. Shape' /\ \A d \in Callers : d # c => Same(d)
    BY <1>3 DEF TakeSlot, Same
  <2>a. /\ call'[c].pc = "send" /\ call'[c].attempt = 0
        /\ call'[c].op = call[c].op /\ call'[c].result = call[c].result
        /\ call'[c].done = call[c].done
    BY <1>3 DEF TakeSlot
  <2>2. SlotTaken(c) /\ Paid(call'[c], faults', fatal')
    BY <1>3, <2>a DEF TakeSlot, SlotTaken, Inside, Paid, bounds
  <2> QED BY <1>0, <2>1, <2>2, OneCall
<1>4. CASE RetryAfterPasses(c)
  <2>1. Shape' /\ \A d \in Callers : d # c => Same(d)
    BY <1>4 DEF RetryAfterPasses, Same
  <2>2. SlotKept(c) /\ Paid(call'[c], faults', fatal')
    BY <1>4 DEF RetryAfterPasses, SlotKept, Inside, Paid, bounds
  <2> QED BY <1>0, <2>1, <2>2, OneCall
<1>5. CASE Backoff(c)
  <2>1. Shape' /\ \A d \in Callers : d # c => Same(d)
    BY <1>5 DEF Backoff, Same
  <2>a. /\ call'[c].pc = "send" /\ call'[c].attempt = call[c].attempt + 1
        /\ call'[c].op = call[c].op /\ call'[c].result = call[c].result
        /\ call'[c].done = call[c].done
    BY <1>5 DEF Backoff
  <2>2. SlotKept(c) /\ Paid(call'[c], faults', fatal')
    BY <1>5, <2>a DEF Backoff, SlotKept, Inside, Paid, bounds
  <2> QED BY <1>0, <2>1, <2>2, OneCall
<1>6. CASE Finish(c)
  <2>1. Shape' /\ \A d \in Callers : d # c => Same(d)
    BY <1>6 DEF Finish, NoCall, Same
  <2>2. SlotKept(c) /\ Paid(call'[c], faults', fatal')
    BY <1>6 DEF Finish, NoCall, SlotKept, Inside, Paid
  <2> QED BY <1>0, <2>1, <2>2, OneCall
<1> QED BY <1>1, <1>2, <1>3, <1>4, <1>5, <1>6

\* An answer to a page of a listing, good or bad.
LEMMA GetInv ==
  ASSUME Inv, NEW c \in Callers,
         \/ PageArrives(c) \/ GetFails(c) \/ GetLimited(c) \/ GetRejected(c)
         \/ GetMalformed(c) \/ RetryAfterCancelled(c)
  PROVE  Inv'
<1> USE DEF Inv, Shape, Fields
<1>1. CASE PageArrives(c)
  <2> DEFINE last == IsLastPage(Page(call[c].offset))
             label == IF last THEN "returned" ELSE "slot"
             result == IF last THEN "ok" ELSE "none"
             offset == IF last THEN call[c].offset ELSE NextOffset(call[c].offset)
             got == [d \in Items |-> call[c].got[d] +
                       IF d \in ToSet(Page(call[c].offset)) \cap Cached THEN 1 ELSE 0]
  <2>0. call' = [call EXCEPT ![c] = [call[c] EXCEPT
                   !.pc = label, !.result = result, !.offset = offset, !.got = got]]
    BY <1>1 DEF PageArrives
  <2>a. label \notin Inside /\ result # "failed" /\ label \notin {"send", "wait", "backoff"}
    BY DEF Inside
  <2> HIDE DEF label, result, offset, got
  <2>b. /\ call'[c].pc = label /\ call'[c].result = result
        /\ call'[c].op = call[c].op /\ call'[c].attempt = call[c].attempt
        /\ call'[c].done = call[c].done
    BY <2>0
  <2>1. Shape' /\ \A d \in Callers : d # c => Same(d)
    BY <2>0 DEF Same
  <2>2. Counted
    BY <1>1, BoundsCounted DEF PageArrives
  <2>3. SlotFreed(c) /\ Paid(call'[c], faults', fatal')
    BY <1>1, <2>a, <2>b DEF PageArrives, SlotFreed, Inside, Paid, bounds
  <2> QED BY <2>1, <2>2, <2>3, OneCall
<1>2. CASE GetFails(c)
  <2> DEFINE more == MoreAttempts(c)
             r == IF more THEN [call[c] EXCEPT !.pc = "backoff"]
                  ELSE [call[c] EXCEPT !.pc = "returned", !.result = "failed"]
  <2>1. call' = [call EXCEPT ![c] = r]
    BY <1>2 DEF GetFails, Return
  <2>2. /\ r = [f \in Fields |-> r[f]]
        /\ r.attempt = call[c].attempt /\ r.op = call[c].op /\ r.done = call[c].done
        /\ more => r.pc = "backoff" /\ r.result = call[c].result
        /\ ~more => r.pc = "returned" /\ r.result = "failed"
    OBVIOUS
  <2> HIDE DEF r, more
  <2>3. Shape' /\ call'[c] = r /\ \A d \in Callers : d # c => Same(d)
    BY <2>1, <2>2 DEF Same
  <2>4. Counted /\ (call[c].done = TRUE \/ faults' = faults + 1) /\ fatal' = fatal
    BY <1>2, BoundsCounted DEF GetFails, Fault, bounds
  <2>5. ~more => call[c].attempt + 1 >= MaxRetries
    BY APIAssumption DEF MoreAttempts, Paid, more
  <2>6. Paid(r, faults', fatal')
    <3>1. Paid(call[c], faults, fatal) /\ call[c].pc = "send"
          /\ faults \in Nat /\ fatal \in Nat /\ MaxRetries \in Nat
      BY <1>2, APIAssumption DEF GetFails
    <3> QED BY <2>2, <2>4, <2>5, <3>1 DEF Paid, Counted
  <2>7. SlotKept(c) \/ SlotFreed(c)
    BY <1>2, <2>2, <2>3 DEF GetFails, Return, SlotKept, SlotFreed, Inside, more
  <2> QED BY <2>3, <2>4, <2>6, <2>7, OneCall
<1>3. CASE GetLimited(c)
  <2>1. Shape' /\ \A d \in Callers : d # c => Same(d)
    BY <1>3 DEF GetLimited, Same
  <2>2. Counted
    BY <1>3, BoundsCounted DEF GetLimited
  <2>3. /\ call'[c].pc = "wait" /\ call'[c].attempt = call[c].attempt
        /\ call'[c].op = call[c].op /\ call'[c].result = call[c].result
        /\ call'[c].done = call[c].done
    BY <1>3 DEF GetLimited
  <2>4. SlotKept(c) /\ Paid(call'[c], faults', fatal')
    BY <1>3, <2>3, APIAssumption DEF GetLimited, SlotKept, Inside, Paid, Fault
  <2> QED BY <2>1, <2>2, <2>4, OneCall
<1>4. CASE GetRejected(c) \/ GetMalformed(c)
  <2>1. Shape' /\ \A d \in Callers : d # c => Same(d)
    BY <1>4 DEF GetRejected, GetMalformed, Return, Same
  <2>2. Counted
    BY <1>4, BoundsCounted DEF GetRejected, GetMalformed, FatalUnlessDone
  <2>3. SlotFreed(c) /\ Paid(call'[c], faults', fatal')
    BY <1>4 DEF GetRejected, GetMalformed, Return, SlotFreed, Inside, Paid, FatalUnlessDone,
                Fatal, bounds
  <2> QED BY <2>1, <2>2, <2>3, OneCall
<1>5. CASE RetryAfterCancelled(c)
  <2>1. Shape' /\ \A d \in Callers : d # c => Same(d)
    BY <1>5 DEF RetryAfterCancelled, Return, Same
  <2>2. Counted
    BY <1>5, BoundsCounted DEF RetryAfterCancelled
  <2>3. SlotFreed(c) /\ Paid(call'[c], faults', fatal')
    BY <1>5 DEF RetryAfterCancelled, Return, SlotFreed, Inside, Paid, bounds
  <2> QED BY <2>1, <2>2, <2>3, OneCall
<1> QED BY <1>1, <1>2, <1>3, <1>4, <1>5

\* An answer to a deletion: what it does to the account shows in the histories of
\* listings only.
LEMMA PostInv ==
  ASSUME Inv, NEW c \in Callers, PostApplied(c) \/ PostFails(c)
  PROVE  Inv'
<1> USE DEF Inv, Shape, Fields
<1>1. CASE PostApplied(c)
  <2>1. PICK result \in {"ok", "failed"} :
          /\ IF result = "ok" THEN UNCHANGED bounds ELSE FatalUnlessDone(c)
          /\ call' = Removed([call EXCEPT ![c].pc = "returned", ![c].result = result],
                             call[c].item)
    BY <1>1, Zenon DEF PostApplied
  <2> DEFINE r == [call[c] EXCEPT !.pc = "returned", !.result = result]
             calls == [call EXCEPT ![c] = r]
  <2>2. ~Listing(c) /\ call[c].op = "delete"
    BY <1>1 DEF PostApplied, Listing
  <2>3. /\ call' = Removed(calls, call[c].item)
        /\ r = [f \in Fields |-> r[f]] /\ r.op = "delete" /\ r.pc = "returned"
        /\ r.attempt = call[c].attempt /\ r.done = call[c].done
    BY <2>1, <2>2
  <2> HIDE DEF r
  <2>4. call'[c] = r
    BY <2>2, <2>3 DEF Removed
  <2>5. Shape' /\ \A d \in Callers : d # c => Same(d)
    BY <2>3 DEF Removed, Same
  <2>6. Counted
    BY <2>1, BoundsCounted DEF FatalUnlessDone
  <2>7. SlotFreed(c) /\ Paid(call'[c], faults', fatal')
    BY <1>1, <2>3, <2>4, <2>6 DEF PostApplied, SlotFreed, Inside, Paid, Counted
  <2> QED BY <2>5, <2>6, <2>7, OneCall
<1>2. CASE PostFails(c)
  <2>1. Shape' /\ \A d \in Callers : d # c => Same(d)
    BY <1>2 DEF PostFails, Return, Same
  <2>2. Counted
    BY <1>2, BoundsCounted DEF PostFails, FatalUnlessDone
  <2>3. SlotFreed(c) /\ Paid(call'[c], faults', fatal')
    BY <1>2, <2>2 DEF PostFails, Return, SlotFreed, Inside, Paid, Counted
  <2> QED BY <2>1, <2>2, <2>3, OneCall
<1> QED BY <1>1, <1>2

\* Steps of the environment: a context ends, the account changes.
LEMMA EnvironmentInv ==
  ASSUME Inv,
         \/ \E c \in Callers : Cancel(c)
         \/ \E d \in Items : DownloadAdded(d) \/ DownloadRemoved(d)
         \/ UNCHANGED vars
  PROVE  Inv'
<1>1. ASSUME NEW c \in Callers, Cancel(c) PROVE Inv'
  <2> USE DEF Inv, Shape, Fields
  <2>1. Shape' /\ \A d \in Callers : d # c => Same(d)
    BY <1>1 DEF Cancel, Same
  <2>2. Counted /\ fatal' > 0
    BY <1>1, BoundsCounted DEF Cancel, Fatal
  <2>3. SlotKept(c)
    BY <1>1 DEF Cancel, SlotKept, Inside
  <2>4. call'[c].attempt = call[c].attempt
    BY <1>1 DEF Cancel
  <2>5. Paid(call'[c], faults', fatal')
    BY <2>2, <2>4 DEF Paid
  <2> QED BY <2>1, <2>2, <2>3, <2>5, OneCall
<1>2. ASSUME Shape', Counted, slot' = slot, \A d \in Callers : Same(d) PROVE Inv'
  <2>1. SlotOwned'
    BY <1>2 DEF Inv, SlotOwned, Same
  <2>2. \A d \in Callers : Paid(call[d], faults, fatal)'
    BY <1>2, APIAssumption DEF Inv, Paid, Same, Counted
  <2> QED BY <1>2, <2>1, <2>2 DEF Inv, Counted
<1>3. ASSUME NEW d \in Items, DownloadAdded(d) PROVE Inv'
  <2>1. Shape' /\ \A c \in Callers : Same(c)
    BY <1>3 DEF DownloadAdded, PutInFront, Inv, Shape, Fields, Same
  <2>2. Counted /\ slot' = slot
    BY <1>3, BoundsCounted DEF DownloadAdded
  <2> QED BY <1>2, <2>1, <2>2
<1>4. ASSUME NEW d \in Items, DownloadRemoved(d) PROVE Inv'
  <2>1. Shape' /\ \A c \in Callers : Same(c)
    BY <1>4 DEF DownloadRemoved, Removed, Inv, Shape, Fields, Same
  <2>2. Counted /\ slot' = slot
    BY <1>4, BoundsCounted DEF DownloadRemoved
  <2> QED BY <1>2, <2>1, <2>2
<1>5. CASE UNCHANGED vars
  <2>1. Shape' /\ \A c \in Callers : Same(c)
    BY <1>5 DEF vars, Inv, Shape, Same
  <2>2. Counted /\ slot' = slot
    BY <1>5, BoundsCounted DEF vars, bounds
  <2> QED BY <1>2, <2>1, <2>2
<1> QED BY <1>1, <1>3, <1>4, <1>5

LEMMA SpecInv == Spec => []Inv
<1>1. Inv /\ [Next]_vars => Inv'
  <2> SUFFICES ASSUME Inv, [Next]_vars PROVE Inv'
    OBVIOUS
  <2>1. ASSUME NEW c \in Callers, Serve(c) PROVE Inv'
    BY <2>1, PaceInv, GetInv, PostInv DEF Serve
  <2>2. ASSUME NEW c \in Callers, TakeSlot(c) PROVE Inv'
    BY <2>2, PaceInv
  <2>3. ASSUME NEW c \in Refreshers, ListDownloads(c) PROVE Inv'
    BY <2>3, PaceInv DEF Callers
  <2>4. ASSUME NEW c \in Deleters, NEW d \in ToSet(account), DeleteDownload(c, d) PROVE Inv'
    BY <2>4, PaceInv DEF Callers
  <2> QED BY <2>1, <2>2, <2>3, <2>4, EnvironmentInv DEF Next
<1> QED BY InitInv, <1>1, PTL DEF Spec

\* The slot for API requests belongs to a call that is still using it, one at a time,
\* through retries, Retry-After, cancellations and early returns.
THEOREM SlotGivenBack == Spec => []SlotOwned
<1>1. Inv => SlotOwned BY DEF Inv
<1> QED BY SpecInv, <1>1, PTL

\* For any number of attempts, fewer passing failures than that never make a listing
\* fail.
THEOREM FailuresAbsorbed == Spec => []RetriesAbsorb
BY SpecInv, InvAbsorb, PTL
-----------------------------------------------------------------------------
(* What happens to the account, seen from a listing that has read it up to *)
(* an offset.                                                              *)

\* Download d is in the list a past offset o.
Ahead(a, d, o) == \E i \in 1..Len(a) : i > o /\ a[i] = d

\* Taking out an element closes the gap: nothing gets past an offset that was not, and
\* what was stays there unless the gap was in front of it.
LEMMA RemoveAhead ==
  ASSUME NEW S, NEW a \in Seq(S), IsInjective(a), NEW d \in ToSet(a)
  PROVE  LET b == RemoveFirst(a, d)
         IN /\ b \in Seq(S) /\ IsInjective(b) /\ ToSet(b) = ToSet(a) \ {d}
            /\ \A x, o : o \in Nat /\ Ahead(b, x, o) => Ahead(a, x, o)
            /\ \A x, o : o \in Nat /\ Ahead(a, d, o) /\ x # d /\ Ahead(a, x, o)
                 => Ahead(b, x, o)
<1> DEFINE b == RemoveFirst(a, d)
<1>2. PICK p \in 1..Len(a) : a[p] = d /\ b = RemoveAt(a, p)
  BY RemoveFirstAt
<1>3. b = RemoveAt(a, p)
  BY <1>2
<1> HIDE DEF b
<1>4. /\ b \in Seq(S) /\ Len(b) = Len(a) - 1
      /\ \A i \in 1..Len(a)-1 : b[i] = IF i < p THEN a[i] ELSE a[i+1]
  BY <1>2, <1>3, RemoveAtProperties
<1>5. IsInjective(b) /\ ToSet(b) = ToSet(a) \ {d}
  BY <1>2, <1>3, RemoveElements
<1>6. ASSUME NEW x, NEW o \in Nat, Ahead(b, x, o) PROVE Ahead(a, x, o)
  <2>1. PICK i \in 1..Len(b) : i > o /\ b[i] = x
    BY <1>6 DEF Ahead
  <2>2. \/ i \in 1..Len(a) /\ a[i] = x
        \/ i + 1 \in 1..Len(a) /\ a[i+1] = x
    BY <1>4, <2>1
  <2>3. i + 1 > o
    BY <2>1
  <2> QED BY <2>1, <2>2, <2>3 DEF Ahead
<1>7. ASSUME NEW x, NEW o \in Nat, Ahead(a, d, o), x # d, Ahead(a, x, o) PROVE Ahead(b, x, o)
  <2>1. p > o
    <3>1. PICK j \in 1..Len(a) : j > o /\ a[j] = d
      BY <1>7 DEF Ahead
    <3> QED BY <1>2, <3>1, InjectiveByIndex
  <2>2. PICK i \in 1..Len(a) : i > o /\ a[i] = x
    BY <1>7 DEF Ahead
  <2>3. CASE i < p
    <3>1. i \in 1..Len(b) /\ b[i] = x
      BY <1>2, <1>4, <2>2, <2>3
    <3> QED BY <2>2, <3>1 DEF Ahead
  <2>4. CASE i > p
    <3>1. i - 1 \in 1..Len(b) /\ b[i - 1] = x /\ i - 1 > o
      BY <1>2, <1>4, <2>1, <2>2, <2>4
    <3> QED BY <3>1 DEF Ahead
  <2> QED BY <1>2, <1>7, <2>2, <2>3, <2>4
<1> QED BY <1>4, <1>5, <1>6, <1>7 DEF b

\* A download in front of the list moves the others back.
LEMMA FrontAhead ==
  ASSUME NEW S, NEW a \in Seq(S), IsInjective(a), NEW d \in S, d \notin ToSet(a)
  PROVE  LET b == <<d>> \o a
         IN /\ b \in Seq(S) /\ IsInjective(b) /\ ToSet(b) = ToSet(a) \cup {d}
            /\ \A x, o : o \in Nat /\ Ahead(a, x, o) => Ahead(b, x, o)
            /\ Len(a) = 0 => \A x, o : o \in Nat \ {0} => ~Ahead(b, x, o)
<1> DEFINE b == <<d>> \o a
<1>1. b \in Seq(S) /\ Len(b) = Len(a) + 1 /\ b[1] = d /\ Len(a) \in Nat
      /\ \A i \in 1..Len(a) : i + 1 \in 1..Len(b) /\ b[i+1] = a[i]
  OBVIOUS
<1> HIDE DEF b
<1>2. ASSUME NEW i \in 1..Len(b) PROVE i = 1 \/ (i - 1 \in 1..Len(a) /\ b[i] = a[i-1])
  <2>1. CASE i # 1
    <3>1. i - 1 \in 1..Len(a) /\ (i - 1) + 1 = i
      BY <1>1, <2>1
    <3>2. \A k \in 1..Len(a) : b[k + 1] = a[k]
      BY <1>1
    <3>3. b[(i - 1) + 1] = a[i - 1]
      BY <3>1, <3>2, Zenon
    <3> QED BY <3>1, <3>3
  <2> QED BY <2>1
<1>3. ToSet(b) = ToSet(a) \cup {d}
  <2>1. \A x : x \in ToSet(b) <=> \E i \in 1..Len(b) : b[i] = x
    BY <1>1, ToSetByIndex
  <2>2. \A x : x \in ToSet(a) <=> \E i \in 1..Len(a) : a[i] = x
    BY ToSetByIndex
  <2>3. 1 \in 1..Len(b)
    BY <1>1
  <2> QED BY <1>1, <1>2, <2>1, <2>2, <2>3
<1>4. IsInjective(b)
  <2>1. \A i, j \in 1..Len(a) : a[i] = a[j] => i = j
    BY InjectiveByIndex
  <2>2. \A i \in 1..Len(a) : a[i] # d
    BY ToSetByIndex
  <2>3. ASSUME NEW i \in 1..Len(b), NEW j \in 1..Len(b), b[i] = b[j] PROVE i = j
    <3>1. CASE i = 1 \/ j = 1
      BY <1>1, <1>2, <2>2, <2>3, <3>1
    <3>2. CASE i # 1 /\ j # 1
      <4>1. i - 1 \in 1..Len(a) /\ j - 1 \in 1..Len(a) /\ a[i-1] = a[j-1]
        BY <1>2, <2>3, <3>2
      <4>2. i - 1 = j - 1
        BY <2>1, <4>1
      <4> QED BY <4>2
    <3> QED BY <3>1, <3>2
  <2> QED BY <1>1, <2>3, InjectiveByIndex
<1>5. ASSUME NEW x, NEW o \in Nat, Ahead(a, x, o) PROVE Ahead(b, x, o)
  <2>1. PICK i \in 1..Len(a) : i > o /\ a[i] = x
    BY <1>5 DEF Ahead
  <2>2. i + 1 \in 1..Len(b) /\ i + 1 > o /\ b[i+1] = x
    BY <1>1, <2>1
  <2> QED BY <2>2 DEF Ahead
<1>6. ASSUME Len(a) = 0, NEW x, NEW o \in Nat \ {0} PROVE ~Ahead(b, x, o)
  BY <1>1, <1>6 DEF Ahead
<1> QED BY <1>1, <1>3, <1>4, <1>5, <1>6 DEF b

\* A download at the end of the list moves nothing.
LEMMA BackAhead ==
  ASSUME NEW S, NEW a \in Seq(S), IsInjective(a), NEW d \in S, d \notin ToSet(a)
  PROVE  LET b == Append(a, d)
         IN /\ b \in Seq(S) /\ IsInjective(b) /\ ToSet(b) = ToSet(a) \cup {d}
            /\ \A x, o : o \in Nat /\ Ahead(a, x, o) => Ahead(b, x, o)
            /\ \A x, o : o \in Nat /\ Ahead(b, x, o) => x = d \/ Ahead(a, x, o)
<1> DEFINE b == Append(a, d)
<1>1. b \in Seq(S) /\ Len(b) = Len(a) + 1 /\ b[Len(b)] = d /\ Len(a) \in Nat
      /\ \A i \in 1..Len(a) : i \in 1..Len(b) /\ b[i] = a[i]
  OBVIOUS
<1> HIDE DEF b
<1>2. ASSUME NEW i \in 1..Len(b) PROVE i = Len(b) \/ (i \in 1..Len(a) /\ b[i] = a[i])
  <2>1. i = Len(b) \/ i \in 1..Len(a)
    BY <1>1
  <2>2. \A k \in 1..Len(a) : b[k] = a[k]
    BY <1>1
  <2> QED BY <2>1, <2>2
<1>3. ToSet(b) = ToSet(a) \cup {d}
  <2>1. \A x : x \in ToSet(b) <=> \E i \in 1..Len(b) : b[i] = x
    BY <1>1, ToSetByIndex
  <2>2. \A x : x \in ToSet(a) <=> \E i \in 1..Len(a) : a[i] = x
    BY ToSetByIndex
  <2>3. Len(b) \in 1..Len(b)
    BY <1>1
  <2> QED BY <1>1, <1>2, <2>1, <2>2, <2>3
<1>4. IsInjective(b)
  <2>1. \A i, j \in 1..Len(a) : a[i] = a[j] => i = j
    BY InjectiveByIndex
  <2>2. \A i \in 1..Len(a) : a[i] # d
    BY ToSetByIndex
  <2>3. ASSUME NEW i \in 1..Len(b), NEW j \in 1..Len(b), b[i] = b[j] PROVE i = j
    BY <1>1, <1>2, <2>1, <2>2, <2>3
  <2> QED BY <1>1, <2>3, InjectiveByIndex
<1>5. ASSUME NEW x, NEW o \in Nat, Ahead(a, x, o) PROVE Ahead(b, x, o)
  BY <1>1, <1>5 DEF Ahead
<1>6. ASSUME NEW x, NEW o \in Nat, Ahead(b, x, o) PROVE x = d \/ Ahead(a, x, o)
  BY <1>1, <1>2, <1>6 DEF Ahead
<1> QED BY <1>1, <1>3, <1>4, <1>5, <1>6 DEF b

\* The page at offset o is what is ahead of o and not ahead of the next offset; the last
\* one has all that is ahead.
LEMMA PageAhead ==
  ASSUME account \in Seq(Items), IsInjective(account), NEW o \in Nat
  PROVE  /\ ToSet(Page(o)) \subseteq ToSet(account)
         /\ \A x : x \in ToSet(Page(o)) => Ahead(account, x, o)
         /\ IsLastPage(Page(o)) => \A x : Ahead(account, x, o) => x \in ToSet(Page(o))
         /\ ~IsLastPage(Page(o)) =>
              \A x : Ahead(account, x, o) <=>
                       x \in ToSet(Page(o)) \/ Ahead(account, x, NextOffset(o))
         /\ ~IsLastPage(Page(o)) =>
              \A x : x \in ToSet(Page(o)) => ~Ahead(account, x, NextOffset(o))
<1> DEFINE n == Len(account)
           e == Min2(o + PageLimit, n)
           page == Page(o)
<1>0. n \in Nat /\ e \in Nat /\ PageLimit \in Nat \ {0}
      /\ e <= n /\ e <= o + PageLimit /\ (e = n \/ e = o + PageLimit)
  BY APIAssumption DEF Min2
<1>1. /\ page \in Seq(Items)
      /\ Len(page) = IF o + 1 <= e THEN e - o ELSE 0
      /\ \A i \in 1..Len(page) : page[i] = account[o + i]
  <2>1. page = SubSeq(account, o + 1, e)
    BY DEF Page
  <2>2. \A i \in (o + 1)..e : account[i] \in Items
    BY <1>0
  <2> HIDE DEF n, e, page
  <2>3. /\ page \in Seq(Items)
        /\ Len(page) = IF o + 1 <= e THEN e - (o + 1) + 1 ELSE 0
        /\ \A i \in 1..(e - (o + 1) + 1) : page[i] = account[(o + 1) + i - 1]
    BY <1>0, <2>1, <2>2, SubSeqProperties
  <2>4. ASSUME NEW i \in 1..Len(page) PROVE page[i] = account[o + i]
    <3>1. i \in 1..(e - (o + 1) + 1) /\ (o + 1) + i - 1 = o + i
      BY <1>0, <2>3
    <3> QED BY <2>3, <3>1
  <2>5. e - (o + 1) + 1 = e - o
    BY <1>0
  <2> QED BY <2>3, <2>4, <2>5
<1> HIDE DEF n, e, page
<1>2. \A x : x \in ToSet(page) <=> \E i \in 1..Len(page) : page[i] = x
  BY <1>1, ToSetByIndex
<1>3. ASSUME NEW x, x \in ToSet(page)
      PROVE  \E i \in 1..n : i > o /\ i <= e /\ account[i] = x
  <2>1. PICK i \in 1..Len(page) : page[i] = x
    BY <1>2, <1>3
  <2>2. o + i \in 1..n /\ o + i > o /\ o + i <= e /\ account[o + i] = x
    BY <1>0, <1>1, <2>1
  <2> QED BY <2>2
<1>4. ASSUME NEW i \in 1..n, i > o, i <= e PROVE account[i] \in ToSet(page)
  <2>1. i - o \in 1..Len(page) /\ o + (i - o) = i
    BY <1>0, <1>1, <1>4
  <2>2. page[i - o] = account[i]
    BY <1>1, <2>1
  <2> QED BY <1>2, <2>1, <2>2
<1>5. ToSet(page) \subseteq ToSet(account) /\ \A x : x \in ToSet(page) => Ahead(account, x, o)
  BY <1>3, ToSetByIndex DEF Ahead, n
<1>6. ASSUME IsLastPage(page), NEW x, Ahead(account, x, o) PROVE x \in ToSet(page)
  <2>1. PICK i \in 1..n : i > o /\ account[i] = x
    BY <1>6 DEF Ahead, n
  <2>2. e = n
    BY <1>0, <1>1, <1>6 DEF IsLastPage
  <2> QED BY <1>0, <1>4, <2>1, <2>2
<1>7. ASSUME ~IsLastPage(page)
      PROVE  /\ e = o + PageLimit /\ NextOffset(o) = e
  BY <1>0, <1>1, <1>7 DEF IsLastPage, NextOffset
<1>8. ASSUME ~IsLastPage(page), NEW x
      PROVE  /\ Ahead(account, x, o) <=> x \in ToSet(page) \/ Ahead(account, x, e)
             /\ x \in ToSet(page) => ~Ahead(account, x, e)
  <2>1. ASSUME Ahead(account, x, o) PROVE x \in ToSet(page) \/ Ahead(account, x, e)
    BY <1>0, <1>4, <2>1 DEF Ahead, n
  <2>2. ASSUME Ahead(account, x, e) PROVE Ahead(account, x, o)
    BY <1>0, <1>7, <1>8, <2>2 DEF Ahead
  <2>3. ASSUME x \in ToSet(page), Ahead(account, x, e) PROVE FALSE
    <3>1. PICK i \in 1..n : i <= e /\ account[i] = x
      BY <1>3, <2>3
    <3>2. PICK j \in 1..n : j > e /\ account[j] = x
      BY <2>3 DEF Ahead, n
    <3>3. i = j
      BY <3>1, <3>2, InjectiveByIndex DEF n
    <3> QED BY <1>0, <3>1, <3>2, <3>3
  <2> QED BY <1>5, <2>1, <2>2, <2>3
<1> QED BY <1>5, <1>6, <1>7, <1>8 DEF page
-----------------------------------------------------------------------------
(* The types, and what a listing has got so far. *)

\* A listing with pages still to come, in state r, while the account is a and the
\* downloads f have never been in it: what it does not have is ahead of it, and what it
\* has is not.
Partial(r, a, f) ==
  /\ r.offset = 0 => \A d \in Items : r.got[d] = 0
  /\ \A d \in f : r.got[d] = 0
  /\ r.removed = FALSE =>
       \A d \in r.steady \cap Cached : r.got[d] > 0 \/ Ahead(a, d, r.offset)
  /\ r.pushed = FALSE =>
       \A d \in Items : r.got[d] <= 1 /\ (r.got[d] > 0 => ~Ahead(a, d, r.offset))

\* The same when all pages are there.
Full(r) ==
  /\ r.removed = FALSE => \A d \in r.steady \cap Cached : r.got[d] > 0
  /\ r.pushed = FALSE => \A d \in Items : r.got[d] <= 1

Sound(r, a, f) ==
  r.op = "list" =>
    /\ r.pc \notin {"idle", "returned"} => Partial(r, a, f)
    /\ r.pc = "returned" /\ r.result = "ok" => Full(r)

\* The inductive invariant of the listings.
ListInv ==
  /\ TypeOK
  /\ fresh \cap ToSet(account) = {}
  /\ \A c \in Callers : call[c].pc \in {"wait", "backoff"} => MoreAttempts(c)
  /\ \A c \in Callers : Sound(call[c], account, fresh)

Call ==
  [pc : Labels, op : {"list", "delete"}, item : Items \cup {None}, offset : Nat,
   attempt : 0..(MaxRetries - 1), got : [Items -> Nat],
   result : {"none", "ok", "failed"}, done : BOOLEAN,
   steady : SUBSET Items, removed : BOOLEAN, pushed : BOOLEAN]

BoundsOK == faults \in 0..MaxFaults /\ fatal \in 0..MaxFatal /\ changes \in 0..MaxChanges

LEMMA BoundsTyped ==
  ASSUME TypeOK, Fault \/ Fatal \/ Change \/ UNCHANGED bounds
  PROVE  BoundsOK'
BY APIAssumption DEF TypeOK, Fault, Fatal, Change, bounds, BoundsOK

CacheOK == cache \in Seq(Nat) /\ Len(cache) <= MaxCacheEntries

\* The response cache keeps its limit.
LEMMA CacheTyped ==
  ASSUME CacheOK, NEW key \in Nat
  PROVE  CacheWith(key) \in Seq(Nat) /\ Len(CacheWith(key)) <= MaxCacheEntries
<1> DEFINE rest == RemoveFirst(cache, key)
           all == Append(rest, key)
<1>1. rest \in Seq(Nat) /\ Len(rest) <= MaxCacheEntries
  <2>1. CASE key \in ToSet(cache)
    <3>1. PICK i \in 1..Len(cache) : rest = RemoveAt(cache, i)
      BY <2>1, RemoveFirstAt DEF CacheOK
    <3>2. RemoveAt(cache, i) \in Seq(Nat) /\ Len(RemoveAt(cache, i)) = Len(cache) - 1
      BY RemoveAtProperties DEF CacheOK
    <3>3. Len(cache) \in Nat /\ MaxCacheEntries \in Nat
      BY APIAssumption DEF CacheOK
    <3> HIDE DEF rest
    <3> QED BY <3>1, <3>2, <3>3 DEF CacheOK
  <2>2. CASE key \notin ToSet(cache)
    BY <2>2, ToSetByIndex DEF CacheOK, RemoveFirst
  <2> QED BY <2>1, <2>2
<1> HIDE DEF rest
<1>2. all \in Seq(Nat) /\ Len(all) = Len(rest) + 1 /\ Len(rest) \in Nat
  BY <1>1
<1> HIDE DEF all
<1>3. CacheWith(key) = IF Len(all) > MaxCacheEntries THEN Tail(all) ELSE all
  BY DEF CacheWith, all, rest
<1>4. all # <<>>
  BY <1>2
<1>5. Tail(all) \in Seq(Nat) /\ Len(Tail(all)) = Len(all) - 1
  BY <1>2, <1>4, HeadTailProperties
<1> QED BY <1>1, <1>2, <1>3, <1>5, APIAssumption

LEMMA InitListInv == Init => ListInv
<1> SUFFICES ASSUME Init PROVE ListInv
  OBVIOUS
<1>1. account \in Seq(Items) /\ IsInjective(account)
  <2>1. PICK I \in SUBSET Items : account \in SetToSeqs(I)
    BY DEF Init, SetToAllKPermutations
  <2>2. Cardinality(I) \in Nat
    BY APIAssumption, FS_Subset, FS_CardinalityType
  <2> DEFINE n == Cardinality(I)
  <2>3. /\ account \in [1..n -> I]
        /\ \A i, j \in 1..n : i # j => account[i] # account[j]
    BY <2>1 DEF SetToSeqs
  <2> HIDE DEF n
  <2>4. account \in Seq(Items)
    BY <2>2, <2>3 DEF n
  <2> QED BY <2>3, <2>4 DEF IsInjective
<1>2. NoCall \in Call
  BY APIAssumption DEF NoCall, Call, Labels
<1>3. call \in [Callers -> Call]
  BY <1>2 DEF Init
<1>4. TypeOK
  BY <1>1, <1>3, APIAssumption DEF Init, TypeOK, Call
<1>5. \A c \in Callers : call[c].pc = "idle"
  BY DEF Init, NoCall
<1> QED BY <1>4, <1>5 DEF Init, ListInv, Sound

\* A step of one call that leaves the account alone.
LEMMA CallStep ==
  ASSUME ListInv, NEW c \in Callers, NEW r \in Call,
         call' = [call EXCEPT ![c] = r], UNCHANGED <<account, fresh>>,
         slot' \in Callers \cup {None}, CacheOK', BoundsOK',
         r.pc \in {"wait", "backoff"} => r.attempt < MaxRetries - 1,
         Sound(r, account, fresh)
  PROVE  ListInv'
<1>1. call \in [Callers -> Call]
  BY DEF ListInv, TypeOK, Call
<1>2. call' \in [Callers -> Call] /\ call'[c] = r
      /\ \A d \in Callers : d # c => call'[d] = call[d]
  BY <1>1
<1>3. TypeOK'
  BY <1>2 DEF ListInv, TypeOK, Call, CacheOK, BoundsOK
<1>4. \A d \in Callers : Sound(call'[d], account', fresh')
  BY <1>2 DEF ListInv
<1>5. \A d \in Callers : (call[d].pc \in {"wait", "backoff"} => MoreAttempts(d))'
  BY <1>2 DEF ListInv, MoreAttempts
<1> QED BY <1>3, <1>4, <1>5 DEF ListInv

\* A call that moves on with the list it has, or fails.
Kept(r, q) ==
  /\ r.op = q.op /\ r.offset = q.offset /\ r.got = q.got
  /\ r.steady = q.steady /\ r.removed = q.removed /\ r.pushed = q.pushed
  /\ q.pc \notin {"idle", "returned"}
  /\ r.pc # "returned" \/ r.result # "ok" \/ r.op = "delete"

LEMMA KeptSound ==
  ASSUME NEW r, NEW q, NEW a, NEW f, Sound(q, a, f), Kept(r, q)
  PROVE  Sound(r, a, f)
BY DEF Sound, Kept, Partial

LEMMA PaceListInv ==
  ASSUME ListInv, NEW c \in Callers,
         \/ ListDownloads(c) \/ (\E d \in ToSet(account) : DeleteDownload(c, d))
         \/ TakeSlot(c) \/ RetryAfterPasses(c) \/ Backoff(c) \/ Finish(c)
  PROVE  ListInv'
<1>0. /\ call \in [Callers -> Call] /\ call[c] \in Call
      /\ CacheOK /\ BoundsOK /\ slot \in Callers \cup {None} /\ account \in Seq(Items)
  BY DEF ListInv, TypeOK, Call, CacheOK, BoundsOK
<1>a. NoCall \in Call
  BY APIAssumption DEF NoCall, Call, Labels
<1>b. ToSet(account) \subseteq Items
  BY <1>0 DEF ToSet
<1>c. Sound(call[c], account, fresh)
  BY DEF ListInv
<1>1. CASE ListDownloads(c)
  <2> DEFINE r == [NoCall EXCEPT !.pc = "slot", !.steady = ToSet(account)]
  <2>1. r \in Call
    BY <1>a, <1>b DEF Call, Labels
  <2>2. /\ r.op = "list" /\ r.pc = "slot" /\ r.offset = 0 /\ r.steady = ToSet(account)
        /\ \A d \in Items : r.got[d] = 0
    BY DEF NoCall
  <2>3. call' = [call EXCEPT ![c] = r]
    BY <1>1 DEF ListDownloads
  <2> HIDE DEF r
  <2>4. \A d \in ToSet(account) : Ahead(account, d, 0)
    BY <1>0, ToSetByIndex DEF Ahead
  <2>5. fresh \subseteq Items
    BY DEF ListInv, TypeOK
  <2>6. Sound(r, account, fresh)
    BY <2>2, <2>4, <2>5 DEF Sound, Partial
  <2>7. CacheOK' /\ BoundsOK' /\ slot' = slot
    BY <1>0, <1>1 DEF ListDownloads, bounds, CacheOK, BoundsOK
  <2> QED BY <1>0, <1>1, <2>1, <2>2, <2>3, <2>6, <2>7, CallStep DEF ListDownloads
<1>2. ASSUME NEW x \in ToSet(account), DeleteDownload(c, x) PROVE ListInv'
  <2> DEFINE r == [NoCall EXCEPT !.pc = "slot", !.op = "delete", !.item = x]
  <2>1. r \in Call /\ r.op = "delete" /\ r.pc = "slot"
    BY <1>a, <1>b DEF Call, Labels, NoCall
  <2>3. call' = [call EXCEPT ![c] = r]
    BY <1>2 DEF DeleteDownload
  <2> HIDE DEF r
  <2>6. Sound(r, account, fresh)
    BY <2>1 DEF Sound
  <2>7. CacheOK' /\ BoundsOK' /\ slot' = slot
    BY <1>0, <1>2 DEF DeleteDownload, bounds, CacheOK, BoundsOK
  <2> QED BY <1>0, <1>2, <2>1, <2>3, <2>6, <2>7, CallStep DEF DeleteDownload
<1>3. CASE TakeSlot(c)
  <2> DEFINE r == [call[c] EXCEPT !.pc = "send", !.attempt = 0]
  <2>0. 0 \in 0..(MaxRetries - 1)
    BY APIAssumption
  <2>1. r \in Call /\ r.pc = "send" /\ Kept(r, call[c])
    BY <1>0, <1>3, <2>0 DEF TakeSlot, Call, Labels, Kept
  <2>3. call' = [call EXCEPT ![c] = r]
    BY <1>3 DEF TakeSlot
  <2> HIDE DEF r
  <2>6. Sound(r, account, fresh)
    BY <1>c, <2>1, KeptSound
  <2>7. CacheOK' /\ BoundsOK' /\ slot' = c
    BY <1>0, <1>3 DEF TakeSlot, bounds, CacheOK, BoundsOK
  <2> QED BY <1>0, <1>3, <2>1, <2>3, <2>6, <2>7, CallStep DEF TakeSlot
<1>4. CASE RetryAfterPasses(c)
  <2> DEFINE r == [call[c] EXCEPT !.pc = "backoff"]
  <2>1. /\ r \in Call /\ r.pc = "backoff" /\ Kept(r, call[c])
        /\ r.attempt = call[c].attempt
    BY <1>0, <1>4 DEF RetryAfterPasses, Call, Labels, Kept
  <2>3. call' = [call EXCEPT ![c] = r]
    BY <1>4 DEF RetryAfterPasses
  <2> HIDE DEF r
  <2>6. Sound(r, account, fresh)
    BY <1>c, <2>1, KeptSound
  <2>7. CacheOK' /\ BoundsOK' /\ slot' = slot
    BY <1>0, <1>4 DEF RetryAfterPasses, bounds, CacheOK, BoundsOK
  <2>8. r.attempt < MaxRetries - 1
    BY <1>4, <2>1 DEF RetryAfterPasses, ListInv, MoreAttempts
  <2> QED BY <1>0, <1>4, <2>1, <2>3, <2>6, <2>7, <2>8, CallStep DEF RetryAfterPasses
<1>5. CASE Backoff(c)
  <2> DEFINE r == [call[c] EXCEPT !.pc = "send", !.attempt = @ + 1]
  <2>0. call[c].attempt + 1 \in 0..(MaxRetries - 1)
    <3>1. call[c].attempt \in 0..(MaxRetries - 1)
      BY <1>0 DEF Call
    <3>2. call[c].attempt < MaxRetries - 1
      BY <1>5 DEF Backoff, ListInv, MoreAttempts
    <3> QED BY <3>1, <3>2, APIAssumption
  <2>1. r \in Call /\ r.pc = "send" /\ Kept(r, call[c])
    BY <1>0, <1>5, <2>0 DEF Backoff, Call, Labels, Kept
  <2>3. call' = [call EXCEPT ![c] = r]
    BY <1>5 DEF Backoff
  <2> HIDE DEF r
  <2>6. Sound(r, account, fresh)
    BY <1>c, <2>1, KeptSound
  <2>7. CacheOK' /\ BoundsOK' /\ slot' = slot
    BY <1>0, <1>5 DEF Backoff, bounds, CacheOK, BoundsOK
  <2> QED BY <1>0, <1>5, <2>1, <2>3, <2>6, <2>7, CallStep DEF Backoff
<1>6. CASE Finish(c)
  <2>3. call' = [call EXCEPT ![c] = NoCall] /\ NoCall.pc = "idle"
    BY <1>6 DEF Finish, NoCall
  <2>6. Sound(NoCall, account, fresh)
    BY <2>3 DEF Sound
  <2>7. CacheOK' /\ BoundsOK' /\ slot' = slot
    BY <1>0, <1>6 DEF Finish, bounds, CacheOK, BoundsOK
  <2> QED BY <1>0, <1>a, <1>6, <2>3, <2>6, <2>7, CallStep DEF Finish
<1> QED BY <1>1, <1>2, <1>3, <1>4, <1>5, <1>6

\* What a page that arrives makes of a listing.
LEMMA PageSound ==
  ASSUME ListInv, NEW c \in Callers, call[c] \in Call,
         call[c].op = "list", call[c].pc = "send",
         NEW r, r.op = "list", r.pc \in {"slot", "returned"},
         r.steady = call[c].steady, r.removed = call[c].removed, r.pushed = call[c].pushed,
         r.got = [d \in Items |-> call[c].got[d] +
                    IF d \in ToSet(Page(call[c].offset)) \cap Cached THEN 1 ELSE 0],
         IsLastPage(Page(call[c].offset)) => r.pc = "returned",
         ~IsLastPage(Page(call[c].offset)) =>
           r.pc = "slot" /\ r.offset = NextOffset(call[c].offset)
  PROVE  Sound(r, account, fresh)
<1> DEFINE o == call[c].offset
           page == ToSet(Page(o))
           last == IsLastPage(Page(o))
           old == call[c].got
<1>1. /\ account \in Seq(Items) /\ IsInjective(account) /\ o \in Nat
      /\ old \in [Items -> Nat] /\ call[c].steady \subseteq Items /\ fresh \subseteq Items
  BY DEF ListInv, TypeOK, Call
<1>2. Partial(call[c], account, fresh)
  BY DEF ListInv, Sound
<1>3. /\ page \subseteq ToSet(account)
      /\ \A x : x \in page => Ahead(account, x, o)
      /\ last => \A x : Ahead(account, x, o) => x \in page
      /\ ~last => \A x : Ahead(account, x, o) <=>
                           x \in page \/ Ahead(account, x, NextOffset(o))
      /\ ~last => \A x : x \in page => ~Ahead(account, x, NextOffset(o))
  BY <1>1, PageAhead
<1>4. \A d \in Items : /\ d \in page \cap Cached => r.got[d] = old[d] + 1
                       /\ d \notin page \cap Cached => r.got[d] = old[d]
                       /\ old[d] \in Nat
  BY <1>1
<1>5. NextOffset(o) \in Nat \ {0}
  BY <1>1, APIAssumption DEF NextOffset
<1>6. /\ call[c].removed = FALSE =>
           \A d \in call[c].steady \cap Cached : old[d] > 0 \/ Ahead(account, d, o)
      /\ call[c].pushed = FALSE =>
           \A d \in Items : old[d] <= 1 /\ (old[d] > 0 => ~Ahead(account, d, o))
      /\ \A d \in fresh : old[d] = 0
  BY <1>2 DEF Partial
<1>7. page \cap fresh = {}
  BY <1>3 DEF ListInv
<1> HIDE DEF o, page, last, old
<1>8. ASSUME r.pushed = FALSE, NEW d \in Items PROVE r.got[d] <= 1
  BY <1>3, <1>4, <1>6, <1>8
<1>9. CASE last
  <2>1. ASSUME r.removed = FALSE, NEW d \in r.steady \cap Cached PROVE r.got[d] > 0
    <3>1. d \in Items /\ (old[d] > 0 \/ d \in page \cap Cached)
      BY <1>1, <1>3, <1>6, <1>9, <2>1
    <3> QED BY <1>4, <3>1
  <2>2. Full(r)
    BY <1>8, <2>1 DEF Full
  <2> QED BY <1>9, <2>2 DEF Sound, last, page, o
<1>10. CASE ~last
  <2>0. r.offset = NextOffset(o) /\ r.pc = "slot"
    BY <1>10 DEF last, page, o
  <2>1. ASSUME r.removed = FALSE, NEW d \in r.steady \cap Cached
        PROVE  r.got[d] > 0 \/ Ahead(account, d, r.offset)
    <3>1. d \in Items
          /\ (old[d] > 0 \/ d \in page \cap Cached \/ Ahead(account, d, r.offset))
      BY <1>1, <1>3, <1>6, <1>10, <2>0, <2>1
    <3> QED BY <1>4, <3>1
  <2>2. ASSUME r.pushed = FALSE, NEW d \in Items, r.got[d] > 0
        PROVE  ~Ahead(account, d, r.offset)
    <3>1. CASE d \in page
      BY <1>3, <1>10, <2>0, <3>1
    <3>2. CASE d \notin page
      <4>1. old[d] > 0
        BY <1>4, <2>2, <3>2
      <4>2. ~Ahead(account, d, o)
        BY <1>6, <2>2, <4>1
      <4> QED BY <1>3, <1>10, <2>0, <4>2
    <3> QED BY <3>1, <3>2
  <2>3. \A d \in fresh : r.got[d] = 0
    BY <1>1, <1>4, <1>6, <1>7
  <2>4. r.offset # 0
    BY <1>5, <2>0
  <2>5. Partial(r, account, fresh)
    BY <1>8, <2>1, <2>2, <2>3, <2>4 DEF Partial
  <2> QED BY <2>0, <2>5 DEF Sound
<1> QED BY <1>9, <1>10

LEMMA GetListInv ==
  ASSUME ListInv, NEW c \in Callers,
         \/ PageArrives(c) \/ GetFails(c) \/ GetLimited(c) \/ GetRejected(c)
         \/ GetMalformed(c) \/ RetryAfterCancelled(c)
  PROVE  ListInv'
<1>0. /\ call \in [Callers -> Call] /\ call[c] \in Call
      /\ CacheOK /\ BoundsOK /\ slot \in Callers \cup {None} /\ account \in Seq(Items)
  BY DEF ListInv, TypeOK, Call, CacheOK, BoundsOK
<1>c. Sound(call[c], account, fresh) /\ TypeOK
  BY DEF ListInv
<1>1. CASE PageArrives(c)
  <2> DEFINE o == call[c].offset
             last == IsLastPage(Page(o))
             label == IF last THEN "returned" ELSE "slot"
             result == IF last THEN "ok" ELSE "none"
             offset == IF last THEN o ELSE NextOffset(o)
             got == [d \in Items |-> call[c].got[d] +
                       IF d \in ToSet(Page(o)) \cap Cached THEN 1 ELSE 0]
             r == [call[c] EXCEPT !.pc = label, !.result = result, !.offset = offset, !.got = got]
  <2>0. call' = [call EXCEPT ![c] = r]
    BY <1>1 DEF PageArrives
  <2>1. /\ label \in Labels /\ label \in {"slot", "returned"}
        /\ result \in {"none", "ok", "failed"}
        /\ last => label = "returned"
        /\ ~last => label = "slot" /\ offset = NextOffset(o)
    BY DEF Labels
  <2>2. offset \in Nat /\ o \in Nat
    BY <1>0, APIAssumption DEF Call, NextOffset
  <2>3. got \in [Items -> Nat]
    BY <1>0 DEF Call
  <2>4. got = [d \in Items |-> call[c].got[d] +
                 IF d \in ToSet(Page(o)) \cap Cached THEN 1 ELSE 0]
    OBVIOUS
  <2> HIDE DEF label, result, offset, got
  <2>5. /\ r \in Call /\ r.op = call[c].op /\ r.pc = label /\ r.got = got
        /\ r.offset = offset /\ r.steady = call[c].steady /\ r.removed = call[c].removed
        /\ r.pushed = call[c].pushed
    BY <1>0, <2>1, <2>2, <2>3 DEF Call
  <2> HIDE DEF r
  <2>6. Sound(r, account, fresh)
    BY <1>0, <1>1, <2>1, <2>4, <2>5, PageSound DEF PageArrives
  <2>7. CacheOK'
    BY <1>0, <1>1, <2>2, CacheTyped DEF PageArrives, CacheOK
  <2>8. BoundsOK' /\ slot' = None
    BY <1>0, <1>1 DEF PageArrives, bounds, BoundsOK
  <2> QED BY <1>1, <2>0, <2>1, <2>5, <2>6, <2>7, <2>8, CallStep DEF PageArrives
<1>2. CASE GetFails(c)
  <2> DEFINE more == MoreAttempts(c)
             r == IF more THEN [call[c] EXCEPT !.pc = "backoff"]
                  ELSE [call[c] EXCEPT !.pc = "returned", !.result = "failed"]
  <2>1. call' = [call EXCEPT ![c] = r]
    BY <1>2 DEF GetFails, Return
  <2>2. /\ r \in Call /\ Kept(r, call[c]) /\ r.attempt = call[c].attempt
        /\ r.pc \in {"wait", "backoff"} => more
    BY <1>0, <1>2 DEF GetFails, Call, Labels, Kept
  <2> HIDE DEF r
  <2>3. Sound(r, account, fresh)
    BY <1>c, <2>2, KeptSound
  <2>4. BoundsOK'
    BY <1>2, <1>c, BoundsTyped DEF GetFails
  <2>5. CacheOK' /\ slot' \in Callers \cup {None}
    BY <1>0, <1>2 DEF GetFails, Return, CacheOK
  <2> QED BY <1>2, <2>1, <2>2, <2>3, <2>4, <2>5, CallStep DEF GetFails, MoreAttempts
<1>3. CASE GetLimited(c)
  <2> DEFINE r == [call[c] EXCEPT !.pc = "wait"]
  <2>1. call' = [call EXCEPT ![c] = r]
    BY <1>3 DEF GetLimited
  <2>2. r \in Call /\ Kept(r, call[c]) /\ r.attempt = call[c].attempt
    BY <1>0, <1>3 DEF GetLimited, Call, Labels, Kept
  <2> HIDE DEF r
  <2>3. Sound(r, account, fresh)
    BY <1>c, <2>2, KeptSound
  <2>4. BoundsOK'
    BY <1>3, <1>c, BoundsTyped DEF GetLimited
  <2>5. CacheOK' /\ slot' = slot
    BY <1>0, <1>3 DEF GetLimited, CacheOK
  <2> QED BY <1>0, <1>3, <2>1, <2>2, <2>3, <2>4, <2>5, CallStep DEF GetLimited, MoreAttempts
<1>4. CASE GetRejected(c) \/ GetMalformed(c) \/ RetryAfterCancelled(c)
  <2> DEFINE r == [call[c] EXCEPT !.pc = "returned", !.result = "failed"]
  <2>1. call' = [call EXCEPT ![c] = r]
    BY <1>4 DEF GetRejected, GetMalformed, RetryAfterCancelled, Return
  <2>2. r \in Call /\ Kept(r, call[c]) /\ r.pc = "returned"
    BY <1>0, <1>4 DEF GetRejected, GetMalformed, RetryAfterCancelled, Call, Labels, Kept
  <2> HIDE DEF r
  <2>3. Sound(r, account, fresh)
    BY <1>c, <2>2, KeptSound
  <2>4. BoundsOK'
    BY <1>4, <1>c, BoundsTyped DEF GetRejected, GetMalformed, RetryAfterCancelled,
                                   FatalUnlessDone
  <2>5. slot' = None /\ UNCHANGED <<account, fresh>>
    BY <1>4 DEF GetRejected, GetMalformed, RetryAfterCancelled, Return
  <2>6. call[c].offset \in Nat
    BY <1>0 DEF Call
  <2>7. CacheOK'
    BY <1>0, <1>4, <2>6, CacheTyped DEF GetRejected, GetMalformed, RetryAfterCancelled, CacheOK
  <2> QED BY <2>1, <2>2, <2>3, <2>4, <2>5, <2>7, CallStep
<1> QED BY <1>1, <1>2, <1>3, <1>4

\* A step that changes the account and, with it, the histories of listings.
LEMMA AccountStep ==
  ASSUME ListInv, call' \in [Callers -> Call],
         account' \in Seq(Items), IsInjective(account'), fresh' \subseteq Items,
         fresh' \cap ToSet(account') = {},
         slot' \in Callers \cup {None}, CacheOK', BoundsOK',
         \A c \in Callers : call'[c].pc \in {"wait", "backoff"} =>
           call'[c].pc = call[c].pc /\ call'[c].attempt = call[c].attempt,
         \A c \in Callers : Sound(call'[c], account', fresh')
  PROVE  ListInv'
<1>1. TypeOK'
  BY DEF TypeOK, Call, CacheOK, BoundsOK
<1>2. \A c \in Callers : (call[c].pc \in {"wait", "backoff"} => MoreAttempts(c))'
  BY DEF ListInv, MoreAttempts
<1> QED BY <1>1, <1>2 DEF ListInv

\* A listing stays sound when a download is removed from the account.
LEMMA RemovalSound ==
  ASSUME ListInv, NEW d \in ToSet(account), account' = RemoveFirst(account, d),
         fresh' = fresh,
         NEW calls \in [Callers -> Call], call' = Removed(calls, d),
         NEW c \in Callers,
         calls[c] = call[c] \/ (~Listing(c) /\ calls[c].op = "delete")
  PROVE  /\ call'[c] \in Call
         /\ call'[c].pc = calls[c].pc /\ call'[c].attempt = calls[c].attempt
         /\ Sound(call'[c], account', fresh')
<1>0. /\ call[c] \in Call /\ account \in Seq(Items) /\ IsInjective(account)
      /\ Sound(call[c], account, fresh)
  BY DEF ListInv, TypeOK, Call
<1>1. CASE ~Listing(c)
  <2>1. call'[c] = calls[c]
    BY <1>1 DEF Removed
  <2>2. Sound(calls[c], account', fresh')
    BY <1>0, <1>1 DEF Sound, Listing
  <2> QED BY <2>1, <2>2
<1>2. CASE Listing(c)
  <2> DEFINE hit == call[c].removed \/ d \in ReadPart(c)
             rest == call[c].steady \ {d}
             r == [call[c] EXCEPT !.steady = rest, !.removed = hit]
             o == call[c].offset
             old == call[c].got
  <2>1. call'[c] = r /\ calls[c] = call[c]
    BY <1>2 DEF Removed
  <2>2. hit \in BOOLEAN /\ rest \in SUBSET Items /\ o \in Nat
    BY <1>0 DEF Call
  <2>3. (hit = FALSE) => call[c].removed = FALSE /\ d \notin ReadPart(c)
    BY <1>0 DEF Call
  <2> HIDE DEF hit, rest
  <2>4. /\ r \in Call /\ r.pc = call[c].pc /\ r.attempt = call[c].attempt /\ r.op = call[c].op
        /\ r.offset = o /\ r.got = old /\ r.pushed = call[c].pushed
        /\ r.removed = hit /\ r.steady = rest
    BY <1>0, <2>2 DEF Call
  <2> HIDE DEF r
  <2>5. Partial(call[c], account, fresh)
    BY <1>0, <1>2 DEF Sound, Listing
  <2>6. /\ \A x : Ahead(account', x, o) => Ahead(account, x, o)
        /\ \A x : Ahead(account, d, o) /\ x # d /\ Ahead(account, x, o) => Ahead(account', x, o)
    BY <1>0, <2>2, RemoveAhead
  <2>7. hit = FALSE => Ahead(account, d, o)
    <3> SUFFICES ASSUME hit = FALSE PROVE Ahead(account, d, o)
      OBVIOUS
    <3>1. PICK i \in 1..Len(account) : account[i] = d
      BY <1>0, ToSetByIndex
    <3>2. i \notin 1..Min2(o, Len(account))
      BY <2>3, <3>1 DEF ReadPart
    <3>3. i > o
      BY <1>0, <2>2, <3>2 DEF Min2
    <3> QED BY <3>1, <3>3 DEF Ahead
  <2>8. ASSUME r.removed = FALSE, NEW x \in r.steady \cap Cached
        PROVE  r.got[x] > 0 \/ Ahead(account', x, r.offset)
    BY <2>3, <2>4, <2>5, <2>6, <2>7, <2>8 DEF Partial, rest
  <2>9. ASSUME r.pushed = FALSE, NEW x \in Items
        PROVE  r.got[x] <= 1 /\ (r.got[x] > 0 => ~Ahead(account', x, r.offset))
    BY <2>4, <2>5, <2>6, <2>9 DEF Partial
  <2>10. Partial(r, account', fresh')
    BY <2>4, <2>5, <2>8, <2>9 DEF Partial
  <2>11. r.pc # "returned"
    BY <1>2, <2>4 DEF Listing
  <2> QED BY <2>1, <2>4, <2>10, <2>11 DEF Sound
<1> QED BY <1>1, <1>2

LEMMA PostListInv ==
  ASSUME ListInv, NEW c \in Callers, PostApplied(c) \/ PostFails(c)
  PROVE  ListInv'
<1>0. /\ call \in [Callers -> Call] /\ call[c] \in Call
      /\ CacheOK /\ BoundsOK /\ slot \in Callers \cup {None}
      /\ account \in Seq(Items) /\ IsInjective(account)
      /\ fresh \subseteq Items /\ fresh \cap ToSet(account) = {}
  BY DEF ListInv, TypeOK, Call, CacheOK, BoundsOK
<1>c. Sound(call[c], account, fresh) /\ TypeOK
  BY DEF ListInv
<1>1. CASE PostApplied(c)
  <2> DEFINE d == call[c].item
  <2>1. PICK result \in {"ok", "failed"} :
          /\ IF result = "ok" THEN UNCHANGED bounds ELSE FatalUnlessDone(c)
          /\ call' = Removed([call EXCEPT ![c].pc = "returned", ![c].result = result], d)
    BY <1>1, Zenon DEF PostApplied
  <2> DEFINE r == [call[c] EXCEPT !.pc = "returned", !.result = result]
             calls == [call EXCEPT ![c] = r]
  <2>2. /\ d \in ToSet(account) /\ account' = RemoveFirst(account, d) /\ slot' = None
        /\ fresh' = fresh /\ cache' = cache /\ call[c].op = "delete"
    BY <1>1 DEF PostApplied
  <2>3. r \in Call /\ r.op = "delete" /\ r.pc = "returned"
    BY <1>0, <2>2 DEF Call, Labels
  <2>4. call' = Removed(calls, d)
    BY <2>1
  <2> HIDE DEF r, d
  <2>5. /\ calls \in [Callers -> Call] /\ calls[c] = r
        /\ \A e \in Callers : e # c => calls[e] = call[e]
    BY <1>0, <2>3
  <2> HIDE DEF calls
  <2>6. \A e \in Callers : calls[e] = call[e] \/ (~Listing(e) /\ calls[e].op = "delete")
    BY <2>2, <2>3, <2>5 DEF Listing
  <2>7. \A e \in Callers :
          /\ call'[e] \in Call
          /\ call'[e].pc = calls[e].pc /\ call'[e].attempt = calls[e].attempt
          /\ Sound(call'[e], account', fresh')
    BY <2>2, <2>4, <2>5, <2>6, RemovalSound
  <2>8. call' \in [Callers -> Call]
    BY <2>4, <2>7 DEF Removed
  <2>9. account' \in Seq(Items) /\ IsInjective(account') /\ ToSet(account') = ToSet(account) \ {d}
    BY <1>0, <2>2, RemoveAhead
  <2>10. BoundsOK'
    BY <1>c, <2>1, BoundsTyped DEF FatalUnlessDone
  <2>11. CacheOK'
    BY <1>0, <2>2 DEF CacheOK
  <2>12. \A e \in Callers : call'[e].pc \in {"wait", "backoff"} =>
           call'[e].pc = call[e].pc /\ call'[e].attempt = call[e].attempt
    BY <2>3, <2>5, <2>7
  <2> QED BY <1>0, <2>2, <2>7, <2>8, <2>9, <2>10, <2>11, <2>12, AccountStep
<1>2. CASE PostFails(c)
  <2> DEFINE r == [call[c] EXCEPT !.pc = "returned", !.result = "failed"]
  <2>1. call' = [call EXCEPT ![c] = r]
    BY <1>2 DEF PostFails, Return
  <2>2. r \in Call /\ Kept(r, call[c]) /\ r.pc = "returned"
    BY <1>0, <1>2 DEF PostFails, Call, Labels, Kept
  <2> HIDE DEF r
  <2>3. Sound(r, account, fresh)
    BY <1>c, <2>2, KeptSound
  <2>4. BoundsOK'
    BY <1>2, <1>c, BoundsTyped DEF PostFails, FatalUnlessDone
  <2>5. CacheOK' /\ slot' = None /\ UNCHANGED <<account, fresh>>
    BY <1>0, <1>2 DEF PostFails, Return, CacheOK
  <2> QED BY <2>1, <2>2, <2>3, <2>4, <2>5, CallStep
<1> QED BY <1>1, <1>2

LEMMA CancelListInv ==
  ASSUME ListInv, NEW c \in Callers, Cancel(c)
  PROVE  ListInv'
<1> DEFINE r == [call[c] EXCEPT !.done = TRUE]
<1>0. call[c] \in Call /\ CacheOK /\ slot \in Callers \cup {None} /\ TypeOK
      /\ Sound(call[c], account, fresh)
  BY DEF ListInv, TypeOK, Call, CacheOK
<1>1. /\ r \in Call /\ Kept(r, call[c])
      /\ r.pc = call[c].pc /\ r.attempt = call[c].attempt
  BY <1>0 DEF Cancel, Call, Kept
<1>2. call' = [call EXCEPT ![c] = r]
  BY DEF Cancel
<1> HIDE DEF r
<1>3. Sound(r, account, fresh)
  BY <1>0, <1>1, KeptSound
<1>4. BoundsOK'
  BY <1>0, BoundsTyped DEF Cancel
<1>5. CacheOK' /\ slot' = slot /\ UNCHANGED <<account, fresh>>
  BY <1>0 DEF Cancel, CacheOK
<1>6. r.pc \in {"wait", "backoff"} => r.attempt < MaxRetries - 1
  BY <1>1 DEF ListInv, MoreAttempts
<1> QED BY <1>0, <1>1, <1>2, <1>3, <1>4, <1>5, <1>6, CallStep

\* A listing stays sound when a new download is put in front of the account ...
LEMMA FrontSound ==
  ASSUME ListInv, NEW d \in fresh, account' = <<d>> \o account, fresh' = fresh \ {d},
         call' = PutInFront, NEW c \in Callers
  PROVE  /\ call'[c] \in Call
         /\ call'[c].pc = call[c].pc /\ call'[c].attempt = call[c].attempt
         /\ Sound(call'[c], account', fresh')
<1>0. /\ call[c] \in Call /\ account \in Seq(Items) /\ IsInjective(account)
      /\ Sound(call[c], account, fresh) /\ d \in Items /\ d \notin ToSet(account)
  BY DEF ListInv, TypeOK, Call
<1>1. CASE ~Listing(c)
  <2>1. call'[c] = call[c]
    BY <1>1 DEF PutInFront
  <2>2. Sound(call[c], account', fresh')
    BY <1>0, <1>1 DEF Sound, Listing
  <2> QED BY <1>0, <2>1, <2>2
<1>2. CASE Listing(c)
  <2> DEFINE hit == call[c].pushed \/ ReadPart(c) # {}
             r == [call[c] EXCEPT !.pushed = hit]
             o == call[c].offset
             old == call[c].got
  <2>1. call'[c] = r
    BY <1>2 DEF PutInFront
  <2>2. hit \in BOOLEAN /\ o \in Nat
    BY <1>0 DEF Call
  <2>3. (hit = FALSE) => call[c].pushed = FALSE /\ ReadPart(c) = {}
    BY <1>0 DEF Call
  <2> HIDE DEF hit
  <2>4. /\ r \in Call /\ r.pc = call[c].pc /\ r.attempt = call[c].attempt /\ r.op = call[c].op
        /\ r.offset = o /\ r.got = old /\ r.pushed = hit
        /\ r.removed = call[c].removed /\ r.steady = call[c].steady
    BY <1>0, <2>2 DEF Call
  <2> HIDE DEF r
  <2>5. Partial(call[c], account, fresh)
    BY <1>0, <1>2 DEF Sound, Listing
  <2>6. /\ \A x : Ahead(account, x, o) => Ahead(account', x, o)
        /\ Len(account) = 0 /\ o # 0 => \A x : ~Ahead(account', x, o)
    BY <1>0, <2>2, FrontAhead
  <2>7. hit = FALSE => o = 0 \/ Len(account) = 0
    <3>1. Len(account) \in Nat
      BY <1>0
    <3>2. o # 0 /\ Len(account) # 0 => 1 \in 1..Min2(o, Len(account))
      BY <2>2, <3>1 DEF Min2
    <3> QED BY <2>3, <3>2 DEF ReadPart
  <2>8. ASSUME r.removed = FALSE, NEW x \in r.steady \cap Cached
        PROVE  r.got[x] > 0 \/ Ahead(account', x, r.offset)
    BY <2>4, <2>5, <2>6, <2>8 DEF Partial
  <2>9. ASSUME r.pushed = FALSE, NEW x \in Items
        PROVE  r.got[x] <= 1 /\ (r.got[x] > 0 => ~Ahead(account', x, r.offset))
    <3>1. old[x] <= 1 /\ (o = 0 => old[x] = 0)
      BY <2>3, <2>4, <2>5, <2>9 DEF Partial
    <3>2. o = 0 \/ ~Ahead(account', x, o)
      BY <2>4, <2>6, <2>7, <2>9
    <3> QED BY <2>4, <3>1, <3>2
  <2>10. Partial(r, account', fresh')
    BY <2>4, <2>5, <2>8, <2>9 DEF Partial
  <2>11. r.pc # "returned"
    BY <1>2, <2>4 DEF Listing
  <2> QED BY <2>1, <2>4, <2>10, <2>11 DEF Sound
<1> QED BY <1>1, <1>2

\* ... or at its end: no listing has the new download yet.
LEMMA BackSound ==
  ASSUME ListInv, NEW d \in fresh, account' = Append(account, d), fresh' = fresh \ {d},
         NEW c \in Callers
  PROVE  Sound(call[c], account', fresh')
<1>0. /\ call[c] \in Call /\ account \in Seq(Items) /\ IsInjective(account)
      /\ Sound(call[c], account, fresh) /\ d \in Items /\ d \notin ToSet(account)
  BY DEF ListInv, TypeOK, Call
<1>1. CASE Listing(c)
  <2> DEFINE o == call[c].offset
  <2>1. o \in Nat
    BY <1>0 DEF Call
  <2>2. Partial(call[c], account, fresh)
    BY <1>0, <1>1 DEF Sound, Listing
  <2>3. /\ \A x : Ahead(account, x, o) => Ahead(account', x, o)
        /\ \A x : Ahead(account', x, o) => x = d \/ Ahead(account, x, o)
    BY <1>0, <2>1, BackAhead
  <2>4. call[c].got[d] = 0
    BY <2>2 DEF Partial
  <2>5. Partial(call[c], account', fresh')
    BY <2>2, <2>3, <2>4 DEF Partial
  <2> QED BY <1>1, <2>5 DEF Sound, Listing
<1>2. CASE ~Listing(c)
  BY <1>0, <1>2 DEF Sound, Listing
<1> QED BY <1>1, <1>2

LEMMA ChangeListInv ==
  ASSUME ListInv, NEW d \in Items, DownloadAdded(d) \/ DownloadRemoved(d)
  PROVE  ListInv'
<1>0. /\ call \in [Callers -> Call] /\ TypeOK
      /\ CacheOK /\ slot \in Callers \cup {None}
      /\ account \in Seq(Items) /\ IsInjective(account)
      /\ fresh \subseteq Items /\ fresh \cap ToSet(account) = {}
  BY DEF ListInv, TypeOK, Call, CacheOK
<1>1. BoundsOK'
  BY <1>0, BoundsTyped DEF DownloadAdded, DownloadRemoved
<1>2. CacheOK' /\ slot' = slot
  BY <1>0 DEF DownloadAdded, DownloadRemoved, CacheOK
<1>3. CASE DownloadRemoved(d)
  <2>1. /\ d \in ToSet(account) /\ account' = RemoveFirst(account, d) /\ fresh' = fresh
        /\ call' = Removed(call, d)
    BY <1>3 DEF DownloadRemoved
  <2>2. \A e \in Callers :
          /\ call'[e] \in Call
          /\ call'[e].pc = call[e].pc /\ call'[e].attempt = call[e].attempt
          /\ Sound(call'[e], account', fresh')
    BY <1>0, <2>1, RemovalSound
  <2>3. call' \in [Callers -> Call]
    BY <2>1, <2>2 DEF Removed
  <2>4. account' \in Seq(Items) /\ IsInjective(account') /\ ToSet(account') = ToSet(account) \ {d}
    BY <1>0, <2>1, RemoveAhead
  <2> QED BY <1>0, <1>1, <1>2, <2>1, <2>2, <2>3, <2>4, AccountStep
<1>4. CASE DownloadAdded(d)
  <2>1. d \in fresh /\ fresh' = fresh \ {d} /\ d \notin ToSet(account)
    BY <1>0, <1>4 DEF DownloadAdded
  <2>2. CASE account' = <<d>> \o account /\ call' = PutInFront
    <3>1. \A e \in Callers :
            /\ call'[e] \in Call
            /\ call'[e].pc = call[e].pc /\ call'[e].attempt = call[e].attempt
            /\ Sound(call'[e], account', fresh')
      BY <2>1, <2>2, FrontSound
    <3>2. call' \in [Callers -> Call]
      BY <2>2, <3>1 DEF PutInFront
    <3>3. account' \in Seq(Items) /\ IsInjective(account')
          /\ ToSet(account') = ToSet(account) \cup {d}
      BY <1>0, <2>1, <2>2, FrontAhead
    <3> QED BY <1>0, <1>1, <1>2, <2>1, <3>1, <3>2, <3>3, AccountStep
  <2>3. CASE account' = Append(account, d) /\ UNCHANGED call
    <3>1. \A e \in Callers : Sound(call'[e], account', fresh')
      BY <2>1, <2>3, BackSound
    <3>2. account' \in Seq(Items) /\ IsInjective(account')
          /\ ToSet(account') = ToSet(account) \cup {d}
      BY <1>0, <2>1, <2>3, BackAhead
    <3> QED BY <1>0, <1>1, <1>2, <2>1, <2>3, <3>1, <3>2, AccountStep
  <2> QED BY <1>4, <2>2, <2>3 DEF DownloadAdded
<1> QED BY <1>3, <1>4

LEMMA SpecListInv == Spec => []ListInv
<1>1. ListInv /\ [Next]_vars => ListInv'
  <2> SUFFICES ASSUME ListInv, [Next]_vars PROVE ListInv'
    OBVIOUS
  <2>1. ASSUME NEW c \in Callers, Serve(c) PROVE ListInv'
    BY <2>1, PaceListInv, GetListInv, PostListInv DEF Serve
  <2>2. ASSUME NEW c \in Callers, TakeSlot(c) PROVE ListInv'
    BY <2>2, PaceListInv
  <2>3. ASSUME NEW c \in Refreshers, ListDownloads(c) PROVE ListInv'
    BY <2>3, PaceListInv DEF Callers
  <2>4. ASSUME NEW c \in Deleters, NEW d \in ToSet(account), DeleteDownload(c, d)
        PROVE  ListInv'
    BY <2>4, PaceListInv DEF Callers
  <2>5. CASE UNCHANGED vars
    BY <2>5 DEF vars, ListInv, TypeOK, MoreAttempts
  <2> QED BY <2>1, <2>2, <2>3, <2>4, <2>5, CancelListInv, ChangeListInv DEF Next
<1> QED BY InitListInv, <1>1, PTL DEF Spec

\* The client keeps its types: the response cache stays within its limit, and no call
\* makes more attempts than it may.
THEOREM TypeCorrect == Spec => []TypeOK
<1>1. ListInv => TypeOK BY DEF ListInv
<1> QED BY SpecListInv, <1>1, PTL

\* A listing misses a cached download that was there all the time only if something was
\* removed from the pages it had read, and has one twice only if something was put in
\* front of them, for accounts and pages of any size and any number of changes.
THEOREM ListingsSound == Spec => []ListingSound
<1>1. ListInv => ListingSound
  <2> SUFFICES ASSUME ListInv PROVE ListingSound
    OBVIOUS
  <2>1. call \in [Callers -> Call]
    BY DEF ListInv, TypeOK, Call
  <2>2. \A c \in Callers : call[c].removed \in BOOLEAN /\ call[c].pushed \in BOOLEAN
    BY <2>1 DEF Call
  <2> QED BY <2>2 DEF ListInv, Sound, Full, ListingSound
<1> QED BY SpecListInv, <1>1, PTL
=============================================================================
