----------------------------- MODULE APIClient -----------------------------
(***************************************************************************)
(* torbox.Client (internal/torbox/client.go): paged listings of one kind   *)
(* of downloads, with retries, and deletions, all through one slot for     *)
(* API requests.  The account lives at TorBox and changes meanwhile, by    *)
(* other hands or by deletions of this client.                             *)
(*                                                                         *)
(* Left out: the lookup in the response cache, which every caller bypasses *)
(* (the cache is written all the same), the errors for an unknown kind or  *)
(* an id that is no number, and what is copied from an item to a Download. *)
(***************************************************************************)
EXTENDS Integers, FiniteSets, Sequences, SequencesExt

CONSTANTS Refreshers,       \* goroutines that list: the catalogue runs one refresh at a time
          Deleters,         \* goroutines that delete, for the dashboard
          Items,            \* downloads
          Cached,           \* those with item.Cached, which the listing keeps
          PageLimit,        \* limit
          MaxRetries,       \* maxRetries
          MaxCacheEntries,  \* maxCacheEntries
          MaxFaults,        \* bound on failures that are worth a retry
          MaxFatal,         \* bound on cancellations and other failures
          MaxChanges,       \* bound on changes to the account by others
          None              \* nobody; no item

ASSUME APIAssumption ==
  /\ IsFiniteSet(Items)
  /\ PageLimit \in Nat \ {0} /\ MaxRetries \in Nat \ {0}
  /\ MaxCacheEntries \in Nat \ {0}
  /\ MaxFaults \in Nat /\ MaxFatal \in Nat /\ MaxChanges \in Nat
  /\ Cached \subseteq Items
  /\ None \notin Items \cup Refreshers \cup Deleters

Callers == Refreshers \cup Deleters

VARIABLES account,  \* at TorBox: the list of downloads, in the order it is listed
          fresh,    \* downloads that have never been in the account
          slot,     \* apiSem: the caller that is in
          cache,    \* Client.cache: its keys (the offset of a page), oldest first
          call,     \* the calls of ListDownloads and DeleteDownload
          faults, fatal, changes  \* what the environment has done so far

vars == <<account, fresh, slot, cache, call, faults, fatal, changes>>
bounds == <<faults, fatal, changes>>

\* got: how often the list that is being put together has each download.
NoCall ==
  [pc |-> "idle", op |-> "list", item |-> None, offset |-> 0, attempt |-> 0,
   got |-> [d \in Items |-> 0], result |-> "none", done |-> FALSE,
   steady |-> {}, removed |-> FALSE, pushed |-> FALSE]

Init ==
  /\ account \in SetToAllKPermutations(Items)
  /\ fresh = Items \ ToSet(account)
  /\ slot = None
  /\ cache = <<>>
  /\ call = [c \in Callers |-> NoCall]
  /\ faults = 0 /\ fatal = 0 /\ changes = 0

Min2(m, n) == IF m < n THEN m ELSE n

Fault == faults < MaxFaults /\ faults' = faults + 1 /\ UNCHANGED <<fatal, changes>>
Fatal == fatal < MaxFatal /\ fatal' = fatal + 1 /\ UNCHANGED <<faults, changes>>

\* A request fails: for free once its context is done.
FatalUnlessDone(c) == IF call[c].done THEN UNCHANGED bounds ELSE Fatal

\* What a listing under way has been through (history): the items listed all along, and
\* whether one was removed from, or put in front of, the part it has read already.
Listing(c) == call[c].op = "list" /\ call[c].pc \notin {"idle", "returned"}
ReadPart(c) == {account[i] : i \in 1..Min2(call[c].offset, Len(account))}
Removed(calls, d) ==
  [c \in Callers |->
     IF Listing(c)
     THEN [calls[c] EXCEPT !.steady = @ \ {d}, !.removed = @ \/ d \in ReadPart(c)]
     ELSE calls[c]]
PutInFront ==
  [c \in Callers |->
     IF Listing(c) THEN [call[c] EXCEPT !.pushed = @ \/ ReadPart(c) # {}] ELSE call[c]]
-----------------------------------------------------------------------------
ListDownloads(c) ==
  /\ call[c].pc = "idle"
  /\ call' = [call EXCEPT ![c] = [NoCall EXCEPT !.pc = "slot", !.steady = ToSet(account)]]
  /\ UNCHANGED <<account, fresh, slot, cache, bounds>>

DeleteDownload(c, d) ==
  /\ call[c].pc = "idle"
  /\ call' = [call EXCEPT ![c] =
                [NoCall EXCEPT !.pc = "slot", !.op = "delete", !.item = d]]
  /\ UNCHANGED <<account, fresh, slot, cache, bounds>>

\* apiSem <- struct{}{}, in apiGet and apiPost: the context is not looked at.
TakeSlot(c) ==
  /\ call[c].pc = "slot"
  /\ slot = None
  /\ slot' = c
  /\ call' = [call EXCEPT ![c].pc = "send", ![c].attempt = 0]
  /\ UNCHANGED <<account, fresh, cache, bounds>>

\* apiGet or apiPost returns: the deferred receive frees the slot, on every path.
Return(c, result) ==
  /\ slot' = None
  /\ call' = [call EXCEPT ![c].pc = "returned", ![c].result = result]

\* Mutant: the pages leave a gap.
NextOffsetLong(offset) == offset + PageLimit + 1

\* An empty page or one that is not full is the last.
IsLastPage(page) == Len(page) < PageLimit

NextOffset(offset) == offset + PageLimit

\* What the API answers to offset and limit.
Page(offset) == SubSeq(account, offset + 1, Min2(offset + PageLimit, Len(account)))

\* Mutant: nothing is evicted.
CacheWithoutLimit(key) == Append(RemoveFirst(cache, key), key)

\* The response goes to the cache; above the limit the oldest entry leaves.
CacheWith(key) ==
  LET all == Append(RemoveFirst(cache, key), key)
  IN IF Len(all) > MaxCacheEntries THEN Tail(all) ELSE all

\* A page arrives and its cached items are taken; the slot is free until the next.
PageArrives(c) ==
  LET page == Page(call[c].offset)
  IN /\ call[c].pc = "send" /\ call[c].op = "list"
     /\ cache' = CacheWith(call[c].offset)
     /\ slot' = None
     /\ call' = [call EXCEPT
          ![c].pc = IF IsLastPage(page) THEN "returned" ELSE "slot",
          ![c].result = IF IsLastPage(page) THEN "ok" ELSE "none",
          ![c].offset = IF IsLastPage(page) THEN @ ELSE NextOffset(@),
          ![c].got = [d \in Items |-> @[d] + IF d \in ToSet(page) \cap Cached THEN 1 ELSE 0]]
     /\ UNCHANGED <<account, fresh, bounds>>

\* Mutant: one retry too few.
MoreAttemptsShort(c) == call[c].attempt < MaxRetries - 2

MoreAttempts(c) == call[c].attempt < MaxRetries - 1

\* No answer, 5xx, or 429 without Retry-After; a dead context looks like no answer.
GetFails(c) ==
  /\ call[c].pc = "send" /\ call[c].op = "list"
  /\ IF call[c].done THEN UNCHANGED bounds ELSE Fault
  /\ IF MoreAttempts(c)
     THEN call' = [call EXCEPT ![c].pc = "backoff"] /\ UNCHANGED slot
     ELSE Return(c, "failed")
  /\ UNCHANGED <<account, fresh, cache>>

\* 429 with Retry-After, and attempts left.
GetLimited(c) ==
  /\ call[c].pc = "send" /\ call[c].op = "list"
  /\ Fault
  /\ MoreAttempts(c)
  /\ call' = [call EXCEPT ![c].pc = "wait"]
  /\ UNCHANGED <<account, fresh, slot, cache>>

\* The body of a page is not JSON: apiGet has put it in the cache and returned it.
GetMalformed(c) ==
  /\ call[c].pc = "send" /\ call[c].op = "list"
  /\ Fatal
  /\ cache' = CacheWith(call[c].offset)
  /\ Return(c, "failed")
  /\ UNCHANGED <<account, fresh>>

\* Another 4xx, or a body that cannot be read.
GetRejected(c) ==
  /\ call[c].pc = "send" /\ call[c].op = "list"
  /\ FatalUnlessDone(c)
  /\ Return(c, "failed")
  /\ UNCHANGED <<account, fresh, cache>>

RetryAfterPasses(c) ==
  /\ call[c].pc = "wait"
  /\ call' = [call EXCEPT ![c].pc = "backoff"]
  /\ UNCHANGED <<account, fresh, slot, cache, bounds>>

\* Mutant: the early return leaves the slot behind.
RetryAfterCancelledInside(c) ==
  /\ call[c].pc = "wait"
  /\ call[c].done
  /\ call' = [call EXCEPT ![c].pc = "returned", ![c].result = "failed"]
  /\ UNCHANGED <<account, fresh, slot, cache, bounds>>

RetryAfterCancelled(c) ==
  /\ call[c].pc = "wait"
  /\ call[c].done
  /\ Return(c, "failed")
  /\ UNCHANGED <<account, fresh, cache, bounds>>

\* The delay ends, early if the context is done; the loop goes on in either case.
Backoff(c) ==
  /\ call[c].pc = "backoff"
  /\ call' = [call EXCEPT ![c].pc = "send", ![c].attempt = @ + 1]
  /\ UNCHANGED <<account, fresh, slot, cache, bounds>>

\* apiPost: the API removes the download; the answer may be lost.  No retry.
PostApplied(c) ==
  LET d == call[c].item
  IN /\ call[c].pc = "send" /\ call[c].op = "delete"
     /\ d \in ToSet(account)
     /\ account' = RemoveFirst(account, d)
     /\ slot' = None
     /\ \E result \in {"ok", "failed"} :
          /\ IF result = "ok" THEN UNCHANGED bounds ELSE FatalUnlessDone(c)
          /\ call' = Removed([call EXCEPT ![c].pc = "returned", ![c].result = result], d)
     /\ UNCHANGED <<fresh, cache>>

\* The download is gone already, or the request does not get through.
PostFails(c) ==
  /\ call[c].pc = "send" /\ call[c].op = "delete"
  /\ IF call[c].item \notin ToSet(account) THEN UNCHANGED bounds ELSE FatalUnlessDone(c)
  /\ Return(c, "failed")
  /\ UNCHANGED <<account, fresh, cache>>

\* The caller has what it asked for.
Finish(c) ==
  /\ call[c].pc = "returned"
  /\ call' = [call EXCEPT ![c] = NoCall]
  /\ UNCHANGED <<account, fresh, slot, cache, bounds>>
-----------------------------------------------------------------------------
(* The environment. *)

Cancel(c) ==
  /\ call[c].pc \notin {"idle", "returned"}
  /\ ~call[c].done
  /\ Fatal
  /\ call' = [call EXCEPT ![c].done = TRUE]
  /\ UNCHANGED <<account, fresh, slot, cache>>

Change == changes < MaxChanges /\ changes' = changes + 1 /\ UNCHANGED <<faults, fatal>>

\* A download is added, at the front or at the end of the list ...
DownloadAdded(d) ==
  /\ d \in fresh
  /\ Change
  /\ \/ account' = <<d>> \o account /\ call' = PutInFront
     \/ account' = Append(account, d) /\ UNCHANGED call
  /\ fresh' = fresh \ {d}
  /\ UNCHANGED <<slot, cache>>

\* ... or removed, by others.
DownloadRemoved(d) ==
  /\ d \in ToSet(account)
  /\ Change
  /\ account' = RemoveFirst(account, d)
  /\ call' = Removed(call, d)
  /\ UNCHANGED <<fresh, slot, cache>>
-----------------------------------------------------------------------------
Serve(c) ==
  \/ PageArrives(c) \/ GetFails(c) \/ GetLimited(c) \/ GetRejected(c)
  \/ GetMalformed(c)
  \/ RetryAfterPasses(c) \/ RetryAfterCancelled(c) \/ Backoff(c)
  \/ PostApplied(c) \/ PostFails(c)
  \/ Finish(c)

Next ==
  \/ \E c \in Refreshers : ListDownloads(c)
  \/ \E c \in Callers : TakeSlot(c) \/ Serve(c) \/ Cancel(c)
  \/ \E c \in Deleters, d \in ToSet(account) : DeleteDownload(c, d)
  \/ \E d \in Items : DownloadAdded(d) \/ DownloadRemoved(d)

Spec == Init /\ [][Next]_vars

\* The API answers or the client times out after 60 s; goroutines blocked on a channel
\* are served in the order they came.
Fairness == \A c \in Callers : WF_vars(Serve(c)) /\ SF_vars(TakeSlot(c))

FairSpec == Spec /\ Fairness
-----------------------------------------------------------------------------
Labels == {"idle", "slot", "send", "wait", "backoff", "returned"}

\* The types of the client's state; the response cache keeps its limit.
TypeOK ==
  /\ account \in Seq(Items) /\ IsInjective(account)
  /\ fresh \subseteq Items
  /\ slot \in Callers \cup {None}
  /\ cache \in Seq(Nat) /\ Len(cache) <= MaxCacheEntries
  /\ call \in [Callers ->
       [pc : Labels, op : {"list", "delete"}, item : Items \cup {None}, offset : Nat,
        attempt : 0..(MaxRetries - 1), got : [Items -> Nat],
        result : {"none", "ok", "failed"}, done : BOOLEAN,
        steady : SUBSET Items, removed : BOOLEAN, pushed : BOOLEAN]]
  /\ faults \in 0..MaxFaults /\ fatal \in 0..MaxFatal /\ changes \in 0..MaxChanges

\* One request is at the API at a time, and the slot belongs to a call that is still
\* going on: no path out of apiGet and apiPost leaves it taken.
SlotOwned ==
  \A c \in Callers : slot = c <=> call[c].pc \in {"send", "wait", "backoff"}

\* A listing, put together from pages of different moments, has every cached download
\* that was in the account all the time, unless one was removed from the pages read
\* before, and none of them twice, unless one was put in front of these.
ListingSound ==
  \A c \in Callers :
    call[c].pc = "returned" /\ call[c].op = "list" /\ call[c].result = "ok" =>
      /\ ~call[c].removed => \A d \in call[c].steady \cap Cached : call[c].got[d] > 0
      /\ ~call[c].pushed => \A d \in Items : call[c].got[d] <= 1

\* Fewer passing failures than attempts never make a listing fail.
RetriesAbsorb ==
  \A c \in Callers :
    call[c].op = "list" /\ call[c].result = "failed" => faults >= MaxRetries \/ fatal > 0

\* Every call returns: no retry, wait or early return keeps the slot for ever.
CallsReturn == \A c \in Callers : call[c].pc = "slot" ~> call[c].pc = "returned"
=============================================================================
