----------------------------- MODULE CDNClient -----------------------------
(***************************************************************************)
(* CDNClient (internal/stream/cdn.go): FetchRange resolves a permalink of  *)
(* the TorBox API to a CDN URL, through a cache of URLs and of failures    *)
(* and through a singleflight group, takes a slot of the URL's host, and   *)
(* sends the range request.  A permalink has one valid CDN URL at a time,  *)
(* named by its version; version 0 is the permalink itself.  hostSem is    *)
(* seen through what PrioritySem is proved to implement, SlotPool.         *)
(*                                                                         *)
(* Left out: the block after doRangeRequest that would invalidate a        *)
(* refused URL and retry.  doRangeRequest has turned 401 and 403 into      *)
(* errors before it is reached, so InvalidateURL has no caller.            *)
(***************************************************************************)
EXTENDS Integers, FiniteSets

CONSTANTS Callers,       \* goroutines in FetchRange
          Permalinks,    \* API URLs
          Hosts,         \* hosts of the URLs
          MaxVersion,    \* bound on the CDN URLs a permalink has had
          HostOf,        \* hostFromURL: permalink -> version -> host
          MaxConns,      \* maxConnsPerHost
          Rank,          \* the priority argument of a caller
          MaxRedirects,  \* maxRedirects
          MaxFaults,     \* bound on cancellations and odd answers
          None           \* no caller

ASSUME CDNAssumption ==
  /\ MaxVersion \in Nat \ {0} /\ MaxConns \in Nat \ {0}
  /\ MaxRedirects \in Nat \ {0, 1} /\ MaxFaults \in Nat
  /\ HostOf \in [Permalinks -> [0..MaxVersion -> Hosts]]
  /\ Rank \in [Callers -> 0..1]
  /\ None \notin Callers

VARIABLES caching,  \* urlCacheTTL > 0
          entry,    \* urlCache
          flight,   \* resolveGroup: permalink -> caller that runs the function
          valid,    \* at TorBox: the version that the CDN accepts now
          call,     \* the calls of FetchRange
          faults    \* cancellations and odd answers so far

vars == <<caching, entry, flight, valid, call, faults>>

Permalink == 0
Versions == 0..MaxVersion

\* An entry whose TTL or cooldown is over is treated like none by its only reader.
Absent == [kind |-> "absent", url |-> Permalink]
Failed == [kind |-> "failed", url |-> Permalink]
Resolved(v) == [kind |-> "resolved", url |-> v]

Idle(u, result) ==
  [pc |-> "idle", api |-> u, url |-> Permalink, cur |-> Permalink, hops |-> 0,
   result |-> result, ctx |-> "live"]

Init ==
  /\ caching \in BOOLEAN
  /\ entry = [u \in Permalinks |-> Absent]
  /\ flight = [u \in Permalinks |-> None]
  /\ valid = [u \in Permalinks |-> 1]
  /\ call \in [Callers -> {Idle(u, "none") : u \in Permalinks}]
  /\ faults = 0

Fault == faults < MaxFaults /\ faults' = faults + 1

\* A request fails or is given up: for free once its context is done.
FaultUnlessDone(c) == IF call[c].ctx = "done" THEN UNCHANGED faults ELSE Fault

Goto(c, label) == [call EXCEPT ![c].pc = label]
Return(c, result) == [call EXCEPT ![c] = Idle(@.api, result)]
-----------------------------------------------------------------------------
(* ResolveURL: the cache, then the singleflight group. *)

FetchRange(c, u) ==
  /\ call[c].pc = "idle"
  /\ call' = [call EXCEPT ![c] = [Idle(u, "none") EXCEPT !.pc = "lookup"]]
  /\ UNCHANGED <<caching, entry, flight, valid, faults>>

\* What ResolveURL returns goes on to the semaphore.
WithURL(c, v) == [call EXCEPT ![c].pc = "acquire", ![c].url = v]

LookupHit(c) ==
  /\ call[c].pc = "lookup"
  /\ caching => entry[call[c].api].kind = "resolved"
  /\ call' = WithURL(c, IF caching THEN entry[call[c].api].url ELSE Permalink)
  /\ UNCHANGED <<caching, entry, flight, valid, faults>>

LookupBackoff(c) ==
  /\ call[c].pc = "lookup"
  /\ caching /\ entry[call[c].api].kind = "failed"
  /\ call' = Return(c, "failed")
  /\ UNCHANGED <<caching, entry, flight, valid, faults>>

\* Mutant: failures are not looked at.
MissIfNotResolved(e) == e.kind # "resolved"

\* Nothing in the cache that still counts.
Miss(e) == e.kind = "absent"

LookupMiss(c) ==
  /\ call[c].pc = "lookup"
  /\ caching /\ Miss(entry[call[c].api])
  /\ call' = Goto(c, "do")
  /\ UNCHANGED <<caching, entry, flight, valid, faults>>

\* resolveGroup.Do: somebody resolves this permalink, so wait for the outcome,
\* whatever becomes of the own context ...
DoJoin(c) ==
  /\ call[c].pc = "do"
  /\ flight[call[c].api] # None
  /\ call' = Goto(c, "joined")
  /\ UNCHANGED <<caching, entry, flight, valid, faults>>

\* Mutant: no deduplication.
DoLeadAlways(c) ==
  /\ call[c].pc = "do"
  /\ flight' = [flight EXCEPT ![call[c].api] = c]
  /\ call' = Goto(c, "resolve")
  /\ UNCHANGED <<caching, entry, valid, faults>>

\* ... or resolve it for all who come.
DoLead(c) ==
  /\ call[c].pc = "do"
  /\ flight[call[c].api] = None
  /\ flight' = [flight EXCEPT ![call[c].api] = c]
  /\ call' = Goto(c, "resolve")
  /\ UNCHANGED <<caching, entry, valid, faults>>

\* Mutants: redirects are not counted; the last hop is not taken.
LastHopNever(hops) == FALSE
LastHopEarly(hops) == hops + 1 >= MaxRedirects - 1

\* A redirect at this count of hops ends the loop with an error.
LastHop(hops) == hops + 1 >= MaxRedirects

\* Where the server at the current URL may redirect to: the API to the valid CDN
\* URL, a CDN server to any URL that there has been.
Location(c) ==
  IF call[c].cur = Permalink THEN {valid[call[c].api]} ELSE 1..valid[call[c].api]

\* One redirect of the loops in resolveRedirect and doRangeRequest; one by a CDN
\* server is out of the ordinary.
Redirected(c, onward, tooMany) ==
  /\ IF call[c].cur = Permalink THEN UNCHANGED faults ELSE Fault
  /\ IF LastHop(call[c].hops)
     THEN call' = [call EXCEPT ![c].pc = tooMany, ![c].result = "failed"]
     ELSE \E v \in Location(c) :
            call' = [call EXCEPT ![c].pc = onward, ![c].cur = v, ![c].hops = @ + 1]

ResolveRedirected(c) ==
  /\ call[c].pc = "resolve"
  /\ Redirected(c, "resolve", "store")
  /\ UNCHANGED <<caching, entry, flight, valid>>

\* Any answer that is no redirect, 429 or 5xx makes the current URL the result: a
\* refusal by the CDN as well, and a refusal by the API too.
ResolveAnswered(c) ==
  /\ call[c].pc = "resolve"
  /\ IF call[c].cur = Permalink THEN Fault ELSE UNCHANGED faults
  /\ call' = [call EXCEPT ![c].pc = "store", ![c].url = call[c].cur, ![c].result = "ok"]
  /\ UNCHANGED <<caching, entry, flight, valid>>

\* 429, 5xx, no connection, or the context of the caller that leads is done.
ResolveFails(c) ==
  /\ call[c].pc = "resolve"
  /\ FaultUnlessDone(c)
  /\ call' = [call EXCEPT ![c].pc = "store", ![c].result = "failed"]
  /\ UNCHANGED <<caching, entry, flight, valid>>

\* The outcome is cached, a failure of any kind for the cooldown, ...
StoreEntry(c) ==
  /\ call[c].pc = "store"
  /\ entry' = [entry EXCEPT ![call[c].api] =
                 IF call[c].result = "ok" THEN Resolved(call[c].url) ELSE Failed]
  /\ call' = Goto(c, "land")
  /\ UNCHANGED <<caching, flight, valid, faults>>

\* Those who wait for the function that c runs.
Joined(c) == {d \in Callers : call[d].pc = "joined" /\ call[d].api = call[c].api}

\* Mutant: the outcome reaches the leader only.
PassengersNone(c) == {c}

Passengers(c) == Joined(c) \cup {c}

\* ... and then the flight is taken down and its outcome handed to everybody.
Land(c) ==
  /\ call[c].pc = "land"
  /\ flight' = [flight EXCEPT ![call[c].api] = None]
  /\ call' = [d \in Callers |->
       IF d \notin Passengers(c) THEN call[d]
       ELSE IF call[c].result = "ok"
            THEN [Idle(call[d].api, "none") EXCEPT
                    !.pc = "acquire", !.url = call[c].url, !.ctx = call[d].ctx]
            ELSE Idle(call[d].api, "failed")]
  /\ UNCHANGED <<caching, entry, valid, faults>>
-----------------------------------------------------------------------------
(* The semaphore of the host and the range request. *)

HostOfCall(c) == HostOf[call[c].api][call[c].url]

\* The calls that own a slot of host h, and those that queue for one.
Inside(h) == {c \in Callers : call[c].pc \in {"request", "release"} /\ HostOfCall(c) = h}
Waiting(h) == {c \in Callers : call[c].pc = "queued" /\ HostOfCall(c) = h}

SlotFree(h) == Cardinality(Inside(h)) < MaxConns /\ Waiting(h) = {}

\* doRangeRequest starts at the resolved URL.
Request(calls, c) ==
  [calls EXCEPT ![c].pc = "request", ![c].cur = calls[c].url, ![c].hops = 0]

\* getHostSem and acquire: a free slot at once, a dead context or not.
AcquireFast(c) ==
  /\ call[c].pc = "acquire"
  /\ SlotFree(HostOfCall(c))
  /\ call' = Request(call, c)
  /\ UNCHANGED <<caching, entry, flight, valid, faults>>

AcquireWait(c) ==
  /\ call[c].pc = "acquire"
  /\ ~SlotFree(HostOfCall(c))
  /\ call' = IF call[c].ctx = "done" THEN Return(c, "failed") ELSE Goto(c, "queued")
  /\ UNCHANGED <<caching, entry, flight, valid, faults>>

QueueCancelled(c) ==
  /\ call[c].pc = "queued"
  /\ call[c].ctx = "done"
  /\ call' = Return(c, "failed")
  /\ UNCHANGED <<caching, entry, flight, valid, faults>>

RangeRedirected(c) ==
  /\ call[c].pc = "request"
  /\ Redirected(c, "request", "release")
  /\ UNCHANGED <<caching, entry, flight, valid>>

Answered(c, result) == [call EXCEPT ![c].pc = "release", ![c].result = result]

\* The valid URL gives the bytes, an expired one 401 or 403: an HTTPStatusError.
RangeAnswered(c) ==
  /\ call[c].pc = "request"
  /\ call[c].cur # Permalink
  /\ call' = Answered(c, IF call[c].cur = valid[call[c].api] THEN "ok" ELSE "refused")
  /\ UNCHANGED <<caching, entry, flight, valid, faults>>

\* Other statuses, a 200 for an offset that is not 0, no connection, cancellation.
RangeFails(c) ==
  /\ call[c].pc = "request"
  /\ FaultUnlessDone(c)
  /\ call' = Answered(c, "failed")
  /\ UNCHANGED <<caching, entry, flight, valid>>

\* The deferred release, before the caller reads the body: the slot becomes free ...
Release(c) ==
  /\ call[c].pc = "release"
  /\ Waiting(HostOfCall(c)) = {}
  /\ call' = Return(c, call[c].result)
  /\ UNCHANGED <<caching, entry, flight, valid, faults>>

\* Mutant: anybody may be next.
OutranksNobody(q) == TRUE

Outranks(q) == \A r \in Waiting(HostOfCall(q)) : Rank[r] <= Rank[q]

\* ... or goes to the first in the queue.
ReleaseGrant(c, q) ==
  /\ call[c].pc = "release"
  /\ q \in Waiting(HostOfCall(c))
  /\ Outranks(q)
  /\ call' = Request(Return(c, call[c].result), q)
  /\ UNCHANGED <<caching, entry, flight, valid, faults>>
-----------------------------------------------------------------------------
(* The environment. *)

\* The context of a call ends.
Cancel(c) ==
  /\ call[c].pc # "idle"
  /\ call[c].ctx = "live"
  /\ Fault
  /\ call' = [call EXCEPT ![c].ctx = "done"]
  /\ UNCHANGED <<caching, entry, flight, valid>>

\* The CDN URL of a permalink expires; the API hands out another from now on.
Rotate(u) ==
  /\ valid[u] < MaxVersion
  /\ valid' = [valid EXCEPT ![u] = @ + 1]
  /\ UNCHANGED <<caching, entry, flight, call, faults>>

\* Mutant: a failure is remembered for ever.
ExpiresUnlessFailed(e) == e.kind = "resolved"

Expires(e) == e.kind # "absent"

\* urlCacheTTL or rateLimitCooldown has passed since the entry was made.
Expire(u) ==
  /\ Expires(entry[u])
  /\ entry' = [entry EXCEPT ![u] = Absent]
  /\ UNCHANGED <<caching, flight, valid, call, faults>>
-----------------------------------------------------------------------------
Resolve(c) ==
  \/ LookupHit(c) \/ LookupBackoff(c) \/ LookupMiss(c)
  \/ DoJoin(c) \/ DoLead(c)
  \/ ResolveRedirected(c) \/ ResolveAnswered(c) \/ ResolveFails(c)
  \/ StoreEntry(c) \/ Land(c)

Transfer(c) ==
  \/ AcquireFast(c) \/ AcquireWait(c) \/ QueueCancelled(c)
  \/ RangeRedirected(c) \/ RangeAnswered(c) \/ RangeFails(c)
  \/ Release(c) \/ \E q \in Callers : ReleaseGrant(c, q)

Next ==
  \/ \E c \in Callers : Resolve(c) \/ Transfer(c) \/ Cancel(c)
  \/ \E c \in Callers, u \in Permalinks : FetchRange(c, u)
  \/ \E u \in Permalinks : Rotate(u) \/ Expire(u)

Spec == Init /\ [][Next]_vars

Playback == {c \in Callers : Rank[c] = 1}

\* Calls run on, servers answer in the end, and time passes.  The semaphore serves
\* playback in the order it came (FirstComeFirstServed and PlaybackServed of
\* PrioritySem): such a call is not passed over for ever.
Fairness ==
  /\ \A c \in Callers : WF_vars(Resolve(c) \/ Transfer(c))
  /\ \A q \in Playback : SF_vars(\E c \in Callers : ReleaseGrant(c, q))
  /\ \A u \in Permalinks : WF_vars(Expire(u))

FairSpec == Spec /\ Fairness
-----------------------------------------------------------------------------
Labels == {"idle", "lookup", "do", "joined", "resolve", "store", "land", "acquire",
           "queued", "request", "release"}

CallRecord ==
  [pc : Labels, api : Permalinks, url : Versions, cur : Versions,
   hops : 0..(MaxRedirects - 1), result : {"none", "ok", "refused", "failed"},
   ctx : {"live", "done"}]

\* The types of the client's state.
TypeOK ==
  /\ caching \in BOOLEAN
  /\ entry \in [Permalinks -> [kind : {"absent", "failed", "resolved"}, url : Versions]]
  /\ flight \in [Permalinks -> Callers \cup {None}]
  /\ valid \in [Permalinks -> 1..MaxVersion]
  /\ call \in [Callers -> CallRecord]
  /\ faults \in 0..MaxFaults

Leads(c, u) == call[c].api = u /\ call[c].pc \in {"resolve", "store", "land"}

\* One caller at most asks the API about a permalink, the group knows it, and whoever
\* waits for a resolution waits for one that is on its way: nobody is left behind
\* when a flight is taken down while others come to join it.
FlightsLed ==
  \A u \in Permalinks :
    /\ \A c \in Callers : Leads(c, u) <=> flight[u] = c
    /\ flight[u] = None =>
         \A c \in Callers : ~(call[c].pc = "joined" /\ call[c].api = u)

\* A call fails for a reason only: something has been cancelled or has answered
\* oddly, or a URL was refused after it had been replaced.  The ordinary chain of
\* redirects, hand-overs of slots and of resolutions, and expiry never make one.
FailuresHaveCauses ==
  \A c \in Callers :
    /\ call[c].result = "failed" => faults > 0
    /\ call[c].result = "refused" => valid[call[c].api] > 1

\* The callers that have looked for a permalink's URL in vain and go on to the API.
Asking(u) ==
  {c \in Callers : call[c].api = u /\ call[c].pc \in {"do", "joined", "resolve"}}

\* While a failure stands in the cache nobody new goes to the API: only those who had
\* looked before it was stored may still ask.
BackoffHolds ==
  [][\A u \in Permalinks :
       entry[u] = Failed /\ entry'[u] = Failed => Asking(u)' \subseteq Asking(u)]_vars

\* Through every path of FetchRange the slots of each host are used as a slot pool
\* allows: at most MaxConns at once, released once, handed to a highest rank.
Pool(h) == INSTANCE SlotPool WITH Procs <- Callers, Limit <- MaxConns,
             Priorities <- 0..1, inside <- Inside(h), waiting <- Waiting(h),
             rank <- Rank
ImplementsPools ==
  /\ \A h \in Hosts : Pool(h)!Init
  /\ [][\A h \in Hosts : [Pool(h)!Next]_(Pool(h)!poolVars)]_vars

\* Every call of FetchRange for playback returns: it is not left in a flight, in a
\* chain of redirects or in the queue of a host.
FetchReturns ==
  \A c \in Playback : (call[c].pc # "idle") ~> (call[c].pc = "idle")

\* Whoever keeps calling for a file gets its bytes again in the end, although a
\* cancelled leader's failure is cached for all and a refused URL stays in the
\* cache: both go with their entries.
RetriesSucceed ==
  \A c \in Playback : []<>(call[c].pc = "lookup") => []<>(call[c].result = "ok")

\* When FetchRange returns a refusal (401 or 403), the URL it had taken is no longer in
\* the cache for the next one (the comments on InvalidateURL and in FetchRange).
RefusalInvalidates ==
  \A c \in Callers :
    call[c].pc = "release" /\ call[c].result = "refused"
      => entry[call[c].api] # Resolved(call[c].url)
=============================================================================
