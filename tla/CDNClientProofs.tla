-------------------------- MODULE CDNClientProofs --------------------------
(***************************************************************************)
(* For any callers, permalinks, hosts and bounds: the CDN client asks the  *)
(* API about a permalink by one caller at a time and leaves nobody waiting *)
(* for a resolution that is over, no call fails without a cause, a cached  *)
(* failure keeps newcomers away from the API, and the slots of every host  *)
(* are used as SlotPool allows.                                            *)
(***************************************************************************)
EXTENDS CDNClient, FiniteSetTheorems, TLAPS

\* What a call in state r may look like when f faults have happened: it is at the
\* permalink only before the first hop, no URL in use is one that TorBox has not given
\* out yet, a cancellation, a failure and a refusal have their causes, and a resolution
\* that is over has an outcome.
SoundCall(r, f) ==
  /\ r.cur = Permalink => r.hops = 0
  /\ r.cur <= valid[r.api] /\ r.url <= valid[r.api]
  /\ r.ctx = "done" => f > 0
  /\ r.result = "failed" => f > 0
  /\ r.result = "refused" => valid[r.api] > 1
  /\ r.pc \in {"store", "land"} => r.result \in {"ok", "failed"}

\* The same for an entry of the cache.
SoundEntry(u) ==
  /\ entry[u].url <= valid[u]
  /\ entry[u].kind = "failed" => faults > 0

\* The inductive invariant.
Inv ==
  /\ TypeOK
  /\ FlightsLed
  /\ \A c \in Callers : SoundCall(call[c], faults)
  /\ \A u \in Permalinks : SoundEntry(u)

LEMMA InitInv == Init => Inv
<1> SUFFICES ASSUME Init PROVE Inv
  OBVIOUS
<1> USE CDNAssumption DEF Init, Idle, Absent, Permalink
<1>1. TypeOK
  <2>1. call \in [Callers -> CallRecord]
    BY DEF CallRecord, Labels, Versions
  <2> QED BY <2>1 DEF TypeOK, Versions
<1>2. FlightsLed
  BY DEF FlightsLed, Leads
<1>3. \A c \in Callers : SoundCall(call[c], faults)
  BY DEF SoundCall
<1>4. \A u \in Permalinks : SoundEntry(u)
  BY DEF SoundEntry
<1> QED BY <1>1, <1>2, <1>3, <1>4 DEF Inv

\* The invariant gives the causes.
LEMMA InvCauses == Inv => FailuresHaveCauses
BY DEF Inv, SoundCall, FailuresHaveCauses

\* Faults are only counted up, within their bound.
FaultsCounted == faults' \in 0..MaxFaults /\ faults' >= faults

LEMMA FaultCounted ==
  ASSUME TypeOK, Fault \/ UNCHANGED faults
  PROVE  FaultsCounted
BY CDNAssumption DEF TypeOK, Fault, FaultsCounted

\* A call in state r leads the same resolution as call c does, and waits for one only
\* if there is one.
SameFlight(c, r) ==
  /\ \A u \in Permalinks :
       r.api = u /\ r.pc \in {"resolve", "store", "land"} <=> Leads(c, u)
  /\ r.pc = "joined" => flight[r.api] # None

\* A step that only takes call c to a sound state r preserves the invariant.
LEMMA OneCall ==
  ASSUME Inv, NEW c \in Callers, NEW r \in CallRecord,
         call' = [call EXCEPT ![c] = r],
         UNCHANGED <<caching, entry, flight, valid>>, FaultsCounted,
         SoundCall(r, faults'), SameFlight(c, r)
  PROVE  Inv'
<1>0. /\ call \in [Callers -> CallRecord]
      /\ faults \in 0..MaxFaults /\ MaxFaults \in Nat
  BY CDNAssumption DEF Inv, TypeOK
<1>1. /\ call' \in [Callers -> CallRecord]
      /\ call'[c] = r
      /\ \A d \in Callers : d # c => call'[d] = call[d]
  BY <1>0
<1>2. TypeOK'
  BY <1>1 DEF Inv, TypeOK, FaultsCounted
<1>3. FlightsLed'
  BY <1>1 DEF Inv, FlightsLed, SameFlight, Leads
<1>4. \A d \in Callers : SoundCall(call[d], faults)'
  BY <1>0, <1>1 DEF Inv, SoundCall, FaultsCounted
<1>5. \A u \in Permalinks : SoundEntry(u)'
  BY <1>0 DEF Inv, SoundEntry, FaultsCounted
<1> QED BY <1>2, <1>3, <1>4, <1>5 DEF Inv

\* Resolution, as far as it only concerns the call itself.
LEMMA LookupInv ==
  ASSUME Inv, NEW c \in Callers,
         LookupHit(c) \/ LookupBackoff(c) \/ LookupMiss(c) \/ DoJoin(c)
  PROVE  Inv'
<1>0. /\ call \in [Callers -> CallRecord] /\ call[c] \in CallRecord
      /\ SoundCall(call[c], faults) /\ TypeOK /\ Permalink \in Versions
  BY CDNAssumption DEF Inv, TypeOK, Versions, Permalink
<1>1. CASE LookupHit(c)
  <2> DEFINE v == IF caching THEN entry[call[c].api].url ELSE Permalink
             r == [call[c] EXCEPT !.pc = "acquire", !.url = v]
  <2>1. v \in Versions /\ v <= valid[call[c].api]
    BY <1>0, CDNAssumption DEF Inv, TypeOK, SoundEntry, CallRecord, Versions, Permalink
  <2>2. r \in CallRecord
    BY <1>0, <2>1 DEF CallRecord, Labels
  <2>3. call' = [call EXCEPT ![c] = r]
    BY <1>0, <1>1 DEF LookupHit, WithURL
  <2>4. SoundCall(r, faults) /\ SameFlight(c, r)
    BY <1>0, <1>1, <2>1 DEF LookupHit, SoundCall, SameFlight, Leads, CallRecord
  <2>5. UNCHANGED <<caching, entry, flight, valid, faults>>
    BY <1>1 DEF LookupHit
  <2> QED BY <1>0, <2>2, <2>3, <2>4, <2>5, OneCall, FaultCounted
<1>2. CASE LookupBackoff(c)
  <2> DEFINE r == Idle(call[c].api, "failed")
  <2>1. r \in CallRecord
    BY <1>0, CDNAssumption DEF Idle, CallRecord, Labels, Versions, Permalink
  <2>2. call' = [call EXCEPT ![c] = r]
    BY <1>0, <1>2 DEF LookupBackoff, Return
  <2>3. SoundCall(r, faults) /\ SameFlight(c, r)
    BY <1>0, <1>2 DEF LookupBackoff, Inv, TypeOK, SoundEntry, SoundCall, SameFlight, Leads,
      CallRecord, Idle, Permalink
  <2>4. UNCHANGED <<caching, entry, flight, valid, faults>>
    BY <1>2 DEF LookupBackoff
  <2> QED BY <1>0, <2>1, <2>2, <2>3, <2>4, OneCall, FaultCounted
<1>3. CASE LookupMiss(c)
  <2> DEFINE r == [call[c] EXCEPT !.pc = "do"]
  <2>1. r \in CallRecord
    BY <1>0 DEF CallRecord, Labels
  <2>2. call' = [call EXCEPT ![c] = r]
    BY <1>0, <1>3 DEF LookupMiss, Goto
  <2>3. SoundCall(r, faults) /\ SameFlight(c, r)
    BY <1>0, <1>3 DEF LookupMiss, SoundCall, SameFlight, Leads, CallRecord
  <2>4. UNCHANGED <<caching, entry, flight, valid, faults>>
    BY <1>3 DEF LookupMiss
  <2> QED BY <1>0, <2>1, <2>2, <2>3, <2>4, OneCall, FaultCounted
<1>4. CASE DoJoin(c)
  <2> DEFINE r == [call[c] EXCEPT !.pc = "joined"]
  <2>1. r \in CallRecord
    BY <1>0 DEF CallRecord, Labels
  <2>2. call' = [call EXCEPT ![c] = r]
    BY <1>0, <1>4 DEF DoJoin, Goto
  <2>3. SoundCall(r, faults) /\ SameFlight(c, r)
    BY <1>0, <1>4 DEF DoJoin, SoundCall, SameFlight, Leads, CallRecord
  <2>4. UNCHANGED <<caching, entry, flight, valid, faults>>
    BY <1>4 DEF DoJoin
  <2> QED BY <1>0, <2>1, <2>2, <2>3, <2>4, OneCall, FaultCounted
<1> QED BY <1>1, <1>2, <1>3, <1>4

\* A redirect, in either loop: the first hop leads from the permalink and is never the
\* last that is allowed, and every other one counts as a fault.
LEMMA RedirectInv ==
  ASSUME Inv, NEW c \in Callers, NEW onward \in Labels, NEW tooMany \in Labels,
         Redirected(c, onward, tooMany), UNCHANGED <<caching, entry, flight, valid>>,
         \/ /\ call[c].pc \in {"resolve", "store", "land"}
            /\ onward = "resolve" /\ tooMany = "store"
         \/ /\ call[c].pc \notin {"resolve", "store", "land"}
            /\ onward = "request" /\ tooMany = "release"
  PROVE  Inv'
<1>0. /\ call \in [Callers -> CallRecord] /\ call[c] \in CallRecord
      /\ SoundCall(call[c], faults) /\ TypeOK
  BY DEF Inv, TypeOK
<1>1. FaultsCounted
  BY <1>0, FaultCounted DEF Redirected
<1>2. CASE LastHop(call[c].hops)
  <2> DEFINE r == [call[c] EXCEPT !.pc = tooMany, !.result = "failed"]
  <2>1. r \in CallRecord
    BY <1>0 DEF CallRecord
  <2>2. call' = [call EXCEPT ![c] = r]
    BY <1>0, <1>2 DEF Redirected
  <2>3. faults' > 0
    BY <1>0, <1>2, CDNAssumption
       DEF Redirected, LastHop, SoundCall, TypeOK, Fault, CallRecord
  <2>4. SoundCall(r, faults') /\ SameFlight(c, r)
    BY <1>0, <2>3 DEF SoundCall, SameFlight, Leads, CallRecord
  <2> QED BY <1>1, <2>1, <2>2, <2>4, OneCall
<1>3. CASE ~LastHop(call[c].hops)
  <2>1. PICK v \in Location(c) :
          call' = [call EXCEPT ![c].pc = onward, ![c].cur = v, ![c].hops = @ + 1]
    BY <1>3 DEF Redirected
  <2>2. v \in Versions /\ v # Permalink /\ v <= valid[call[c].api]
    BY <1>0, <2>1, CDNAssumption DEF Location, TypeOK, Versions, CallRecord, Permalink
  <2> DEFINE r == [call[c] EXCEPT !.pc = onward, !.cur = v, !.hops = @ + 1]
  <2>3. r \in CallRecord
    <3>1. call[c].hops + 1 \in 0..(MaxRedirects - 1)
      BY <1>0, <1>3, CDNAssumption DEF CallRecord, LastHop
    <3> QED BY <1>0, <2>2, <3>1 DEF CallRecord
  <2>4. call' = [call EXCEPT ![c] = r]
    BY <1>0, <2>1
  <2>5. faults \in Nat /\ faults' \in Nat /\ faults' >= faults
    BY <1>0, <1>1, CDNAssumption DEF FaultsCounted, TypeOK
  <2>6. SoundCall(r, faults') /\ SameFlight(c, r)
    BY <1>0, <2>2, <2>5 DEF SoundCall, SameFlight, Leads, CallRecord
  <2> QED BY <1>1, <2>3, <2>4, <2>6, OneCall
<1> QED BY <1>2, <1>3

\* Requests to the API and to the CDN.
LEMMA RequestInv ==
  ASSUME Inv, NEW c \in Callers,
         \/ ResolveRedirected(c) \/ ResolveAnswered(c) \/ ResolveFails(c)
         \/ RangeRedirected(c) \/ RangeAnswered(c) \/ RangeFails(c)
  PROVE  Inv'
<1>0. /\ call \in [Callers -> CallRecord] /\ call[c] \in CallRecord
      /\ SoundCall(call[c], faults) /\ TypeOK
  BY DEF Inv, TypeOK
<1>a. faults \in Nat
  BY <1>0, CDNAssumption DEF TypeOK
<1>1. CASE ResolveRedirected(c)
  BY <1>1, RedirectInv DEF ResolveRedirected, Labels
<1>2. CASE ResolveAnswered(c)
  <2> DEFINE r == [call[c] EXCEPT !.pc = "store", !.url = call[c].cur, !.result = "ok"]
  <2>1. r \in CallRecord
    BY <1>0 DEF CallRecord, Labels
  <2>2. call' = [call EXCEPT ![c] = r]
    BY <1>0, <1>2 DEF ResolveAnswered
  <2>3. FaultsCounted
    BY <1>0, <1>2, FaultCounted DEF ResolveAnswered
  <2>4. SoundCall(r, faults') /\ SameFlight(c, r)
    BY <1>0, <1>a, <1>2, <2>3, CDNAssumption
       DEF ResolveAnswered, SoundCall, SameFlight, Leads, CallRecord, FaultsCounted
  <2>5. UNCHANGED <<caching, entry, flight, valid>>
    BY <1>2 DEF ResolveAnswered
  <2> QED BY <2>1, <2>2, <2>3, <2>4, <2>5, OneCall
<1>3. CASE ResolveFails(c)
  <2> DEFINE r == [call[c] EXCEPT !.pc = "store", !.result = "failed"]
  <2>1. r \in CallRecord
    BY <1>0 DEF CallRecord, Labels
  <2>2. call' = [call EXCEPT ![c] = r]
    BY <1>0, <1>3 DEF ResolveFails
  <2>3. FaultsCounted /\ faults' > 0
    BY <1>0, <1>a, <1>3, FaultCounted DEF ResolveFails, FaultUnlessDone, Fault, SoundCall
  <2>4. SoundCall(r, faults') /\ SameFlight(c, r)
    BY <1>0, <1>3, <2>3 DEF ResolveFails, SoundCall, SameFlight, Leads, CallRecord
  <2>5. UNCHANGED <<caching, entry, flight, valid>>
    BY <1>3 DEF ResolveFails
  <2> QED BY <2>1, <2>2, <2>3, <2>4, <2>5, OneCall
<1>4. CASE RangeRedirected(c)
  BY <1>4, RedirectInv DEF RangeRedirected, Labels
<1>5. CASE RangeAnswered(c)
  <2> DEFINE result == IF call[c].cur = valid[call[c].api] THEN "ok" ELSE "refused"
             r == [call[c] EXCEPT !.pc = "release", !.result = result]
  <2>1. r \in CallRecord
    BY <1>0 DEF CallRecord, Labels
  <2>2. call' = [call EXCEPT ![c] = r]
    BY <1>0, <1>5 DEF RangeAnswered, Answered
  <2>3. result = "refused" => valid[call[c].api] > 1
    BY <1>0, <1>5, CDNAssumption
       DEF RangeAnswered, SoundCall, TypeOK, CallRecord, Versions, Permalink
  <2>4. result # "failed"
    OBVIOUS
  <2>5. SoundCall(r, faults) /\ SameFlight(c, r)
    <3> HIDE DEF result
    <3> QED BY <1>0, <1>5, <2>3, <2>4
            DEF RangeAnswered, SoundCall, SameFlight, Leads, CallRecord
  <2>6. UNCHANGED <<caching, entry, flight, valid, faults>>
    BY <1>5 DEF RangeAnswered
  <2> QED BY <1>0, <2>1, <2>2, <2>5, <2>6, OneCall, FaultCounted
<1>6. CASE RangeFails(c)
  <2> DEFINE r == [call[c] EXCEPT !.pc = "release", !.result = "failed"]
  <2>1. r \in CallRecord
    BY <1>0 DEF CallRecord, Labels
  <2>2. call' = [call EXCEPT ![c] = r]
    BY <1>0, <1>6 DEF RangeFails, Answered
  <2>3. FaultsCounted /\ faults' > 0
    BY <1>0, <1>a, <1>6, FaultCounted DEF RangeFails, FaultUnlessDone, Fault, SoundCall
  <2>4. SoundCall(r, faults') /\ SameFlight(c, r)
    BY <1>0, <1>6, <2>3 DEF RangeFails, SoundCall, SameFlight, Leads, CallRecord
  <2>5. UNCHANGED <<caching, entry, flight, valid>>
    BY <1>6 DEF RangeFails
  <2> QED BY <2>1, <2>2, <2>3, <2>4, <2>5, OneCall
<1> QED BY <1>1, <1>2, <1>3, <1>4, <1>5, <1>6

\* The states a call without a resolution under way can be taken to.
LEMMA PlainStates ==
  ASSUME Inv, NEW c \in Callers, call[c].pc \notin {"resolve", "store", "land"}
  PROVE  /\ \A l \in Labels \ {"joined", "resolve", "store", "land"} :
              LET r == [call[c] EXCEPT !.pc = l]
              IN r \in CallRecord /\ SoundCall(r, faults) /\ SameFlight(c, r)
         /\ \A result \in {"none", "ok", "refused", "failed"} :
              LET r == Idle(call[c].api, result)
              IN /\ r \in CallRecord /\ SameFlight(c, r)
                 /\ result = call[c].result \/ (result = "failed" /\ call[c].ctx = "done")
                      => SoundCall(r, faults)
         /\ LET r == [call[c] EXCEPT !.pc = "request", !.cur = call[c].url, !.hops = 0]
            IN r \in CallRecord /\ SoundCall(r, faults) /\ SameFlight(c, r)
<1>0. /\ call[c] \in CallRecord /\ SoundCall(call[c], faults)
      /\ 0 \in 0..MaxVersion /\ 0 \in 0..(MaxRedirects - 1)
      /\ valid[call[c].api] >= 0
  BY CDNAssumption DEF Inv, TypeOK, CallRecord
<1>1. ASSUME NEW l \in Labels \ {"joined", "resolve", "store", "land"}
      PROVE  LET r == [call[c] EXCEPT !.pc = l]
             IN r \in CallRecord /\ SoundCall(r, faults) /\ SameFlight(c, r)
  BY <1>0, <1>1 DEF CallRecord, SoundCall, SameFlight, Leads
<1>2. ASSUME NEW result \in {"none", "ok", "refused", "failed"}
      PROVE  LET r == Idle(call[c].api, result)
             IN /\ r \in CallRecord /\ SameFlight(c, r)
                /\ result = call[c].result \/ (result = "failed" /\ call[c].ctx = "done")
                     => SoundCall(r, faults)
  BY <1>0, <1>2 DEF CallRecord, SoundCall, SameFlight, Leads, Idle, Labels, Versions, Permalink
<1>3. LET r == [call[c] EXCEPT !.pc = "request", !.cur = call[c].url, !.hops = 0]
      IN r \in CallRecord /\ SoundCall(r, faults) /\ SameFlight(c, r)
  BY <1>0 DEF CallRecord, SoundCall, SameFlight, Leads, Labels
<1> QED BY <1>1, <1>2, <1>3

\* The slots of a host, and the beginning and the cancellation of a call.
LEMMA TransferInv ==
  ASSUME Inv, NEW c \in Callers,
         AcquireFast(c) \/ AcquireWait(c) \/ QueueCancelled(c) \/ Release(c)
  PROVE  Inv'
<1>0. /\ call \in [Callers -> CallRecord] /\ call[c] \in CallRecord /\ TypeOK
      /\ call[c].pc \notin {"resolve", "store", "land"}
      /\ call[c].result \in {"none", "ok", "refused", "failed"}
  BY DEF Inv, TypeOK, CallRecord, AcquireFast, AcquireWait, QueueCancelled, Release
<1>1. UNCHANGED <<caching, entry, flight, valid, faults>> /\ FaultsCounted
  BY <1>0, FaultCounted DEF AcquireFast, AcquireWait, QueueCancelled, Release
<1> DEFINE req == [call[c] EXCEPT !.pc = "request", !.cur = call[c].url, !.hops = 0]
           queued == [call[c] EXCEPT !.pc = "queued"]
<1>2. CASE AcquireFast(c)
  <2>1. call' = [call EXCEPT ![c] = req]
    BY <1>0, <1>2 DEF AcquireFast, Request
  <2>2. req \in CallRecord /\ SoundCall(req, faults') /\ SameFlight(c, req)
    BY <1>0, <1>1, PlainStates
  <2> QED BY <1>1, <2>1, <2>2, OneCall
<1>3. CASE AcquireWait(c) /\ call[c].ctx # "done"
  <2>1. call' = [call EXCEPT ![c] = queued]
    BY <1>0, <1>3 DEF AcquireWait, Goto
  <2>2. queued \in CallRecord /\ SoundCall(queued, faults') /\ SameFlight(c, queued)
    BY <1>0, <1>1, PlainStates DEF Labels
  <2> QED BY <1>1, <2>1, <2>2, OneCall
<1>4. CASE QueueCancelled(c) \/ (AcquireWait(c) /\ call[c].ctx = "done")
  <2> DEFINE r == Idle(call[c].api, "failed")
  <2>1. call' = [call EXCEPT ![c] = r] /\ call[c].ctx = "done"
    BY <1>0, <1>4 DEF AcquireWait, QueueCancelled, Return
  <2>2. r \in CallRecord /\ SoundCall(r, faults') /\ SameFlight(c, r)
    BY <1>0, <1>1, <2>1, PlainStates
  <2> QED BY <1>1, <2>1, <2>2, OneCall
<1>5. CASE Release(c)
  <2> DEFINE r == Idle(call[c].api, call[c].result)
  <2>1. call' = [call EXCEPT ![c] = r]
    BY <1>0, <1>5 DEF Release, Return
  <2>2. r \in CallRecord /\ SoundCall(r, faults') /\ SameFlight(c, r)
    BY <1>0, <1>1, PlainStates
  <2> QED BY <1>1, <2>1, <2>2, OneCall
<1> QED BY <1>2, <1>3, <1>4, <1>5

\* A slot handed over: the releasing call returns and the granted one goes on.
LEMMA GrantInv ==
  ASSUME Inv, NEW c \in Callers, NEW q \in Callers, ReleaseGrant(c, q)
  PROVE  Inv'
<1> DEFINE ret == Idle(call[c].api, call[c].result)
           req == [call[q] EXCEPT !.pc = "request", !.cur = call[q].url, !.hops = 0]
<1>0. /\ call \in [Callers -> CallRecord] /\ TypeOK
      /\ call[c].pc = "release" /\ call[q].pc = "queued" /\ c # q
      /\ call[c].result \in {"none", "ok", "refused", "failed"}
  BY DEF Inv, TypeOK, CallRecord, ReleaseGrant, Waiting
<1>1. UNCHANGED <<caching, entry, flight, valid, faults>>
  BY DEF ReleaseGrant
<1>2. ret \in CallRecord /\ SoundCall(ret, faults) /\ SameFlight(c, ret)
  BY <1>0, PlainStates
<1>3. req \in CallRecord /\ SoundCall(req, faults) /\ SameFlight(q, req)
  BY <1>0, PlainStates
<1> HIDE DEF ret
<1>4. call' = [[call EXCEPT ![c] = ret] EXCEPT ![q] = req]
  BY <1>0, <1>2 DEF ReleaseGrant, Request, Return, ret
<1> HIDE DEF req
<1>5. /\ call' \in [Callers -> CallRecord]
      /\ call'[c] = ret /\ call'[q] = req
      /\ \A d \in Callers : d \notin {c, q} => call'[d] = call[d]
  BY <1>0, <1>2, <1>3, <1>4
<1>6. TypeOK'
  BY <1>1, <1>5 DEF Inv, TypeOK
<1>7. FlightsLed'
  BY <1>1, <1>2, <1>3, <1>5 DEF Inv, FlightsLed, SameFlight, Leads
<1>8. \A d \in Callers : SoundCall(call[d], faults)'
  BY <1>1, <1>2, <1>3, <1>5 DEF Inv, SoundCall
<1>9. \A u \in Permalinks : SoundEntry(u)'
  BY <1>1 DEF Inv, SoundEntry
<1> QED BY <1>6, <1>7, <1>8, <1>9 DEF Inv

\* A caller that finds no resolution under way leads one.
LEMMA LeadInv ==
  ASSUME Inv, NEW c \in Callers, DoLead(c)
  PROVE  Inv'
<1> DEFINE r == [call[c] EXCEPT !.pc = "resolve"]
<1>0. /\ call \in [Callers -> CallRecord] /\ call[c] \in CallRecord
      /\ SoundCall(call[c], faults) /\ TypeOK
  BY DEF Inv, TypeOK
<1>1. /\ UNCHANGED <<caching, entry, valid, faults>>
      /\ call[c].pc = "do" /\ flight[call[c].api] = None
      /\ flight' = [flight EXCEPT ![call[c].api] = c]
  BY DEF DoLead
<1>2. r \in CallRecord /\ SoundCall(r, faults)
  BY <1>0 DEF CallRecord, Labels, SoundCall
<1>3. r.pc = "resolve" /\ r.api = call[c].api /\ call[c].api \in Permalinks
  BY <1>0 DEF CallRecord
<1>4. call' = [call EXCEPT ![c] = r]
  BY <1>0 DEF DoLead, Goto
<1> HIDE DEF r
<1>5. /\ call' \in [Callers -> CallRecord] /\ call'[c] = r
      /\ \A d \in Callers : d # c => call'[d] = call[d]
  BY <1>0, <1>2, <1>4
<1>6. TypeOK'
  BY <1>0, <1>1, <1>3, <1>5 DEF TypeOK
<1>7. FlightsLed'
  <2>1. /\ flight' \in [Permalinks -> Callers \cup {None}]
        /\ flight'[call[c].api] = c
        /\ \A u \in Permalinks : u # call[c].api => flight'[u] = flight[u]
    BY <1>0, <1>1, <1>3 DEF TypeOK
  <2>2. \A u \in Permalinks, d \in Callers : Leads(d, u) <=> flight[u] = d
    BY DEF Inv, FlightsLed
  <2>3. ASSUME NEW u \in Permalinks, NEW d \in Callers
        PROVE  Leads(d, u)' <=> flight'[u] = d
    BY <1>1, <1>3, <1>5, <2>1, <2>2, CDNAssumption DEF Leads
  <2>4. ASSUME NEW u \in Permalinks, flight'[u] = None, NEW d \in Callers
        PROVE  ~(call'[d].pc = "joined" /\ call'[d].api = u)
    BY <1>1, <1>3, <1>5, <2>1, <2>4, CDNAssumption DEF Inv, FlightsLed
  <2> QED BY <2>3, <2>4 DEF FlightsLed
<1>8. \A d \in Callers : SoundCall(call[d], faults)'
  BY <1>1, <1>2, <1>5 DEF Inv, SoundCall
<1>9. \A u \in Permalinks : SoundEntry(u)'
  BY <1>1 DEF Inv, SoundEntry
<1> QED BY <1>6, <1>7, <1>8, <1>9 DEF Inv

\* The outcome goes to the cache.
LEMMA StoreInv ==
  ASSUME Inv, NEW c \in Callers, StoreEntry(c)
  PROVE  Inv'
<1> DEFINE r == [call[c] EXCEPT !.pc = "land"]
           e == IF call[c].result = "ok" THEN Resolved(call[c].url) ELSE Failed
<1>0. /\ call \in [Callers -> CallRecord] /\ call[c] \in CallRecord
      /\ SoundCall(call[c], faults) /\ TypeOK
  BY DEF Inv, TypeOK
<1>1. /\ UNCHANGED <<caching, flight, valid, faults>> /\ call[c].pc = "store"
      /\ entry' = [entry EXCEPT ![call[c].api] = e]
  BY DEF StoreEntry
<1>2. /\ r \in CallRecord /\ SoundCall(r, faults)
      /\ r.pc = "land" /\ r.api = call[c].api /\ r.api \in Permalinks
  BY <1>0, <1>1 DEF CallRecord, Labels, SoundCall
<1>3. call' = [call EXCEPT ![c] = r]
  BY <1>0 DEF StoreEntry, Goto
<1> HIDE DEF r
<1>4. /\ call' \in [Callers -> CallRecord] /\ call'[c] = r
      /\ \A d \in Callers : d # c => call'[d] = call[d]
  BY <1>0, <1>2, <1>3
<1>5. /\ e \in [kind : {"absent", "failed", "resolved"}, url : Versions]
      /\ e.url <= valid[call[c].api]
      /\ e.kind = "failed" => faults > 0
  <2>1. CASE call[c].result = "ok"
    <3>1. call[c].url \in Versions /\ call[c].url <= valid[call[c].api]
      BY <1>0 DEF CallRecord, SoundCall
    <3> QED BY <2>1, <3>1 DEF Resolved
  <2>2. CASE call[c].result # "ok"
    <3>1. faults > 0
      BY <1>0, <1>1, <2>2 DEF SoundCall
    <3>2. 0 \in Versions /\ 0 <= valid[call[c].api]
      BY <1>0, CDNAssumption DEF TypeOK, CallRecord, Versions
    <3> QED BY <2>2, <3>1, <3>2 DEF Failed, Permalink
  <2> QED BY <2>1, <2>2
<1> HIDE DEF e
<1>6. TypeOK'
  BY <1>0, <1>1, <1>2, <1>4, <1>5 DEF TypeOK
<1>7. FlightsLed'
  BY <1>1, <1>2, <1>4 DEF Inv, FlightsLed, Leads
<1>8. \A d \in Callers : SoundCall(call[d], faults)'
  BY <1>1, <1>2, <1>4 DEF Inv, SoundCall
<1>9. \A u \in Permalinks : SoundEntry(u)'
  BY <1>0, <1>1, <1>2, <1>5 DEF Inv, TypeOK, SoundEntry
<1> QED BY <1>6, <1>7, <1>8, <1>9 DEF Inv

\* The outcome goes to everybody who waits for it, and the flight is over.
LEMMA LandInv ==
  ASSUME Inv, NEW c \in Callers, Land(c)
  PROVE  Inv'
<1> DEFINE u0 == call[c].api
           out(d) == IF call[c].result = "ok"
                     THEN [Idle(call[d].api, "none") EXCEPT
                             !.pc = "acquire", !.url = call[c].url, !.ctx = call[d].ctx]
                     ELSE Idle(call[d].api, "failed")
<1>0. /\ call \in [Callers -> CallRecord] /\ call[c] \in CallRecord
      /\ SoundCall(call[c], faults) /\ TypeOK
  BY DEF Inv, TypeOK
<1>1. /\ UNCHANGED <<caching, entry, valid, faults>> /\ call[c].pc = "land"
      /\ flight' = [flight EXCEPT ![u0] = None]
      /\ call' = [d \in Callers |-> IF d \notin Passengers(c) THEN call[d] ELSE out(d)]
  BY DEF Land
<1>2. \A d \in Callers :
        d \in Passengers(c) <=> d = c \/ (call[d].pc = "joined" /\ call[d].api = u0)
  BY DEF Passengers, Joined
<1>3. ASSUME NEW d \in Passengers(c)
      PROVE  /\ d \in Callers /\ call[d].api = u0
             /\ out(d) \in CallRecord /\ SoundCall(out(d), faults)
             /\ out(d).pc \in {"acquire", "idle"} /\ out(d).api = u0
  <2>1. d \in Callers /\ call[d].api = u0 /\ call[d] \in CallRecord
        /\ SoundCall(call[d], faults)
    BY <1>0, <1>3 DEF Passengers, Joined, Inv
  <2>2. 0 \in Versions /\ 0 \in 0..(MaxRedirects - 1) /\ 0 <= valid[u0]
    BY <1>0, CDNAssumption DEF TypeOK, CallRecord, Versions
  <2>3. CASE call[c].result = "ok"
    BY <1>0, <2>1, <2>2, <2>3 DEF Idle, CallRecord, SoundCall, Labels, Permalink
  <2>4. CASE call[c].result # "ok"
    <3>1. faults > 0
      BY <1>0, <1>1, <2>4 DEF SoundCall
    <3> QED BY <1>0, <2>1, <2>2, <2>4, <3>1
            DEF Idle, CallRecord, SoundCall, Labels, Permalink
  <2> QED BY <2>1, <2>3, <2>4
<1> HIDE DEF out
<1>4. /\ \A d \in Callers : d \in Passengers(c) => call'[d] = out(d)
      /\ \A d \in Callers : d \notin Passengers(c) => call'[d] = call[d]
  BY <1>1
<1>5. call' \in [Callers -> CallRecord]
  BY <1>0, <1>1, <1>3
<1>6. /\ u0 \in Permalinks /\ flight' \in [Permalinks -> Callers \cup {None}]
      /\ flight'[u0] = None
      /\ \A u \in Permalinks : u # u0 => flight'[u] = flight[u]
  BY <1>0, <1>1 DEF TypeOK, CallRecord
<1>7. TypeOK'
  BY <1>0, <1>1, <1>5, <1>6 DEF TypeOK
<1>8. FlightsLed'
  <2>1. \A u \in Permalinks, d \in Callers : Leads(d, u) <=> flight[u] = d
    BY DEF Inv, FlightsLed
  <2>2. flight[u0] = c
    BY <1>1, <1>6, <2>1 DEF Leads
  <2>3. ASSUME NEW u \in Permalinks, NEW d \in Callers
        PROVE  Leads(d, u)' <=> flight'[u] = d
    <3>1. CASE d \in Passengers(c)
      BY <1>1, <1>2, <1>3, <1>4, <1>6, <2>1, <2>2, <3>1, CDNAssumption DEF Leads
    <3>2. CASE d \notin Passengers(c)
      BY <1>1, <1>2, <1>4, <1>6, <2>1, <2>2, <3>2, CDNAssumption DEF Leads
    <3> QED BY <3>1, <3>2
  <2>4. ASSUME NEW u \in Permalinks, flight'[u] = None, NEW d \in Callers
        PROVE  ~(call'[d].pc = "joined" /\ call'[d].api = u)
    BY <1>2, <1>3, <1>4, <1>6, <2>4 DEF Inv, FlightsLed
  <2> QED BY <2>3, <2>4 DEF FlightsLed
<1>9. \A d \in Callers : SoundCall(call[d], faults)'
  BY <1>1, <1>3, <1>4 DEF Inv, SoundCall
<1>10. \A u \in Permalinks : SoundEntry(u)'
  BY <1>1 DEF Inv, SoundEntry
<1> QED BY <1>7, <1>8, <1>9, <1>10 DEF Inv

\* The environment: new calls, cancellations, new URLs at TorBox, and time.
LEMMA EnvironmentInv ==
  ASSUME Inv,
         \/ \E c \in Callers : Cancel(c)
         \/ \E c \in Callers, u \in Permalinks : FetchRange(c, u)
         \/ \E u \in Permalinks : Rotate(u) \/ Expire(u)
  PROVE  Inv'
<1>0. call \in [Callers -> CallRecord] /\ TypeOK
  BY DEF Inv, TypeOK
<1>1. ASSUME NEW c \in Callers, Cancel(c) PROVE Inv'
  <2> DEFINE r == [call[c] EXCEPT !.ctx = "done"]
  <2>1. call[c] \in CallRecord /\ SoundCall(call[c], faults) /\ faults \in Nat
    BY <1>0, CDNAssumption DEF Inv, TypeOK
  <2>2. UNCHANGED <<caching, entry, flight, valid>> /\ call' = [call EXCEPT ![c] = r]
    BY <1>0, <1>1 DEF Cancel
  <2>3. FaultsCounted /\ faults' = faults + 1
    BY <1>0, <1>1, FaultCounted DEF Cancel, Fault
  <2>4. r \in CallRecord /\ SoundCall(r, faults')
    BY <2>1, <2>3 DEF CallRecord, SoundCall
  <2>5. SameFlight(c, r)
    BY <2>1 DEF CallRecord, Inv, FlightsLed, SameFlight, Leads
  <2> QED BY <2>2, <2>3, <2>4, <2>5, OneCall
<1>2. ASSUME NEW c \in Callers, NEW u \in Permalinks, FetchRange(c, u) PROVE Inv'
  <2> DEFINE r == [Idle(u, "none") EXCEPT !.pc = "lookup"]
  <2>1. call[c] \in CallRecord /\ call[c].pc = "idle"
    BY <1>0, <1>2 DEF FetchRange
  <2>2. UNCHANGED <<caching, entry, flight, valid, faults>> /\ call' = [call EXCEPT ![c] = r]
    BY <1>0, <1>2 DEF FetchRange
  <2>0. 0 \in Versions /\ 0 \in 0..(MaxRedirects - 1) /\ 0 <= valid[u]
    BY <1>0, CDNAssumption DEF TypeOK, Versions
  <2>a. r = [pc |-> "lookup", api |-> u, url |-> 0, cur |-> 0, hops |-> 0,
             result |-> "none", ctx |-> "live"]
    BY DEF Idle, Permalink
  <2> HIDE DEF r
  <2>3. r \in CallRecord /\ SoundCall(r, faults) /\ SameFlight(c, r)
    BY <2>0, <2>a, <2>1 DEF CallRecord, SoundCall, SameFlight, Leads, Labels
  <2>4. FaultsCounted
    BY <1>0, <2>2, FaultCounted
  <2> QED BY <2>2, <2>3, <2>4, OneCall
<1>3. ASSUME NEW u \in Permalinks, Rotate(u) PROVE Inv'
  <2>1. /\ UNCHANGED <<caching, entry, flight, call, faults>>
        /\ valid' \in [Permalinks -> 1..MaxVersion]
        /\ \A p \in Permalinks : valid'[p] >= valid[p]
    BY <1>0, <1>3, CDNAssumption DEF Rotate, TypeOK
  <2>2. TypeOK'
    BY <1>0, <2>1 DEF TypeOK
  <2>3. FlightsLed'
    BY <2>1 DEF Inv, FlightsLed, Leads
  <2>4. \A d \in Callers : SoundCall(call[d], faults)'
    <3> SUFFICES ASSUME NEW d \in Callers PROVE SoundCall(call[d], faults)'
      OBVIOUS
    <3>1. /\ call[d].api \in Permalinks /\ SoundCall(call[d], faults)
          /\ call[d].cur \in Int /\ call[d].url \in Int
      BY <1>0, CDNAssumption DEF Inv, CallRecord, Versions
    <3>2. /\ valid[call[d].api] \in Int /\ valid'[call[d].api] \in Int
          /\ valid'[call[d].api] >= valid[call[d].api]
      BY <1>0, <2>1, <3>1 DEF TypeOK
    <3> QED BY <2>1, <3>1, <3>2 DEF SoundCall
  <2>5. \A p \in Permalinks : SoundEntry(p)'
    BY <1>0, <2>1, CDNAssumption DEF Inv, TypeOK, Versions, SoundEntry
  <2> QED BY <2>2, <2>3, <2>4, <2>5 DEF Inv
<1>4. ASSUME NEW u \in Permalinks, Expire(u) PROVE Inv'
  <2>1. /\ UNCHANGED <<caching, flight, valid, call, faults>>
        /\ entry' = [entry EXCEPT ![u] = Absent]
        /\ Absent \in [kind : {"absent", "failed", "resolved"}, url : Versions]
    BY <1>4, CDNAssumption DEF Expire, Absent, Versions, Permalink
  <2>2. TypeOK'
    BY <1>0, <2>1 DEF TypeOK
  <2>3. FlightsLed'
    BY <2>1 DEF Inv, FlightsLed, Leads
  <2>4. \A d \in Callers : SoundCall(call[d], faults)'
    BY <2>1 DEF Inv, SoundCall
  <2>5. \A p \in Permalinks : SoundEntry(p)'
    BY <1>0, <2>1, CDNAssumption DEF Inv, TypeOK, Versions, SoundEntry, Absent, Permalink
  <2> QED BY <2>2, <2>3, <2>4, <2>5 DEF Inv
<1> QED BY <1>1, <1>2, <1>3, <1>4

LEMMA StutterInv == Inv /\ UNCHANGED vars => Inv'
<1> SUFFICES ASSUME Inv, UNCHANGED vars PROVE Inv'
  OBVIOUS
<1>1. TypeOK'
  BY DEF Inv, TypeOK, vars
<1>2. FlightsLed'
  BY DEF Inv, FlightsLed, Leads, vars
<1>3. /\ \A c \in Callers : SoundCall(call[c], faults)'
      /\ \A u \in Permalinks : SoundEntry(u)'
  BY DEF Inv, SoundCall, SoundEntry, vars
<1> QED BY <1>1, <1>2, <1>3 DEF Inv

\* Every step of the client and of its environment preserves the invariant.
LEMMA NextInv == Inv /\ [Next]_vars => Inv'
<1> SUFFICES ASSUME Inv, [Next]_vars PROVE Inv'
  OBVIOUS
<1>1. ASSUME NEW c \in Callers, Resolve(c) PROVE Inv'
  BY <1>1, LookupInv, RequestInv, LeadInv, StoreInv, LandInv DEF Resolve
<1>2. ASSUME NEW c \in Callers, Transfer(c) PROVE Inv'
  BY <1>2, TransferInv, RequestInv, GrantInv DEF Transfer
<1>3. CASE \/ \E c \in Callers : Cancel(c)
           \/ \E c \in Callers, u \in Permalinks : FetchRange(c, u)
           \/ \E u \in Permalinks : Rotate(u) \/ Expire(u)
  BY <1>3, EnvironmentInv
<1>4. CASE UNCHANGED vars
  BY <1>4, StutterInv
<1> QED BY <1>1, <1>2, <1>3, <1>4 DEF Next

LEMMA SpecInv == Spec => []Inv
<1>1. Inv /\ [Next]_vars => Inv'
  BY NextInv
<1> QED BY InitInv, <1>1, PTL DEF Spec

\* The client's state keeps its types for any callers, permalinks and bounds; above all,
\* no chain of redirects takes more than MaxRedirects requests.
THEOREM TypeCorrect == Spec => []TypeOK
<1>1. Inv => TypeOK BY DEF Inv
<1> QED BY SpecInv, <1>1, PTL

\* One caller at a time resolves a permalink, and nobody waits for a resolution that has
\* been taken down, however lookups, joins and the end of a flight interleave.
THEOREM OneFlight == Spec => []FlightsLed
<1>1. Inv => FlightsLed BY DEF Inv
<1> QED BY SpecInv, <1>1, PTL

\* No call of FetchRange fails before something has been cancelled or answered oddly,
\* and none is refused before a URL has been replaced.
THEOREM FailuresCaused == Spec => []FailuresHaveCauses
BY SpecInv, InvCauses, PTL

\* A redirect changes the label of its own call only, no permalink and no resolved URL.
LEMMA RedirectMoves ==
  ASSUME call \in [Callers -> CallRecord], NEW c \in Callers,
         NEW onward, NEW tooMany, Redirected(c, onward, tooMany)
  PROVE  /\ call'[c].pc \in {onward, tooMany}
         /\ \A d \in Callers : call'[d].api = call[d].api /\ call'[d].url = call[d].url
         /\ \A d \in Callers : d # c => call'[d] = call[d]
<1>1. CASE LastHop(call[c].hops)
  BY <1>1 DEF Redirected, CallRecord
<1>2. CASE ~LastHop(call[c].hops)
  <2>1. PICK v \in Location(c) :
          call' = [call EXCEPT ![c].pc = onward, ![c].cur = v, ![c].hops = @ + 1]
    BY <1>2 DEF Redirected
  <2> QED BY <2>1 DEF CallRecord
<1> QED BY <1>1, <1>2

\* Only a lookup that misses sends a new caller to the API.
LEMMA NewAsker ==
  ASSUME Inv, Next, NEW u \in Permalinks, NEW d \in Callers,
         d \in Asking(u)', d \notin Asking(u)
  PROVE  LookupMiss(d) /\ call[d].api = u
<1>0. call \in [Callers -> CallRecord]
  BY DEF Inv, TypeOK
<1> DEFINE pcs == {"do", "joined", "resolve"}
<1>1. call'[d].pc \in pcs /\ call'[d].api = u /\ (call[d].pc \notin pcs \/ call[d].api # u)
  BY DEF Asking
<1>2. ASSUME NEW c \in Callers, Resolve(c) PROVE LookupMiss(d) /\ call[d].api = u
  <2> USE <1>0, <1>1 DEF CallRecord, Goto
  <2>1. CASE LookupHit(c) BY <2>1 DEF LookupHit, WithURL
  <2>2. CASE LookupBackoff(c) BY <2>2 DEF LookupBackoff, Return, Idle
  <2>3. CASE LookupMiss(c) BY <2>3 DEF LookupMiss
  <2>4. CASE DoJoin(c) BY <2>4 DEF DoJoin
  <2>5. CASE DoLead(c) BY <2>5 DEF DoLead
  <2>6. CASE ResolveRedirected(c) BY <2>6, RedirectMoves DEF ResolveRedirected
  <2>7. CASE ResolveAnswered(c) BY <2>7 DEF ResolveAnswered
  <2>8. CASE ResolveFails(c) BY <2>8 DEF ResolveFails
  <2>9. CASE StoreEntry(c) BY <2>9 DEF StoreEntry
  <2>10. CASE Land(c) BY <2>10 DEF Land, Idle
  <2> QED BY <1>2, <2>1, <2>2, <2>3, <2>4, <2>5, <2>6, <2>7, <2>8, <2>9, <2>10 DEF Resolve
<1>3. ASSUME NEW c \in Callers, Transfer(c) PROVE FALSE
  <2> USE <1>0, <1>1 DEF CallRecord, Goto, Return, Idle
  <2>1. CASE AcquireFast(c) BY <2>1 DEF AcquireFast, Request
  <2>2. CASE AcquireWait(c) BY <2>2 DEF AcquireWait
  <2>3. CASE QueueCancelled(c) BY <2>3 DEF QueueCancelled
  <2>4. CASE RangeRedirected(c) BY <2>4, RedirectMoves DEF RangeRedirected
  <2>5. CASE RangeAnswered(c) BY <2>5 DEF RangeAnswered, Answered
  <2>6. CASE RangeFails(c) BY <2>6 DEF RangeFails, Answered
  <2>7. CASE Release(c) BY <2>7 DEF Release
  <2>8. ASSUME NEW q \in Callers, ReleaseGrant(c, q) PROVE FALSE
    BY <2>8 DEF ReleaseGrant, Request
  <2> QED BY <1>3, <2>1, <2>2, <2>3, <2>4, <2>5, <2>6, <2>7, <2>8 DEF Transfer
<1>4. ASSUME NEW c \in Callers, Cancel(c) PROVE FALSE
  BY <1>0, <1>1, <1>4 DEF Cancel, CallRecord
<1>5. ASSUME NEW c \in Callers, NEW p \in Permalinks, FetchRange(c, p) PROVE FALSE
  BY <1>0, <1>1, <1>5 DEF FetchRange, Idle
<1>6. ASSUME NEW p \in Permalinks, Rotate(p) \/ Expire(p) PROVE FALSE
  BY <1>1, <1>6 DEF Rotate, Expire
<1> QED BY <1>2, <1>3, <1>4, <1>5, <1>6 DEF Next

\* While a failure stands in the cache, nobody new goes to the API.
THEOREM BackoffKept == Spec => BackoffHolds
<1> DEFINE Kept == \A u \in Permalinks :
             entry[u] = Failed /\ entry'[u] = Failed => Asking(u)' \subseteq Asking(u)
<1>1. Inv /\ [Next]_vars => [Kept]_vars
  <2> SUFFICES ASSUME Inv, Next, NEW u \in Permalinks, entry[u] = Failed,
                      NEW d \in Asking(u)', d \notin Asking(u)
               PROVE  FALSE
    OBVIOUS
  <2>1. d \in Callers
    BY DEF Asking
  <2>2. LookupMiss(d) /\ call[d].api = u
    BY <2>1, NewAsker
  <2> QED BY <2>2 DEF LookupMiss, Miss, Failed
<1> QED BY SpecInv, <1>1, PTL DEF Spec, BackoffHolds
-----------------------------------------------------------------------------
(* The slots of the hosts. *)

\* The pools of all hosts are used within their limit, and somebody waits only where
\* every slot is owned.
HostFull(h) ==
  /\ IsFiniteSet(Inside(h)) /\ Cardinality(Inside(h)) <= MaxConns
  /\ Waiting(h) # {} => Cardinality(Inside(h)) = MaxConns
PoolsFull == \A h \in Hosts : HostFull(h)

PoolSteps == \A h \in Hosts : [Pool(h)!Next]_(Pool(h)!poolVars)

\* Calls that neither own nor want a slot; calls in the same place of the same host.
Out(r) == r.pc \notin {"queued", "request", "release"}
SamePlace(r, q) ==
  \/ Out(r) /\ Out(q)
  \/ /\ r.pc = "queued" <=> q.pc = "queued"
     /\ r.pc \in {"request", "release"} <=> q.pc \in {"request", "release"}
     /\ r.api = q.api /\ r.url = q.url

LEMMA Unmoved ==
  ASSUME \A d \in Callers : SamePlace(call'[d], call[d])
  PROVE  PoolSteps /\ (PoolsFull => PoolsFull')
<1>1. \A h \in Hosts : Inside(h)' = Inside(h) /\ Waiting(h)' = Waiting(h)
  BY DEF Inside, Waiting, HostOfCall, SamePlace, Out
<1>2. ASSUME NEW h \in Hosts PROVE UNCHANGED Pool(h)!poolVars
  BY <1>1 DEF Pool!poolVars
<1>3. PoolsFull => PoolsFull'
  BY <1>1 DEF PoolsFull, HostFull
<1> QED BY <1>2, <1>3 DEF PoolSteps

\* A step of one call changes the pool of its own host g only.
LEMMA OnePlace ==
  ASSUME NEW c \in Callers, \A d \in Callers : d # c => call'[d] = call[d],
         Out(call'[c]) \/ (call'[c].api = call[c].api /\ call'[c].url = call[c].url),
         NEW g, g = HostOfCall(c)
  PROVE  /\ \A h \in Hosts : h # g => Inside(h)' = Inside(h) /\ Waiting(h)' = Waiting(h)
         /\ Inside(g)' = IF call'[c].pc \in {"request", "release"}
                         THEN Inside(g) \cup {c} ELSE Inside(g) \ {c}
         /\ Waiting(g)' = IF call'[c].pc = "queued"
                          THEN Waiting(g) \cup {c} ELSE Waiting(g) \ {c}
<1>1. /\ Out(call'[c]) \/ HostOfCall(c)' = g
      /\ \A d \in Callers : d # c => HostOfCall(d)' = HostOfCall(d)
  BY DEF HostOfCall
<1>2. ASSUME NEW h \in Hosts, h # g
      PROVE  Inside(h)' = Inside(h) /\ Waiting(h)' = Waiting(h)
  BY <1>1, <1>2 DEF Inside, Waiting, Out
<1>3. Inside(g)' = IF call'[c].pc \in {"request", "release"}
                   THEN Inside(g) \cup {c} ELSE Inside(g) \ {c}
  BY <1>1 DEF Inside, Out
<1>4. Waiting(g)' = IF call'[c].pc = "queued"
                    THEN Waiting(g) \cup {c} ELSE Waiting(g) \ {c}
  BY <1>1 DEF Waiting, Out
<1> QED BY <1>2, <1>3, <1>4

\* A step of the pool of host g that leaves the other hosts alone.
LEMMA OnePool ==
  ASSUME PoolsFull, NEW g \in Hosts, Pool(g)!Next, HostFull(g)',
         \A h \in Hosts : h # g => Inside(h)' = Inside(h) /\ Waiting(h)' = Waiting(h)
  PROVE  PoolSteps /\ PoolsFull'
<1>1. ASSUME NEW h \in Hosts, h # g PROVE UNCHANGED Pool(h)!poolVars
  BY <1>1 DEF Pool!poolVars
<1>2. ASSUME NEW h \in Hosts PROVE HostFull(h)'
  BY <1>2 DEF PoolsFull, HostFull
<1> QED BY <1>1, <1>2 DEF PoolSteps, PoolsFull

\* A call takes a free slot, queues, gives up or releases its slot.
LEMMA SlotPools ==
  ASSUME Inv, PoolsFull, NEW c \in Callers,
         AcquireFast(c) \/ AcquireWait(c) \/ QueueCancelled(c) \/ Release(c)
  PROVE  PoolSteps /\ PoolsFull'
<1>0. call \in [Callers -> CallRecord] /\ call[c] \in CallRecord
  BY DEF Inv, TypeOK
<1>1. PICK g \in Hosts : g = HostOfCall(c)
  BY <1>0, CDNAssumption DEF HostOfCall, CallRecord, Versions
<1>a. /\ IsFiniteSet(Inside(g)) /\ Cardinality(Inside(g)) \in Nat
      /\ Cardinality(Inside(g)) <= MaxConns /\ MaxConns \in Nat
      /\ Waiting(g) # {} => Cardinality(Inside(g)) = MaxConns
  BY CDNAssumption, FS_CardinalityType DEF PoolsFull, HostFull
<1>2. CASE AcquireFast(c)
  <2>1. /\ call'[c].pc = "request" /\ call'[c].api = call[c].api /\ call'[c].url = call[c].url
        /\ \A d \in Callers : d # c => call'[d] = call[d]
    BY <1>0, <1>2 DEF AcquireFast, Request, CallRecord
  <2>2. /\ \A h \in Hosts : h # g => Inside(h)' = Inside(h) /\ Waiting(h)' = Waiting(h)
        /\ Inside(g)' = Inside(g) \cup {c} /\ Waiting(g)' = Waiting(g) \ {c}
    BY <1>1, <2>1, OnePlace
  <2>3. c \notin Inside(g) \cup Waiting(g)
    BY <1>2 DEF AcquireFast, Inside, Waiting
  <2>4. Waiting(g) = {} /\ Cardinality(Inside(g)) < MaxConns
    BY <1>1, <1>2 DEF AcquireFast, SlotFree
  <2>5. Pool(g)!Enter(c)
    BY <2>2, <2>3, <2>4 DEF Pool!Enter, Pool!Cardinality, Cardinality
  <2>6. Pool(g)!Next
    BY <2>5 DEF Pool!Next
  <2>7. /\ IsFiniteSet(Inside(g) \cup {c})
        /\ Cardinality(Inside(g) \cup {c}) = Cardinality(Inside(g)) + 1
    BY <1>a, <2>3, FS_AddElement
  <2>8. HostFull(g)'
    BY <1>a, <2>2, <2>4, <2>7 DEF HostFull
  <2> QED BY <2>2, <2>6, <2>8, OnePool
<1>3. CASE AcquireWait(c) /\ call[c].ctx # "done"
  <2>1. /\ call'[c].pc = "queued" /\ call'[c].api = call[c].api /\ call'[c].url = call[c].url
        /\ \A d \in Callers : d # c => call'[d] = call[d]
    BY <1>0, <1>3 DEF AcquireWait, Goto, CallRecord
  <2>2. /\ \A h \in Hosts : h # g => Inside(h)' = Inside(h) /\ Waiting(h)' = Waiting(h)
        /\ Inside(g)' = Inside(g) \ {c} /\ Waiting(g)' = Waiting(g) \cup {c}
    BY <1>1, <2>1, OnePlace
  <2>3. c \notin Inside(g) \cup Waiting(g)
    BY <1>3 DEF AcquireWait, Inside, Waiting
  <2>4. Cardinality(Inside(g)) = MaxConns
    BY <1>1, <1>a, <1>3 DEF AcquireWait, SlotFree
  <2>5. Rank = [Rank EXCEPT ![c] = Rank[c]] /\ Rank[c] \in 0..1
    BY CDNAssumption
  <2>b. Inside(g)' = Inside(g)
    BY <2>2, <2>3
  <2>6. Pool(g)!Queue(c, Rank[c])
    BY <2>2, <2>b, <2>3, <2>4, <2>5 DEF Pool!Queue, Pool!Cardinality, Cardinality
  <2>7. Pool(g)!Next
    BY <2>5, <2>6 DEF Pool!Next
  <2>8. HostFull(g)'
    BY <1>a, <2>b, <2>4 DEF HostFull
  <2> QED BY <2>2, <2>7, <2>8, OnePool
<1>4. CASE AcquireWait(c) /\ call[c].ctx = "done"
  <2>1. /\ Out(call'[c]) /\ Out(call[c])
        /\ \A d \in Callers : d # c => call'[d] = call[d]
    BY <1>0, <1>4 DEF AcquireWait, Return, Idle, Out
  <2>2. \A d \in Callers : SamePlace(call'[d], call[d])
    BY <2>1 DEF SamePlace
  <2> QED BY <2>2, Unmoved
<1>5. CASE QueueCancelled(c)
  <2>1. /\ call'[c].pc = "idle"
        /\ \A d \in Callers : d # c => call'[d] = call[d]
    BY <1>0, <1>5 DEF QueueCancelled, Return, Idle
  <2>2. /\ \A h \in Hosts : h # g => Inside(h)' = Inside(h) /\ Waiting(h)' = Waiting(h)
        /\ Inside(g)' = Inside(g) \ {c} /\ Waiting(g)' = Waiting(g) \ {c}
    BY <1>1, <2>1, OnePlace DEF Out
  <2>3. c \notin Inside(g) /\ c \in Waiting(g)
    BY <1>1, <1>5 DEF QueueCancelled, Inside, Waiting
  <2>4. Pool(g)!Withdraw(c)
    BY <2>2, <2>3 DEF Pool!Withdraw
  <2>5. Pool(g)!Next
    BY <2>4 DEF Pool!Next
  <2>6. Inside(g)' = Inside(g)
    BY <2>2, <2>3
  <2>7. HostFull(g)'
    BY <1>a, <2>2, <2>3, <2>6 DEF HostFull
  <2> QED BY <2>2, <2>5, <2>7, OnePool
<1>6. CASE Release(c)
  <2>1. /\ call'[c].pc = "idle"
        /\ \A d \in Callers : d # c => call'[d] = call[d]
    BY <1>0, <1>6 DEF Release, Return, Idle
  <2>2. /\ \A h \in Hosts : h # g => Inside(h)' = Inside(h) /\ Waiting(h)' = Waiting(h)
        /\ Inside(g)' = Inside(g) \ {c} /\ Waiting(g)' = Waiting(g) \ {c}
    BY <1>1, <2>1, OnePlace DEF Out
  <2>3. c \in Inside(g) /\ Waiting(g) = {}
    BY <1>1, <1>6 DEF Release, Inside
  <2>4. Pool(g)!Leave(c)
    BY <2>2, <2>3 DEF Pool!Leave
  <2>5. Pool(g)!Next
    BY <2>4 DEF Pool!Next
  <2>6. /\ IsFiniteSet(Inside(g) \ {c})
        /\ Cardinality(Inside(g) \ {c}) = Cardinality(Inside(g)) - 1
    BY <1>a, <2>3, FS_RemoveElement
  <2>7. HostFull(g)'
    BY <1>a, <2>2, <2>3, <2>6 DEF HostFull
  <2> QED BY <2>2, <2>5, <2>7, OnePool
<1> QED BY <1>2, <1>3, <1>4, <1>5, <1>6

\* A slot passes from the call that releases it to the one that is granted it.
LEMMA GrantPool ==
  ASSUME Inv, PoolsFull, NEW c \in Callers, NEW q \in Callers, ReleaseGrant(c, q)
  PROVE  PoolSteps /\ PoolsFull'
<1> DEFINE ret == Idle(call[c].api, call[c].result)
           req == [call[q] EXCEPT !.pc = "request", !.cur = call[q].url, !.hops = 0]
<1>0. /\ call \in [Callers -> CallRecord] /\ call[c] \in CallRecord /\ call[q] \in CallRecord
      /\ call[c].pc = "release" /\ call[q].pc = "queued" /\ c # q
      /\ HostOfCall(q) = HostOfCall(c)
  BY DEF Inv, TypeOK, ReleaseGrant, Waiting
<1>1. PICK g \in Hosts : g = HostOfCall(c)
  BY <1>0, CDNAssumption DEF HostOfCall, CallRecord, Versions
<1>2. call' = [[call EXCEPT ![c] = ret] EXCEPT ![q] = req]
  BY <1>0 DEF ReleaseGrant, Request, Return
<1>3. ret.pc = "idle" /\ req.pc = "request" /\ req.api = call[q].api /\ req.url = call[q].url
  BY <1>0 DEF Idle, CallRecord
<1> HIDE DEF ret, req
<1>4. /\ call'[c].pc = "idle" /\ call'[q].pc = "request"
      /\ call'[q].api = call[q].api /\ call'[q].url = call[q].url
      /\ \A d \in Callers : d \notin {c, q} => call'[d] = call[d]
  BY <1>0, <1>2, <1>3
<1>5. HostOfCall(q)' = g /\ \A d \in Callers : d \notin {c, q} => HostOfCall(d)' = HostOfCall(d)
  BY <1>0, <1>1, <1>4 DEF HostOfCall
<1>6. \A h \in Hosts : h # g => Inside(h)' = Inside(h) /\ Waiting(h)' = Waiting(h)
  BY <1>0, <1>1, <1>4, <1>5 DEF Inside, Waiting
<1>7. Inside(g)' = (Inside(g) \ {c}) \cup {q} /\ Waiting(g)' = Waiting(g) \ {q}
  BY <1>0, <1>1, <1>4, <1>5 DEF Inside, Waiting
<1>8. c \in Inside(g) /\ q \in Waiting(g)
  BY <1>0, <1>1 DEF Inside, Waiting
<1>9. \A r \in Waiting(g) : Rank[r] <= Rank[q]
  BY <1>0, <1>1 DEF ReleaseGrant, Outranks
<1>10. Pool(g)!HandOver(c, q)
  BY <1>7, <1>8, <1>9 DEF Pool!HandOver
<1>11. Pool(g)!Next
  BY <1>10 DEF Pool!Next
<1>12. /\ IsFiniteSet(Inside(g)) /\ Cardinality(Inside(g)) \in Nat
       /\ Cardinality(Inside(g)) = MaxConns /\ q \notin Inside(g)
  BY <1>0, <1>8, FS_CardinalityType DEF PoolsFull, HostFull, Inside
<1>13. /\ IsFiniteSet(Inside(g) \ {c})
       /\ Cardinality(Inside(g) \ {c}) = Cardinality(Inside(g)) - 1
  BY <1>8, <1>12, FS_RemoveElement
<1>14. /\ IsFiniteSet((Inside(g) \ {c}) \cup {q})
       /\ Cardinality((Inside(g) \ {c}) \cup {q}) = Cardinality(Inside(g) \ {c}) + 1
  BY <1>12, <1>13, FS_AddElement
<1>15. IsFiniteSet(Inside(g)') /\ Cardinality(Inside(g)') = MaxConns
  BY <1>7, <1>12, <1>13, <1>14
<1>16. HostFull(g)'
  BY <1>12, <1>15 DEF HostFull
<1> QED BY <1>6, <1>11, <1>16, OnePool

\* Everything but the semaphore itself leaves each call in its place.
LEMMA QuietStep ==
  ASSUME Inv, NEW c \in Callers,
         Resolve(c) \/ RangeRedirected(c) \/ RangeAnswered(c) \/ RangeFails(c) \/ Cancel(c)
  PROVE  \A d \in Callers : SamePlace(call'[d], call[d])
<1> USE DEF SamePlace, Out, Goto, CallRecord
<1>0. call \in [Callers -> CallRecord]
  BY DEF Inv, TypeOK
<1>1. CASE LookupHit(c) BY <1>0, <1>1 DEF LookupHit, WithURL
<1>2. CASE LookupBackoff(c) BY <1>0, <1>2 DEF LookupBackoff, Return, Idle
<1>3. CASE LookupMiss(c) BY <1>0, <1>3 DEF LookupMiss
<1>4. CASE DoJoin(c) BY <1>0, <1>4 DEF DoJoin
<1>5. CASE DoLead(c) BY <1>0, <1>5 DEF DoLead
<1>6. CASE ResolveRedirected(c) BY <1>0, <1>6, RedirectMoves DEF ResolveRedirected
<1>7. CASE ResolveAnswered(c) BY <1>0, <1>7 DEF ResolveAnswered
<1>8. CASE ResolveFails(c) BY <1>0, <1>8 DEF ResolveFails
<1>9. CASE StoreEntry(c) BY <1>0, <1>9 DEF StoreEntry
<1>10. CASE Land(c) BY <1>0, <1>10 DEF Land, Idle, Passengers, Joined
<1>11. CASE RangeRedirected(c) BY <1>0, <1>11, RedirectMoves DEF RangeRedirected
<1>12. CASE RangeAnswered(c) BY <1>0, <1>12 DEF RangeAnswered, Answered
<1>13. CASE RangeFails(c) BY <1>0, <1>13 DEF RangeFails, Answered
<1>14. CASE Cancel(c) BY <1>0, <1>14 DEF Cancel
<1> QED BY <1>1, <1>2, <1>3, <1>4, <1>5, <1>6, <1>7, <1>8, <1>9, <1>10, <1>11, <1>12,
           <1>13, <1>14 DEF Resolve

\* Every step uses the pools of all hosts as they allow.
LEMMA NextPools ==
  ASSUME Inv, PoolsFull, [Next]_vars
  PROVE  PoolSteps /\ PoolsFull'
<1>1. ASSUME NEW c \in Callers, Resolve(c) \/ Cancel(c) PROVE PoolSteps /\ PoolsFull'
  BY <1>1, QuietStep, Unmoved
<1>2. ASSUME NEW c \in Callers, Transfer(c) PROVE PoolSteps /\ PoolsFull'
  <2>1. CASE RangeRedirected(c) \/ RangeAnswered(c) \/ RangeFails(c)
    BY <2>1, QuietStep, Unmoved
  <2>2. CASE AcquireFast(c) \/ AcquireWait(c) \/ QueueCancelled(c) \/ Release(c)
    BY <2>2, SlotPools
  <2>3. ASSUME NEW q \in Callers, ReleaseGrant(c, q) PROVE PoolSteps /\ PoolsFull'
    BY <2>3, GrantPool
  <2> QED BY <1>2, <2>1, <2>2, <2>3 DEF Transfer
<1>3. ASSUME NEW c \in Callers, NEW u \in Permalinks, FetchRange(c, u)
      PROVE  PoolSteps /\ PoolsFull'
  <2>1. \A d \in Callers : SamePlace(call'[d], call[d])
    BY <1>3 DEF Inv, TypeOK, FetchRange, Idle, SamePlace, Out
  <2> QED BY <2>1, Unmoved
<1>4. ASSUME UNCHANGED call PROVE PoolSteps /\ PoolsFull'
  <2>1. \A d \in Callers : SamePlace(call'[d], call[d])
    BY <1>4 DEF SamePlace
  <2> QED BY <2>1, Unmoved
<1>5. ASSUME NEW u \in Permalinks, Rotate(u) \/ Expire(u) PROVE UNCHANGED call
  BY <1>5 DEF Rotate, Expire
<1>6. CASE UNCHANGED vars
  BY <1>4, <1>6 DEF vars
<1> QED BY <1>1, <1>2, <1>3, <1>4, <1>5, <1>6 DEF Next

\* Through every path of FetchRange, whatever fails or is cancelled on it, the slots of
\* each host are used as a slot pool allows: at most MaxConns at once, released once,
\* never idle while somebody waits, handed to a highest rank.
THEOREM HostSlots == Spec => ImplementsPools
<1>1. ASSUME Init PROVE PoolsFull /\ \A h \in Hosts : Pool(h)!Init
  <2>1. \A h \in Hosts : Inside(h) = {} /\ Waiting(h) = {}
    BY <1>1 DEF Init, Idle, Inside, Waiting
  <2>2. ASSUME NEW h \in Hosts PROVE HostFull(h)
    <3>1. Inside(h) = {} /\ Waiting(h) = {}
      BY <2>1
    <3>2. IsFiniteSet(Inside(h)) /\ Cardinality(Inside(h)) = 0
      BY <3>1, FS_EmptySet
    <3> QED BY <3>1, <3>2, CDNAssumption DEF HostFull
  <2>3. \A h \in Hosts : Pool(h)!Init
    BY <2>1, CDNAssumption DEF Pool!Init
  <2> QED BY <2>2, <2>3 DEF PoolsFull
<1>2. Inv /\ PoolsFull /\ [Next]_vars => PoolsFull'
  BY NextPools
<1>3. Inv /\ PoolsFull /\ [Next]_vars
        => \A h \in Hosts : [Pool(h)!Next]_(Pool(h)!poolVars)
  BY NextPools DEF PoolSteps
<1>4. Init => \A h \in Hosts : Pool(h)!Init
  BY <1>1
<1>5. Init => PoolsFull
  BY <1>1
<1> QED BY SpecInv, <1>2, <1>3, <1>4, <1>5, PTL DEF Spec, ImplementsPools
=============================================================================
