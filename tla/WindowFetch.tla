---------------------------- MODULE WindowFetch ----------------------------
(***************************************************************************)
(* The data path of StreamReader (internal/stream/reader.go) for one file: *)
(* FUSE reads go through the range cache, a direct small read or an        *)
(* inflight window, and one fetchWindow goroutine per window fills its     *)
(* buffer from the cache and the CDN.  The byte at offset i of the file is *)
(* the number i, so a wrong byte anywhere can be told.  The cache is seen  *)
(* through its operations (RangeCache models its inside), the window       *)
(* budget as the slot pool that PrioritySem implements.                    *)
(***************************************************************************)
EXTENDS Integers, FiniteSets, Sequences, SequencesExt

CONSTANTS FileSize,
          WindowSize,          \* StreamReader.windowSize
          MaxRetries,          \* maxRetries
          MaxInflight,         \* StreamReader.maxInflight
          Limit,               \* slots of the global window budget
          SmallReadThreshold,  \* smallReadThreshold
          Readers,             \* goroutines that call ReadAt
          Requests,            \* [off, len] of the calls
          MaxReads,            \* bound on the calls of one reader
          MaxFaults,           \* bound on evictions, cancellations and CDN failures
          Windows              \* identities of inflightWindow objects: 1, 2, ...

ASSUME FetchAssumption ==
  /\ FileSize \in Nat \ {0} /\ WindowSize \in Nat \ {0}
  /\ MaxRetries \in Nat /\ MaxInflight \in Nat /\ MaxReads \in Nat
  /\ MaxFaults \in Nat
  /\ Limit \in Nat \ {0}
  /\ SmallReadThreshold \in Nat
  /\ Windows \subseteq Nat \ {0}
  /\ Requests \subseteq [off : 0..(FileSize - 1), len : Nat \ {0}]

Offsets == 0..(FileSize - 1)

\* A byte that is not the file's: zeroed or left-over memory.
Zero == -1

\* No window; also the value of a reader that has joined none.
NoWin == 0

VARIABLES cache,     \* the file's blocks: start offset -> bytes, <<>> for none
          inflight,  \* StreamReader.inflight: window start -> window
          win,       \* the inflightWindow objects and their fetchWindow goroutines
          reader,    \* the goroutines in ReadAt
          faults,    \* evictions, cancellations and failures so far
          slipped    \* some CopyTo gave fewer bytes than CachedPrefixLen had promised

vars == <<cache, inflight, win, reader, faults, slipped>>

WindowStart(off) == (off \div WindowSize) * WindowSize

\* The windows of the file, by their starts.
Starts == {WindowStart(o) : o \in Offsets}

WindowEnd(ws) == IF ws + WindowSize > FileSize THEN FileSize ELSE ws + WindowSize

Lesser(m, n) == IF m < n THEN m ELSE n

\* n bytes of the file from offset off.
FileBytes(off, n) == [i \in 1..n |-> off + i - 1]

NewWindow(ws) ==
  [start |-> ws, pc |-> "acquire", buf |-> <<>>, readyTo |-> 0, err |-> FALSE,
   done |-> FALSE, cancelled |-> FALSE, attempt |-> 0, cachedLen |-> 0, read |-> 0,
   bodyEnd |-> 0, success |-> FALSE, cleanup |-> FALSE]

Unused == [NewWindow(0) EXCEPT !.pc = "ended", !.done = TRUE]

IdleReader == [pc |-> "idle", off |-> 0, want |-> 0, got |-> <<>>, win |-> NoWin,
               small |-> FALSE, ws |-> 0, calls |-> 0]

Init ==
  /\ cache = [o \in Offsets |-> <<>>]
  /\ inflight = [ws \in Starts |-> NoWin]
  /\ win = [w \in Windows |-> Unused]
  /\ reader = [r \in Readers |-> IdleReader]
  /\ faults = 0
  /\ slipped = FALSE
-----------------------------------------------------------------------------
(* What the environment may do to a read is rationed. *)
Fault == faults < MaxFaults /\ faults' = faults + 1
-----------------------------------------------------------------------------
(* The range cache as its callers see it. *)

\* What CopyTo(off, dst) with len(dst) = n may copy: the part of any block that
\* contains off.  Blocks overlap, and the order of the search decides which is hit.
CopyTo(off, n) ==
  {SubSeq(cache[s], off - s + 1, Lesser(off - s + n, Len(cache[s]))) :
     s \in {t \in Offsets : t <= off /\ off < t + Len(cache[t])}}

\* Put: the block at this start is replaced, longer or not; no data, no block.
\* Evict stands for what the trailing evict() takes away.
Put(off, data) == IF data = <<>> THEN cache ELSE [cache EXCEPT ![off] = data]

\* Blocks leave the cache at any time, for the budget is shared by all files.
Evict(s) ==
  /\ Fault
  /\ cache[s] # <<>>
  /\ cache' = [cache EXCEPT ![s] = <<>>]
  /\ UNCHANGED <<inflight, win, reader, slipped>>
-----------------------------------------------------------------------------
(* Inflight windows. *)

\* An object nobody refers to any more; the next new window takes its identity.
Unreferenced(w) ==
  /\ win[w].pc = "ended"
  /\ ~win[w].cleanup
  /\ \A ws \in Starts : inflight[ws] # w
  /\ \A r \in Readers : reader[r].win # w

FreshWindow == CHOOSE w \in Windows : Unreferenced(w) /\
                 \A v \in Windows : Unreferenced(v) => w <= v

\* LoadOrStore puts a new window in the map and its fetchWindow starts; base is
\* what the rest of the step makes of the other windows.
Spawn(ws, base) ==
  /\ \E w \in Windows : Unreferenced(w)
  /\ inflight' = [inflight EXCEPT ![ws] = FreshWindow]
  /\ win' = [base EXCEPT ![FreshWindow] = NewWindow(ws)]

\* Windows of this file that are not done, as maybeReadAhead counts them.
ActiveWindows ==
  {ws \in Starts : inflight[ws] # NoWin /\ ~win[inflight[ws]].done}

\* The prefetch of maybeReadAhead: the next window, unless it is cached, inflight
\* or one too many.
ReadAhead(ws, end, base) ==
  LET next == ws + WindowSize
  IN /\ next < FileSize
     /\ end >= ws + WindowSize \div 2
     /\ CopyTo(next, 1) = {}
     /\ inflight[next] = NoWin
     /\ Cardinality(ActiveWindows) < MaxInflight
     /\ Spawn(next, base)

\* maybeReadAhead(end, ws).  Whether the pattern is sequential and no far seek is
\* recent is the session's business: both answers are possible.
MaybeReadAhead(ws, end, base) ==
  \/ UNCHANGED inflight /\ win' = base
  \/ ReadAhead(ws, end, base)

\* The budget slots in use: from acquire to the deferred release.
Holding == {w \in Windows : win[w].pc \notin {"acquire", "finish", "ended"}}

Goto(w, label) == [win EXCEPT ![w].pc = label]

\* acquire succeeds, cancelled or not.
Acquire(w) ==
  /\ win[w].pc = "acquire"
  /\ Cardinality(Holding) < Limit
  /\ win' = Goto(w, "prefix")
  /\ UNCHANGED <<cache, inflight, reader, faults, slipped>>

\* acquire gives up: only a cancelled waiter does, and it waits for a full budget.
AcquireFails(w) ==
  /\ win[w].pc = "acquire"
  /\ win[w].cancelled
  /\ Cardinality(Holding) = Limit
  /\ win' = [win EXCEPT ![w].pc = "ended", ![w].err = TRUE, ![w].done = TRUE,
                        ![w].cleanup = TRUE]
  /\ UNCHANGED <<cache, inflight, reader, faults, slipped>>

\* CachedPrefixLen looks at the block that starts where the window does.  Without
\* one the buffer starts empty.
CheckPrefix(w) ==
  LET n == Len(cache[win[w].start])
  IN /\ win[w].pc = "prefix"
     /\ win' = [win EXCEPT ![w].pc = IF n > 0 THEN "fill" ELSE "request",
                           ![w].cachedLen = n, ![w].buf = <<>>]
     /\ UNCHANGED <<cache, inflight, reader, faults, slipped>>

\* The bytes CopyTo may put in a buffer of n bytes; a miss copies none.
Copied(off, n) == IF CopyTo(off, n) = {} THEN {<<>>} ELSE CopyTo(off, n)

WindowLen(w) == WindowEnd(win[w].start) - win[w].start

\* The whole window was cached: a buffer of its length, filled as far as CopyTo
\* gets.  The buffer goes back to the cache next.
FillWhole(w) ==
  /\ win[w].pc = "fill"
  /\ win[w].cachedLen >= WindowLen(w)
  /\ \E data \in Copied(win[w].start, WindowLen(w)) :
       LET rest == [i \in 1..(WindowLen(w) - Len(data)) |-> Zero]
       IN /\ win' = [win EXCEPT ![w].pc = "putWhole", ![w].buf = data \o rest,
                                ![w].readyTo = Len(data)]
          /\ slipped' = (slipped \/ rest # <<>>)
  /\ UNCHANGED <<cache, inflight, reader, faults>>

PutWhole(w) ==
  /\ win[w].pc = "putWhole"
  /\ cache' = Put(win[w].start, win[w].buf)
  /\ win' = [win EXCEPT ![w].pc = "ahead", ![w].done = TRUE]
  /\ UNCHANGED <<inflight, reader, faults, slipped>>

\* A cached prefix is copied to the buffer; only the rest is asked of the CDN.
FillPrefix(w) ==
  LET n == win[w].cachedLen
  IN /\ win[w].pc = "fill"
     /\ n < WindowLen(w)
     /\ \E data \in Copied(win[w].start, n) :
          /\ win' = [win EXCEPT ![w].pc = "request", ![w].buf = data,
                                ![w].readyTo = Len(data)]
          /\ slipped' = (slipped \/ Len(data) < n)
     /\ UNCHANGED <<cache, inflight, reader, faults>>

\* FetchRange answers 206 with the rest of the window, or 200 with the whole file
\* where that is accepted.
Answer(w) ==
  /\ win[w].pc = "request"
  /\ \E end \in {WindowEnd(win[w].start)} \cup
                (IF win[w].start + win[w].cachedLen = 0 THEN {FileSize} ELSE {}) :
       win' = [win EXCEPT ![w].pc = "stream", ![w].bodyEnd = end, ![w].read = 0]
  /\ UNCHANGED <<cache, inflight, reader, faults, slipped>>

\* fetchWindow returns: its local variables are gone, the deferred function runs.
Return(base, w) ==
  [base EXCEPT ![w].pc = "release", ![w].attempt = 0, ![w].cachedLen = 0, ![w].read = 0,
               ![w].bodyEnd = 0, ![w].success = FALSE]

\* Mutant: one retry more than allowed.
RetryOnceMore(w, retryable) ==
  IF retryable /\ win[w].attempt <= MaxRetries
  THEN [win EXCEPT ![w] = [NewWindow(@.start) EXCEPT
          !.pc = "backoff", !.attempt = win[w].attempt + 1,
          !.done = win[w].done, !.cancelled = win[w].cancelled]]
  ELSE Return([win EXCEPT ![w].err = TRUE], w)

\* The window after a failed attempt: another one, after a reset and the backoff,
\* or the error that its readers get.
Retry(w, retryable) ==
  IF retryable /\ win[w].attempt < MaxRetries
  THEN [win EXCEPT ![w] = [NewWindow(@.start) EXCEPT
          !.pc = "backoff", !.attempt = win[w].attempt + 1,
          !.done = win[w].done, !.cancelled = win[w].cancelled]]
  ELSE Return([win EXCEPT ![w].err = TRUE], w)

\* FetchRange fails: with a retryable error, with one that is not, or because the
\* window is cancelled.
RequestFails(w) ==
  /\ win[w].pc = "request"
  /\ \/ Fault /\ \E retryable \in BOOLEAN : win' = Retry(w, retryable)
     \/ win[w].cancelled /\ UNCHANGED faults /\ win' = Retry(w, FALSE)
  /\ UNCHANGED <<cache, inflight, reader, slipped>>

\* The backoff ends, or the cancellation ends it.
Backoff(w) ==
  /\ win[w].pc = "backoff"
  /\ \/ win' = Goto(w, "prefix")
     \/ win[w].cancelled /\ win' = Return([win EXCEPT ![w].err = TRUE], w)
  /\ UNCHANGED <<cache, inflight, reader, faults, slipped>>

\* Mutants: the request forgets the cached prefix; readyTo forgets it.
StreamChunkFromStart(w) ==
  LET off == win[w].start + win[w].read
  IN /\ win[w].pc = "stream"
     /\ off < win[w].bodyEnd
     /\ win' = [win EXCEPT ![w].buf = Append(@, off), ![w].read = @ + 1,
                           ![w].readyTo = win[w].cachedLen + win[w].read + 1]
     /\ UNCHANGED <<cache, inflight, reader, faults, slipped>>
StreamChunkCountsRead(w) ==
  LET off == win[w].start + win[w].cachedLen + win[w].read
  IN /\ win[w].pc = "stream"
     /\ off < win[w].bodyEnd
     /\ win' = [win EXCEPT ![w].buf = Append(@, off), ![w].read = @ + 1,
                           ![w].readyTo = win[w].read + 1]
     /\ UNCHANGED <<cache, inflight, reader, faults, slipped>>

\* streamInto: a chunk (one byte here) goes to the end of the buffer; readyTo is
\* counted from the promised prefix.  A cancelled window stops here, as a success.
StreamChunk(w) ==
  LET off == win[w].start + win[w].cachedLen + win[w].read
  IN /\ win[w].pc = "stream"
     /\ off < win[w].bodyEnd
     /\ win' = [win EXCEPT ![w].buf = Append(@, off), ![w].read = @ + 1,
                           ![w].readyTo = win[w].cachedLen + win[w].read + 1,
                           ![w].pc = IF win[w].cancelled THEN "store" ELSE "stream",
                           ![w].success = win[w].cancelled]
     /\ UNCHANGED <<cache, inflight, reader, faults, slipped>>

\* The body ends, in full or early.
StreamEOF(w) ==
  /\ win[w].pc = "stream"
  /\ IF win[w].start + win[w].cachedLen + win[w].read < win[w].bodyEnd
     THEN Fault ELSE UNCHANGED faults
  /\ win' = [win EXCEPT ![w].pc = "store", ![w].success = TRUE]
  /\ UNCHANGED <<cache, inflight, reader, slipped>>

\* Reading the body fails, as it does under a cancelled context.
StreamBreaks(w) ==
  /\ win[w].pc = "stream"
  /\ IF win[w].cancelled THEN UNCHANGED faults ELSE Fault
  /\ win' = [win EXCEPT ![w].pc = "store", ![w].success = FALSE]
  /\ UNCHANGED <<cache, inflight, reader, slipped>>

\* What there is of the window goes to the cache, after a failure too.
Store(w) ==
  /\ win[w].pc = "store"
  /\ cache' = Put(win[w].start, win[w].buf)
  /\ win' = Goto(w, "settle")
  /\ UNCHANGED <<inflight, reader, faults, slipped>>

Settle(w) ==
  /\ win[w].pc = "settle"
  /\ win' = IF win[w].success /\ win[w].buf # <<>>
            THEN [win EXCEPT ![w].pc = "ahead", ![w].done = TRUE]
            ELSE Retry(w, TRUE)
  /\ UNCHANGED <<cache, inflight, reader, faults, slipped>>

\* Mutant: no cleanup is started.
FetchAheadForgotten(w) ==
  /\ win[w].pc = "ahead"
  /\ MaybeReadAhead(win[w].start, win[w].start + WindowSize, Return(win, w))
  /\ UNCHANGED <<cache, reader, faults, slipped>>

\* A complete window prefetches the next one and is cleaned up later.
FetchAhead(w) ==
  /\ win[w].pc = "ahead"
  /\ MaybeReadAhead(win[w].start, win[w].start + WindowSize,
                    Return([win EXCEPT ![w].cleanup = TRUE], w))
  /\ UNCHANGED <<cache, reader, faults, slipped>>

\* The deferred function: first the budget slot, then done for all who wait.
ReleaseSlot(w) ==
  /\ win[w].pc = "release"
  /\ win' = Goto(w, "finish")
  /\ UNCHANGED <<cache, inflight, reader, faults, slipped>>

\* Mutant: the deferred function leaves done alone.
FinishSilently(w) ==
  /\ win[w].pc = "finish"
  /\ win' = Goto(w, "ended")
  /\ UNCHANGED <<cache, inflight, reader, faults, slipped>>

Finish(w) ==
  /\ win[w].pc = "finish"
  /\ win' = [win EXCEPT ![w].pc = "ended", ![w].done = TRUE]
  /\ UNCHANGED <<cache, inflight, reader, faults, slipped>>

\* cleanupWindow and cleanupWindowOnError, after their delay.
Cleanup(w) ==
  /\ win[w].cleanup
  /\ win' = [win EXCEPT ![w].cleanup = FALSE]
  /\ inflight' = [ws \in Starts |->
                   IF inflight[ws] = w THEN NoWin ELSE inflight[ws]]
  /\ UNCHANGED <<cache, reader, faults, slipped>>

\* CancelFile, as far as it concerns one window.
CancelWindow(ws) ==
  /\ Fault
  /\ inflight[ws] # NoWin
  /\ win' = [win EXCEPT ![inflight[ws]].cancelled = TRUE, ![inflight[ws]].done = TRUE]
  /\ inflight' = [inflight EXCEPT ![ws] = NoWin]
  /\ UNCHANGED <<cache, reader, slipped>>
-----------------------------------------------------------------------------
(* ReadAt and the functions under it, a reader each. *)

\* Where the next byte of a read comes from, and how many are missing.
Cur(r) == reader[r].off + Len(reader[r].got)
Missing(r) == reader[r].want - Len(reader[r].got)

At(r, label) == [reader EXCEPT ![r].pc = label]

\* The bytes reach p; what follows is the read-ahead from the window of this round.
Take(r, data) ==
  [reader EXCEPT ![r].pc = "ahead", ![r].ws = WindowStart(Cur(r)), ![r].got = @ \o data]

\* ReadAt fails: FUSE answers EIO, whatever was read before.
Fail(r) == [reader EXCEPT ![r].pc = "failed", ![r].win = NoWin, ![r].got = <<>>]

\* A call of ReadAt, clamped to the file size.  The session decides whether a
\* small request takes the direct path.
ReadAt(r, req) ==
  /\ reader[r].pc \in {"idle", "failed"}
  /\ reader[r].calls < MaxReads
  /\ \E small \in (IF req.len <= SmallReadThreshold THEN BOOLEAN ELSE {FALSE}) :
       reader' = [reader EXCEPT ![r] =
         [pc |-> IF small THEN "small" ELSE "window", off |-> req.off,
          want |-> Lesser(req.len, FileSize - req.off), got |-> <<>>, win |-> NoWin,
          small |-> small, ws |-> 0, calls |-> @.calls + 1]]
  /\ UNCHANGED <<cache, inflight, win, faults, slipped>>

\* smallRead: a cache hit is the answer, however short.
SmallHit(r) ==
  /\ reader[r].pc = "small"
  /\ \E data \in CopyTo(reader[r].off, reader[r].want) :
       reader' = [reader EXCEPT ![r].pc = "idle", ![r].got = data]
  /\ UNCHANGED <<cache, inflight, win, faults, slipped>>

\* A miss: a window on its way is joined, else the bytes are fetched directly.
SmallMiss(r) ==
  /\ reader[r].pc = "small"
  /\ CopyTo(reader[r].off, reader[r].want) = {}
  /\ reader' = IF inflight[WindowStart(reader[r].off)] # NoWin
               THEN [reader EXCEPT ![r].pc = "window", ![r].small = FALSE]
               ELSE At(r, "direct")
  /\ UNCHANGED <<cache, inflight, win, faults, slipped>>

\* The direct request: a body that ends early is accepted; what came is cached.
SmallFetched(r) ==
  /\ reader[r].pc = "direct"
  /\ \E n \in 0..reader[r].want :
       LET data == FileBytes(reader[r].off, n)
       IN /\ IF n < reader[r].want THEN Fault ELSE UNCHANGED faults
          /\ cache' = Put(reader[r].off, data)
          /\ reader' = [reader EXCEPT ![r].pc = "idle", ![r].got = data]
  /\ UNCHANGED <<inflight, win, slipped>>

\* The direct request or its body fails: the window path takes over.
SmallFails(r) ==
  /\ Fault
  /\ reader[r].pc = "direct"
  /\ reader' = [reader EXCEPT ![r].pc = "window", ![r].small = FALSE]
  /\ UNCHANGED <<cache, inflight, win, slipped>>

\* readWindow: the cache first, then the map of inflight windows.
WindowHit(r) ==
  /\ reader[r].pc = "window"
  /\ \E data \in CopyTo(Cur(r), Missing(r)) : reader' = Take(r, data)
  /\ UNCHANGED <<cache, inflight, win, faults, slipped>>

WindowMiss(r) ==
  /\ reader[r].pc = "window"
  /\ CopyTo(Cur(r), Missing(r)) = {}
  /\ reader' = At(r, "load")
  /\ UNCHANGED <<cache, inflight, win, faults, slipped>>

Join(r, w) == reader' = [reader EXCEPT ![r].pc = "wait", ![r].win = w]

\* getOrCreateWindow: join a window of the map, drop an errored one, or go on to
\* LoadOrStore.
LoadWindow(r) ==
  LET ws == WindowStart(Cur(r))
      w == inflight[ws]
      errored == w # NoWin /\ win[w].done /\ win[w].err
  IN /\ reader[r].pc = "load"
     /\ IF w # NoWin /\ ~errored THEN Join(r, w) ELSE reader' = At(r, "create")
     /\ inflight' = IF errored THEN [inflight EXCEPT ![ws] = NoWin] ELSE inflight
     /\ UNCHANGED <<cache, win, faults, slipped>>

JoinStored(r) ==
  LET w == inflight[WindowStart(Cur(r))]
  IN /\ reader[r].pc = "create"
     /\ w # NoWin
     /\ Join(r, w)
     /\ UNCHANGED <<cache, inflight, win, faults, slipped>>

CreateWindow(r) ==
  LET ws == WindowStart(Cur(r))
  IN /\ reader[r].pc = "create"
     /\ inflight[ws] = NoWin
     /\ Spawn(ws, win)
     /\ Join(r, FreshWindow)
     /\ UNCHANGED <<cache, faults, slipped>>

\* The slice of n bytes at offset i of a buffer; past its length lies other memory.
Slice(buf, i, n) == [j \in 1..n |-> IF i + j <= Len(buf) THEN buf[i + j] ELSE Zero]

\* waitForBytes has its bytes, or the window has all it will ever have.
Woken(r) ==
  LET w == reader[r].win
  IN /\ reader[r].pc = "wait"
     /\ win[w].done \/ win[w].readyTo >= Cur(r) - win[w].start + Missing(r)

WaitReturns(r) ==
  LET w == win[reader[r].win]
      offInWin == Cur(r) - w.start
      avail == w.readyTo - offInWin
  IN /\ Woken(r)
     /\ ~w.err /\ avail > 0
     /\ reader' = Take(r, Slice(w.buf, offInWin, Lesser(avail, Missing(r))))
     /\ UNCHANGED <<cache, inflight, win, faults, slipped>>

\* The window has failed or ended before this read's first byte.
WaitFails(r) ==
  LET w == win[reader[r].win]
  IN /\ Woken(r)
     /\ w.err \/ w.readyTo - (Cur(r) - w.start) <= 0
     /\ reader' = Fail(r)
     /\ UNCHANGED <<cache, inflight, win, faults, slipped>>

\* The caller's context ends the wait, at a broadcast that happens to come.
WaitInterrupted(r) ==
  /\ Fault
  /\ reader[r].pc = "wait"
  /\ reader' = Fail(r)
  /\ UNCHANGED <<cache, inflight, win, slipped>>

\* Mutant: ReadAt returns after one round.
ReaderAheadOnce(r) ==
  /\ reader[r].pc = "ahead"
  /\ MaybeReadAhead(reader[r].ws, Cur(r), win)
  /\ reader' = [reader EXCEPT ![r].win = NoWin, ![r].ws = 0, ![r].pc = "idle"]
  /\ UNCHANGED <<cache, faults, slipped>>

\* The end of readWindow: read-ahead, then ReadAt's next round or its return.
ReaderAhead(r) ==
  /\ reader[r].pc = "ahead"
  /\ MaybeReadAhead(reader[r].ws, Cur(r), win)
  /\ reader' = [reader EXCEPT ![r].win = NoWin, ![r].ws = 0,
                              ![r].pc = IF Missing(r) > 0 THEN "window" ELSE "idle"]
  /\ UNCHANGED <<cache, faults, slipped>>
-----------------------------------------------------------------------------
Fetch(w) ==
  \/ Acquire(w) \/ AcquireFails(w)
  \/ CheckPrefix(w)
  \/ FillWhole(w) \/ FillPrefix(w)
  \/ PutWhole(w)
  \/ Answer(w) \/ RequestFails(w) \/ Backoff(w)
  \/ StreamChunk(w) \/ StreamEOF(w) \/ StreamBreaks(w)
  \/ Store(w) \/ Settle(w)
  \/ FetchAhead(w) \/ ReleaseSlot(w) \/ Finish(w)

Serve(r) ==
  \/ SmallHit(r) \/ SmallMiss(r) \/ SmallFetched(r) \/ SmallFails(r)
  \/ WindowHit(r) \/ WindowMiss(r)
  \/ LoadWindow(r) \/ JoinStored(r) \/ CreateWindow(r)
  \/ WaitReturns(r) \/ WaitFails(r)
  \/ ReaderAhead(r)

Next ==
  \/ \E w \in Windows : Fetch(w) \/ Cleanup(w)
  \/ \E r \in Readers : Serve(r) \/ WaitInterrupted(r)
  \/ \E r \in Readers, req \in Requests : ReadAt(r, req)
  \/ \E ws \in Starts : CancelWindow(ws)
  \/ \E s \in Offsets : Evict(s)

Spec == Init /\ [][Next]_vars

\* Goroutines run, delays end and the CDN answers in the end: its answer may be an
\* error, but a body that stalls for ever is excluded (the client has no timeout).
Fairness ==
  /\ \A w \in Windows : WF_vars(Fetch(w)) /\ WF_vars(Cleanup(w))
  /\ \A r \in Readers : WF_vars(Serve(r))

FairSpec == Spec /\ Fairness
-----------------------------------------------------------------------------
FetchLabels == {"acquire", "prefix", "fill", "putWhole", "request", "backoff", "stream",
                "store", "settle", "ahead", "release", "finish", "ended"}
ReaderLabels == {"idle", "small", "direct", "window", "load", "create", "wait", "ahead",
                 "failed"}
Byte == Offsets \cup {Zero}

Window ==
  [start : Starts, pc : FetchLabels, buf : Seq(Byte), readyTo : Nat,
   err : BOOLEAN, done : BOOLEAN, cancelled : BOOLEAN, attempt : 0..MaxRetries, cachedLen : Nat,
   read : Nat, bodyEnd : 0..FileSize, success : BOOLEAN, cleanup : BOOLEAN]
Reader ==
  [pc : ReaderLabels, off : Offsets, want : Nat, got : Seq(Byte),
   win : Windows \cup {NoWin}, small : BOOLEAN, ws : Starts, calls : 0..MaxReads]

\* The types of the data path's state.
TypeOK ==
  /\ cache \in [Offsets -> Seq(Byte)]
  /\ inflight \in [Starts -> Windows \cup {NoWin}]
  /\ win \in [Windows -> Window]
  /\ reader \in [Readers -> Reader]
  /\ faults \in 0..MaxFaults
  /\ slipped \in BOOLEAN

\* data is the file's contents from offset off on.
Genuine(off, data) == \A i \in 1..Len(data) : data[i] = off + i - 1

\* Every cached block is the file's bytes at its offset (the comment on RangeBlock).
CacheHoldsFileBytes == \A s \in Offsets : Genuine(s, cache[s])
\* So is every window buffer ...
BuffersHoldFileBytes == \A w \in Windows : Genuine(win[w].start, win[w].buf)
\* ... and all a read has got.
ReadsGetFileBytes == \A r \in Readers : Genuine(reader[r].off, reader[r].got)

\* Whatever is retried, resumed from a cached prefix, cancelled half-way, evicted or
\* overwritten, every byte that is cached, buffered or returned is the file's own,
\* as long as no prefix copy came out shorter than CachedPrefixLen had said.
GenuineUnlessSlipped ==
  ~slipped => CacheHoldsFileBytes /\ BuffersHoldFileBytes /\ ReadsGetFileBytes

\* waitForBytes never slices past what has been received: readyTo is the length of
\* the buffer's valid part, again unless a prefix copy came out short.
ReadyIsBuffered ==
  ~slipped => \A w \in Windows : win[w].readyTo = Len(win[w].buf)

\* A window whose fetch is over and did not fail is on its way out of the map: left
\* there, a short one would fail every later read of its range.
NoDeadWindow ==
  \A ws \in Starts :
    inflight[ws] # NoWin /\ win[inflight[ws]].pc = "ended"
      => win[inflight[ws]].err \/ win[inflight[ws]].cleanup

\* A read that succeeds through the windows returns all it was asked for, up to the
\* end of the file (the comment on ReadAt).
WindowReadsComplete ==
  \A r \in Readers :
    reader[r].pc = "idle" /\ ~reader[r].small => Len(reader[r].got) = reader[r].want

\* Every call of ReadAt returns, although the window it waits for may be queued for
\* a slot, retried, cancelled or errored.
ReadReturns ==
  \A r \in Readers : reader[r].pc \notin {"idle", "failed"}
                        ~> reader[r].pc \in {"idle", "failed"}
=============================================================================
