# Verification of torbox-fuse-go

torbox-fuse-go mounts a TorBox account as a read-only file system and streams the
files from a CDN through a range cache. This directory holds TLA+ models of its
concurrent core, the TLC configurations that check them on small instances, and
TLAPS proofs of the results that hold for every instance. `PROJECT.json` is the index:
components, runs, the map from definitions to source lines, the mutants that show each
property can fail, findings, hazards and theorems.

## 1. Inventory

| Component (source) | State | Operations | Talks to | What is hard |
|---|---|---|---|---|
| Window budget, `budgetSem` (stream/reader.go) | slots held, queue of waiters with rank and ready flag, one condition variable | acquire(ctx, rank), release | fetchWindow | a grant racing a cancellation, wake-ups, rank order |
| Per-host limit, `hostSem` (stream/cdn.go) | the same, one per host | acquire, release | FetchRange | the same |
| Range cache (cache/range.go) | blocks in 32 locked shards, one atomic counter of used bytes | Put, CopyTo, CachedPrefixLen, evict | stream reader, dashboard | counter updated outside the locks, eviction by several writers |
| Data path (stream/reader.go) | inflight windows, their buffers, readyTo, done, err | ReadAt, smallRead, readWindow, getOrCreateWindow, waitForBytes, fetchWindow, streamInto, cleanup | cache, budget, CDN client | retries and resumed prefixes under waiting readers, cancellation, eviction in between |
| Sessions and handles (stream/reader.go, fusefs/fs.go) | sessions, readersMaps, recentlyClosed (sync.Maps) | Open, Read, Release, TrackReader, UntrackReader, HasReaders, CancelFile, maybeCleanupSession | data path, dashboard | several sync.Map calls per operation, nothing locked across them |
| CDN client (stream/cdn.go) | resolved URLs with TTL, failures with a cooldown, resolutions under way (singleflight), one semaphore per host | ResolveURL, FetchRange | TorBox permalinks, CDN | stale URLs, one caller's cancellation seen by the others, chains of redirects |
| Catalogue (catalog/*.go) | current tree | Refresh, LoadFromDB, SetTree, tree building | TorBox client, database, FUSE | partial API failures, concurrent unlink |
| FUSE tree (fusefs/fs.go) | inodes of directories and files | SyncTree, Unlink, Rmdir, lookups | database, TorBox client, dashboard | refresh and user changes at the same time |
| State database (state/db.go) | inode numbers, files, hidden files | ReplaceFiles, HideFile, UnhideDownload, HiddenSet | catalogue, FUSE, dashboard | replace against hide, crash between the steps of a refresh |
| TorBox client (torbox/client.go) | one API slot, cache of responses | ListDownloads page by page with retry and Retry-After, DeleteDownload | catalogue, dashboard | the slot is held while a call waits; pages of different moments |
| Dashboard, metrics | none of their own beyond counters | snapshots, SSE, unhide, delete | all of the above | reads of moving state |
| Configuration, main | - | start-up, shutdown | all | background goroutines at shutdown |

What makes a component correct, in one line each: the semaphores lose and invent no
slot and serve by rank, then by age; the cache counts what it stores and stays within
its budget; every byte a read returns is the file's byte at that offset, every read
is complete and returns; windows are cancelled exactly when nobody reads the file any
more, and the bookkeeping of handles forgets no handle and keeps no released one; the
tree shown is the last complete listing minus what the user has hidden; a URL is resolved by
one caller for all, a failure or an expired URL passes, and every fetch returns; a listing has
what the account had all along, and the API slot is always given back.

## 2. Modules

| Module | Models | Kind |
|---|---|---|
| `SlotPool` | what a priority semaphore promises | abstract specification |
| `PrioritySem` | `budgetSem` and `hostSem`, which are the same code | component |
| `PrioritySemProofs` | its invariants, the order of service and its refinement of `SlotPool` | proofs |
| `SequenceLemmas` | insertion, removal and search in sequences | lemmas for two of the proof modules |
| `RangeCache` | `putBlock`, `evict`, `evictOne`, `CopyTo` | component |
| `RangeCacheProofs` | its types, counters, eviction and budget | proofs |
| `WindowFetch` | the data path for one file | composition: reader, window, cache, budget |
| `WindowFetchProofs` | the bytes, the windows and the completeness of reads | proofs |
| `HandleTracking` | handles, sessions, windows in the map and recently closed files | composition: FUSE, reader |
| `HandleTrackingProofs` | its invariants | proofs |
| `CatalogSync` | refresh, state database, mount tree, hides and restarts | composition: catalogue, database, FUSE, dashboard |
| `CatalogSyncProofs` | inode numbers, and what a refresh may do to the mount | proofs |
| `CDNClient` | `ResolveURL`, `resolveRedirect`, `FetchRange`, `doRangeRequest` | component, on top of `SlotPool` |
| `CDNClientProofs` | resolutions, causes of failures, backoff, and the refinement of one `SlotPool` per host | proofs |
| `APIClient` | `ListDownloads`, `apiGet`, `DeleteDownload`, `apiPost` | component |
| `APIClientProofs` | the slot, the retries and what a listing contains | proofs |
| `MC*` | instances for TLC | model checking |

**PrioritySem.** One action per critical section of the mutex; `cond.Wait` splits
`acquire` into `AcquireWait` and the `Wake*` actions. `pc = "parked"` is a goroutine in
`cond.Wait`, `"woken"` one that a broadcast has reached and that has yet to run. `ready`
holds the waiters whose `ready` flag is set. `Cancel` is the caller's context, at any time.
A context that is done stays so until the call it belongs to is over.

**RangeCache.** Keys are (file, start) pairs, a block is its size, priority and access
time. A step is what happens between two accesses that another goroutine can see: the
store under the shard's lock, the counter update after it, one shard of the eviction scan,
the deletion, the subtraction (still under the lock, hence `Locked`). `nowNano` is a
counter up to `MaxClock`. `CopyTo` is the only reader that changes anything: the access
time. `reset` is a history variable: some eviction has met a counter smaller than its block and
stored 0 in it. The contents of blocks belong to `WindowFetch`.

**WindowFetch.** The file's byte at offset i is the number i, so misplaced, zero or lost
bytes show. `win[w]` is an `inflightWindow` together with its `fetchWindow` goroutine
(`pc`, local variables); `reader[r]` a goroutine in `ReadAt`. The cache is its blocks by
start offset, `CopyTo` the set of answers its search order may give, `Evict` an environment
step, since the budget is shared with all other files. The budget is the number of
goroutines between acquire and release, which is what `SlotPool` promises. Session counters
decide two things, whether a small read takes the direct path and whether read-ahead is
allowed; both are left open. Window objects without a reference are reused, so that
`Windows` only bounds how many exist at once.

**HandleTracking.** One step per call on a `sync.Map` or per critical section of a
readersMap. A handle's FUSE call is a program counter; it remembers the readersMap it has
loaded (`reg`), which may no longer be the one in the map. Windows appear with what matters
to the maps: in the map or not, cancelled or not, and the session's pattern as loaded for
read-ahead. One handle makes one call at a time: the kernel releases a handle after its
reads, and parallel reads of one handle write the same entry. That `CancelFile`'s Range
reaches windows stored meanwhile is left open (`todo` holds those it must reach).

**CatalogSync.** `listing` is what the TorBox API would answer now; `files`, `hidden` and
`inode` are the three tables and survive `Crash`; `nextInode`, `tree` and the mount (`dirs`, the
directories it has, and `shown`, the file at each path) do not. `refresh` is the goroutine inside
`Refresh`: one step per list call, per inode assignment, for the transaction of ReplaceFiles, for
HiddenSet with the swap of the tree, and per name of SyncTree's walk, directories included: a new
directory is in the mount before what belongs into it. `op[u]` is a request: Unlink or Rmdir (hide
each key, remove the keys from /movies and /series, then from /all, prune), or an unhide or delete
of the dashboard, which ends by trying to start a refresh. That a directory is empty is one step of
a request (`PruneEmptyDirs`, and `Rmdir` when it collects no key), its removal another (`RmChild`),
which takes with it whatever is below by then; a SyncTree that is in a directory when it is detached goes
on filling it, outside the mount (`Attached`). Every call that can fail has an action for
its failure. A file is its content key; where its names put it is data (`PathsOf`, `AllOf`,
`Under`), so the instances choose whether two files share a path. `steady` and `shunned` are
history variables: the entries wanted at every moment since the refresh began, and the keys that were hidden when
it began and that nobody has unhidden since, even if the refresh itself deletes their hides.

**CDNClient.** `call[c]` is a goroutine in `FetchRange`: its label, the permalink it was given,
the URL ResolveURL returned (`url`), the URL the current request goes to (`cur`), the count of
the redirect loop, its result and its context. A permalink's CDN URLs are numbered; `valid` is the
number that the CDN accepts now, `Rotate` replaces it, and URL 0 is the permalink itself. `entry`
is `urlCache`, `flight` the singleflight group: the caller that runs the function. The outcome is
stored in the cache by one step and handed to everybody by another, as in the code, so that
callers can look up or join in between. The function runs with the context of the caller that
leads; those who joined wait for it whatever becomes of their own. A refused answer of the CDN
during resolution, and a 4xx of the API, count as resolved, as they do in `resolveRedirect`. The
slots of a host are the callers between acquire and the deferred release; `PrioritySem` is proved to
implement `SlotPool`, and `ImplementsPools` checks that FetchRange uses them that way.

**APIClient.** `account` is TorBox's list of downloads of one kind, in the order it is listed, and
changes at any time (`DownloadAdded`, `DownloadRemoved`, a deletion of this client). It begins with
any set of downloads in any order. `got` counts how often a listing has each download: its order is
of no use to anybody. `call[c]` is a
goroutine in `ListDownloads` or `DeleteDownload`; `slot` is `apiSem`. One request is one step: the
answer, a failure worth a retry, a rejection, a 429 with Retry-After, a body that is not JSON (cached
before ListDownloads fails on it). The slot is held through all
attempts of one page and free between two pages. `steady`, `removed` and `pushed` are history
variables of a listing under way: what was in the account all the time, and whether the part it has
read was shifted back or forward.

### Abstractions worth knowing

* An entry of `urlCache` past its TTL or cooldown stays in the map, but its only reader treats it
  like none: `Expire` removes it. `urlCacheTTL = 0` is the other initial state of `CDNClient`.
* The block of FetchRange after doRangeRequest that would invalidate and retry is unreachable (see
  Findings) and is not in the model.
* A queued call of `CDNClient` may leave as soon as its context is done. The code notices at the
  next release of the host (`CancelledLeaves` of `PrioritySem`); nobody else can tell.
* getHostSem's Load and LoadOrStore give one semaphore per host; the model has one from the start.
* Redirects to another host are followed under the slot of the first one, in the code and here.
* Every caller of apiGet sets bypass_cache, so the response cache is written and never read; its
  lookup is left out. Its key is the offset of the page.
* A deletion of a download that is gone fails; this is how the API is taken to answer.

* The category directories stay once they are made; only those below them are state. SyncTree walks
  /movies and /series before /all, a directory before what is below it, and adds the files of a directory by
  name (`Before`); otherwise the order of its walk is free. The removal of a directory that the tree no longer has, with all below it, is one step.
* `pruneEmptyDirs` visits the directories that Children() returns when it gets there. The model's
  visits every directory once, those below first, and passes by one that is not in the mount: a superset.
  RmChild is by name: what it removes is the directory with that name by then, as in the code.
* Nodes of one name are not told apart. Only the goroutine in Refresh makes directories, and each of its
  walks meets a name once, so no walk is ever in one node while another of the same name is in the mount.
* OnAdd is the walk of SyncTree on an empty mount, and ends before the first refresh begins.
  In `main` the refresh starts a moment earlier and waits for the network first.
* Kernel notifications only empty caches and are left out. A delete or unhide that fails
  changes nothing and is left out as well. With FUSE_WRITABLE off there is no Unlink or Rmdir.

* `PutAdd` and `EvictSubtract` change `used` and the gauge CacheBytesActive in one step; nobody
  reads both, and no step depends on the gauge.
* maybeReadAhead's look into the cache and the map, its count of windows and getOrCreateWindow are one
  step (`MaybeReadAhead`). Two read-aheads can therefore not both pass the limit; no property is about it.
* A wait in waitForBytes ends when its condition holds (`Woken`), not when somebody signals: a
  missing Broadcast could not show in `WindowFetch`. `PrioritySem` has the signals of the semaphores.
* `CopyTo` looks at the shards one lock at a time; in `WindowFetch` it is one step. An
  eviction during the search gives an answer that it also gives before or after it.
* `getOrCreateWindow`'s Load and Delete of an errored window, and a cleanup's Load and
  Delete, are one step each. The races inside them are hazards kept for `InflightMap`.
* A success stores `done` without a broadcast and broadcasts in the deferred function;
  a waiting reader of the model may see `done` at once, as one that arrives just then does.
* `maybeCancelOnSeek` cancels only windows without waiters; to the other actors this is
  `CancelWindow`, which may strike any window at any time.
* A slice past the buffer's length but within its capacity yields left-over memory, past
  the capacity a panic. Both are the byte `Zero`, which no property accepts.
* A chunk of the body is one byte. Bodies end early, break, or are 200 answers with the
  whole file where the client accepts them.
* HasReaders inside `maybeCleanupSession` is one step; in `Release` it is two.
* Whether `CancelFile` knows a size when the session does not is left open, for it depends
  on the windows visited and on the cache.

## 3. Runs

| Run | Instance | Checks | Result |
|---|---|---|---|
| `sem` | 4 goroutines, 2 slots, 2 ranks | types, `SlotsAccounted`, `NoIdleSlot`, `QueueMatchesWaits`, `QueueSorted`, `FirstComeFirstServed`, `ImplementsPool`, `PlaybackServed`, `CancelledLeaves` | pass |
| `cache` | 2 writers, 3 keys in 2 shards, sizes 1 and 2, budget 2, 4 clock readings | types, `CountersExact`, `WithinBudget` | pass |
| `window` | 2 readers of bytes 1 and 2, file of 3 bytes, windows of 2, 1 slot, 1 retry, 2 faults | types, `GenuineUnlessSlipped`, `ReadyIsBuffered`, `NoDeadWindow`, `WindowReadsComplete` | pass |
| `window_live` | the same without small reads, 1 fault | `ReadReturns` | pass |
| `window_data` | as `window`, whole-file reads too | `CacheHoldsFileBytes` | violated, finding 1 |
| `handles` | 2 handles, 2 windows, 3 readersMaps | types, `NoStaleReader`, `NotBothActiveAndClosed` | pass |
| `handles_release` | the same | `ReleaseSparesOthers` | violated, finding 2 |
| `catalog` | 2 files of one download, listed by 2 calls, /all on, 1 request at a time, 2 changes, 1 fault | types, `InodesUnique`, `InodesStable`, `NoVanish`, `NoResurrection`, `SyncMatchesTree`, `Converges` | pass |
| `catalog_shared` | 2 downloads with one path, no fault | `SyncMatchesTree` | violated, finding 3 |
| `cdn` | 2 playback callers and a scan, 1 file, 2 URLs on 2 hosts, 1 slot per host, 2 requests per chain, 1 fault | types, `FlightsLed`, `FailuresHaveCauses`, `BackoffHolds`, `ImplementsPools`, `FetchReturns`, `RetriesSucceed` | pass |
| `cdn_expired` | 1 playback caller, 2 URLs, no fault; no fairness, as the property is an invariant | `RefusalInvalidates` | violated, finding 4 |
| `api` | 1 refresh, 1 deletion at a time, 3 downloads of which 2 are cached, pages of 2, 2 attempts, 2 passing failures, 1 other failure or cancellation, 1 change by others | types, `SlotOwned`, `ListingSound`, `RetriesAbsorb`, `CallsReturn` | pass |

**Bounds.** Four goroutines on two slots give two owners and two waiters of either rank
order, the least for overtaking among waiters while a grant races a cancellation. Two cache
writers interleave every pair of critical sections and reach the reset of the counter. A file
of one full and one short window has a crossing read, a window end before and at the end
of the file, a prefix of one byte and a read-ahead; one slot makes the second window queue;
two faults allow a failure and an eviction or cancellation on top of it. `MaxReads` is 1 per
reader: two readers come one after the other as well. Two handles are the least for a
release next to a read; three readersMaps are as many as two handles and the file refer to,
so none is ever missing. `MaxFaults`, `MaxReads` and `MaxClock` end behaviours, which is why
those runs do not check for deadlock; `sem`, `handles` and `catalog` do. In `catalog`, two
list calls show what three would, a listing torn between two moments; two changes are a
request and a change at TorBox, or two requests (hide, then unhide), around one failed call
or crash, each at any point of any number of refreshes. A file does not change its path there:
`PathsOf` allows it, but the state space then exceeds what a run can cover. The instance
has two directories next to each other, one of /movies and one of /all, so that a file has two places; that
directories lie below one another (a show and its seasons) is in the module and in the proofs, not in a run. In `cdn`, three
callers are one that resolves, one that joins and one that looks before and asks after the outcome
is stored; of two playback calls and a scan, two queue at a host with one slot, of different rank
too. Chains of two requests have a redirect that is followed and one that is one too many (five
would only be longer); `MaxFaults` bounds cancellations and odd answers, one of which is enough to
make a cached failure that all callers meet; `MaxVersion` ends the rotation of URLs. In `api`, two
attempts are the least with a retry, and two passing failures exhaust them; three downloads on pages
of two make a second page, and a removal or an addition moves them across its border; a full last
page that is followed by an empty one happens with two. Deletions make the account shrink for good,
but calls go on, so deadlock is checked.

**Fairness.** In `PrioritySem`, a goroutine that a broadcast has woken gets to run (the Go
scheduler and mutex), and a holder releases (fetchWindow's deferred call and FetchRange's
release run on every path; that the work in between ends is assumed). Nothing is assumed
about new requests or cancellations. Scan requests may starve behind playback, so
`PlaybackServed` is stated for the highest rank only. In `CatalogSync`, the refresh ticker
fires and the goroutines of refreshes and requests run; nothing is assumed about requests,
changes at TorBox or restarts. `Converges` is about what happens once these and the faults,
which are bounded, have come to an end. In `WindowFetch`, the goroutines run,
the delays of cleanup and backoff end, and the CDN answers in the end, possibly with an
error. The HTTP client sets no overall timeout, so a body that stalls for ever would hold
its window and its readers: that case is excluded, not refuted. In `CDNClient`, calls run on and
servers answer in the end (with the same reservation), time passes for cached entries (`Expire`), and a
queued playback call is not passed over for ever: the semaphore serves equal ranks in the order they
came (`FirstComeFirstServed`, `PlaybackServed`), which `SlotPool` does not say and strong fairness of
its grant stands for. `FetchReturns` and `RetriesSucceed` are about playback only, since scans may
starve. In `APIClient`, a request ends because the HTTP client has a timeout of 60 s, and strong
fairness of `TakeSlot` stands for the order in which Go serves goroutines blocked on a channel.

## 4. Proofs

*PrioritySem*, for any finite set of goroutines, any set of ranks and any limit of at least
one (`SemAssumption`). A limit of zero would make every acquire wait for ever; the
configuration's default is positive. The inductive invariant `Inv` is the conjunction of
`TypeOK`, `SlotsAccounted`, `NoIdleSlot`, `QueueMatchesWaits` and `QueueSorted`. None of
the first four stands alone: that held stays within the limit on the fast path needs the
guard only, but that a hand-over leaves it right needs that the head of the queue owns
nothing (`QueueMatchesWaits`), and that a slot set free leaves nobody waiting needs
`NoIdleSlot`. Lemmas on insertion into and removal from an injective sequence carry the
queue through each action; there is one lemma per action. `Refinement` then shows that
every step maps to a step or a stutter of `SlotPool`: the granted waiter moves from
`waiting` to `inside` when the grant happens, not when it wakes; `HeadOutranks` is why the
hand-over goes to a highest rank.
`TurnsKept` (the property `FirstComeFirstServed`) needs `Inv` for where an arrival is inserted:
in a sorted queue everybody of the same or a higher rank is in front of that place. Departures
from the middle and grants from the front keep the order of those who stay.

*RangeCache*, for any writers, keys, shard function, sizes and budget (`CacheAssumption`).
`Inv` adds to `TypeOK` the types of a writer's argument and of its candidates at the labels
where they are used, and `ExcessIsBeingEvicted`: over budget, some writer is in the loop. Only
`PutAdd` raises the counter, and it leaves its writer in the loop; only `EvictDone` leaves the loop, and it has just seen the
counter within the budget. The sums of `CountersExact` are the sizes of sets: the bytes of
the blocks, of what writers have yet to add and of what they have yet to subtract. A store,
an addition, a deletion and a subtraction move the bytes of one block from one of these sets to
another (`TotalWithOne`), and all three stay finite (`Countable`), because at any time finitely
many steps have been taken; that the keys or the writers are finite is not assumed.
`WithinBudget` follows from both: with no Put under way nobody is in the loop, hence there is no
excess, and nothing is left to add or subtract, so `used` is the bytes in the cache unless it has
been reset.

*WindowFetch*, for any readers, windows, requests and bounds and any size of the file and of
its windows (`FetchAssumption`). The invariant is a conjunction over the windows (`SoundWindow`,
`Leaves`), over the reads (`SoundReader`, `WaitsFor`), and of `Mapped` and `CacheSound`. That bytes
are genuine is not inductive: a chunk of the body is appended where the buffer ends, and it is the
right one only if the body was asked for from there, which is what `SoundWindow` says of the
cached length, the count of bytes read and the buffer at each label. A retry empties the buffer and
`readyTo` together; a reader may wait meanwhile, and takes bytes by its own offset from a
window whose start is known from `WaitsFor`. A window is in the map under its own start only
(`Mapped`), so the deletion by key in a cleanup takes out the window it means or a successor with
the same start. A window whose fetch is over has failed, has a cleanup to come, or is out of the
map (`Leaves`). All of this is stated for any map, windows and reads, so that the effects of
a step can be taken one at a time (`OneWindow`, `OneReader`). `slipped` marks the hole of finding 1:
after a short prefix copy nothing is claimed of the bytes, and reads through windows still are
complete.

*HandleTracking*, for any handles, windows and readersMap objects. `Inv` is `TypeOK`,
`NoStaleReader` and `NotBothActiveAndClosed`, plus `UntrackInHand`: while a release holds a
readersMap it has loaded and not yet locked, no other map in `readers` has its handle. Without
it the deletion from the map in hand would say nothing about the map that HasReaders will
see. The steps of windows leave the tracking alone (`OtherSteps`). That a new readersMap is
empty and nobody's (`FreeMaps`) is all that is used of the objects.

*CatalogSync*, for any keys, directories, paths and bounds. `Inv` is the type of the inodes table,
`InodesUnique` and `CounterAhead`: a running process's counter is above every number in the
table. Uniqueness alone is not inductive, for an insert is safe only because of the counter,
and the counter is right after a restart only because initNextInode looks at the whole table.
`NextInodes` reduces every action to one of five effects on the table (`InodeStep`), which needs
`Quiet`: nothing of a refresh or request outlives the process, so no insert happens while
the counter is lost. `InodesUnique` and `InodesStable` follow from the five effects. `TypeOK` is split
into `Placed` (listing, tables, tree and mount hold only paths that the naming of files can give) and
`Served` (requests and bounds); that a file is shown only in directories that the mount has is kept by a removal
because directories nest (`DetachPlaced`). `NoVanish` and `NoResurrection` rest on `Histories`: an entry wanted
ever since the refresh began is in what has been listed, then in what is built, then in the
tree that is swapped in, through requests and changes between any two of these steps. A key
that was hidden at the beginning and not unhidden since is hidden until ReplaceFiles; after it, it is
hidden or has no record in `files` (`ReplaceHistories`), and if it has one it is not in the tree.
SyncTree takes a name from the mount only if the tree lacks it or a directory above it, and adds only what the
tree has (`Changes`). What is left are the two exceptions that the properties name, and the code has both
(end of section 5). `SyncExact` adds `Walked`, that the walk leaves no name
behind which the tree lacks. It is stated under `OwnPaths`, that no two files can be given
one path: the instance of `catalog` satisfies it, and `catalog_shared` shows that without it the
conclusion is false (finding 3).

*CDNClient*, for any callers, permalinks, hosts and bounds, with chains of at least two requests
(`CDNAssumption`; the code allows five). `Inv` is `TypeOK`, `FlightsLed` and, for each call and
each entry of the cache, what it may look like given the faults so far (`SoundCall`, `SoundEntry`).
`FailuresHaveCauses` alone is not inductive: a failure may come from a cached one, from a dead
context or from a chain that is too long, so each of these must have its cause already; a chain
that starts at the permalink has counted no hop there, hence the ordinary redirect is never the
last that is allowed; and a URL in use is never newer than the valid one, so that a refused one is
older. Most actions take one call from one sound state to another and leave the flights alone
(`OneCall`); `LeadInv`, `StoreInv`, `LandInv` and `GrantInv` are the others. `BackoffKept` follows from
the one action that sends a new caller to the API (`NewAsker`). `HostSlots` shows that every step is,
for each host at once, a step or a stutter of its `SlotPool`. It needs that a call queues only at a host
all of whose slots are owned (`PoolsFull`), for `SlotPool` lets a call queue only then, and the code
also makes it queue behind others. A step moves one call, so it concerns one pool (`OnePlace`,
`OnePool`); a redirect, a cancellation or a resolution moves none (`QuietStep`): in particular
the URL that a slot belongs to stays the same while redirects lead to other hosts.

*APIClient*, for any callers, account, page size and number of attempts (`APIAssumption`). `Inv` says
that calls are records (`Shape`), `SlotOwned`, and what a call has cost so far (`Paid`): each attempt
but the first follows a passing failure, and a dead context is a failure of the other kind. The last
attempt can then only fail when as many failures as attempts have happened. `ListingsSound` has an
invariant of its own, `ListInv`. For a listing that has read up to an offset it says what is on which
side of it (`Partial`): a download that was there all along and that it does not have is still ahead of
the offset, unless a removal before the offset has closed the gap; one that it has is
not ahead, unless an addition before the offset has pushed it there. Downloads that were never in the account
(`fresh`) are in no listing, since an addition takes only those. The lemmas on `Ahead` say how removals and
additions move the downloads across an offset, for an account without repetitions. `TypeOK` needs
that a call that waits has an attempt left.

Only model-checked: `PlaybackServed`, `CancelledLeaves`, `ReadReturns`, `Converges`, `FetchReturns`,
`RetriesSucceed` and `CallsReturn`, which are liveness under fairness and outside the prover's
reach; and the four properties that the code violates, which have no proof. Every other
property of the runs is a theorem as well.

## 5. Findings

1. **Bytes that are not the file's in the cache** (reader.go:818, 830, 853). fetchWindow
   asks for the length of the cached prefix and copies it later, without looking at how
   much was copied. After an eviction in between, the window is zeros, or its buffer starts
   in the wrong place, and is stored as the window's data. `GenuineUnlessSlipped` shows that
   this is the only way: as long as no such copy comes out short, every byte is right.
2. **Release cancels others' windows** (fusefs/fs.go:661). HasReaders knows a handle only
   after its first successful read. A handle that is open, or inside its first read, does
   not keep another handle's release from cancelling the windows it waits for.
3. **A replaced download keeps its old node** (fusefs/fs.go:309-325). SyncTree compares names.
   If a download is deleted and added again under its old name between two refreshes, the
   content key changes and the path does not: the node with the old key, permalink and size
   stays until the process is restarted or the name disappears for one refresh. Without
   shared paths the sync is exact, which is what `catalog` shows.
4. **An expired CDN URL stays in the cache** (stream/cdn.go:428). The invalidation and the retry
   after 401 or 403 come after doRangeRequest has returned an error for these, so they never run;
   TestFetchRange_ExpiredCDNURLRetry never sends a 403. Reads of the file fail until the entry's
   TTL is over. `RetriesSucceed` shows that they succeed from then on.

The models also show what the following parts of the code do not promise. The passing runs
state what does hold.

* `Used()` drifts (cache/range.go:196, 292-297). The size of a block is added after its shard is
  unlocked. If another writer evicts it before that, the counter can be smaller than the block and is
  reset to 0; the late addition then stays for ever. With further writers the error can go either way: a
  cache at rest above its budget, or a counter above the budget with nothing left to evict, where
  evict() does not end. `CountersExact` is what holds: the gauge of active bytes is always right, and
  `used` agrees with it until the first reset; up to then a cache at rest is within its budget
  (`WithinBudget`).
* Small reads can be short (reader.go:333-336, 383-389, 411-424): the direct path returns what one
  block or one early-ended body had, with no error, though ReadAt's comment promises a full buffer.
  `WindowReadsComplete` shows the window path keeps the promise.
* A listing of more than one page can miss a download that was there all the time, if another one is
  removed while it runs; the refresh then treats it as deleted until the next one. `ListingSound`
  says exactly when.
* A directory can be removed with a file in it (fusefs/fs.go:250-251, 474-479). pruneEmptyDirs and
  Rmdir look whether a directory is empty and remove it by another call, and SyncTree attaches a new
  directory before it fills it: a file that it adds in between goes with the directory, although
  nobody has hidden it. This is the last case of `NoVanish`, which shows that a steady file that no
  request names is lost in no other way; `Converges` shows that the next refresh adds it again.
* A refresh can delete the hide of a listed file (state/db.go:268, catalog/catalog.go:135-139). If
  AssignInode fails for a file, it has no record but is in the tree; ReplaceFiles deletes the hides
  of files without a record, and the refresh shows the file, although README.md:158 says that hides
  persist and db.go:197-198 that they are not deleted here. This is the second case of
  `NoResurrection`, which shows that apart from unreadable hides it is the only one. A listing that
  misses a file for one refresh (as `ListingSound` allows) loses its hide as well, which
  db.go:258-262 intends and db.go:197-201 does not.

## 6. Not modelled yet, and the plan

1. `InflightMap`: getOrCreateWindow's and cleanup's Load/Delete pairs, the InflightWindows
   gauge, errored windows that stay, read-ahead started by a cancelled window.
2. `TreeBuild`: the directory lists of tree building and hiding as pure operators against a
   reference definition.
3. Start-up and shutdown: the first refresh against OnAdd, and the database closed under it.
4. Theorems: for what items 1 to 3 bring, and what `SlotPool` itself promises (at most `Limit` inside, no
   free slot while somebody waits) as theorems that both of its implementations inherit.

Left out for good: title parsing and classification by regular expressions, JSON and
metrics formats, HTML of the dashboard, environment parsing, and the go-fuse glue in
`mount.go`, which keep no state of interest. `EvictStale` and `PutWithSession` have no caller
outside the tests.
