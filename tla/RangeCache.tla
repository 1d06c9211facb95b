----------------------------- MODULE RangeCache -----------------------------
(***************************************************************************)
(* The byte-range cache (internal/cache/range.go): blocks spread over      *)
(* shards with a lock each, one atomic counter of used bytes for all of    *)
(* them, and an eviction loop that every writer runs after its insert.     *)
(* Callers of Put and CopyTo are goroutines; an action is the code between *)
(* two accesses to memory that another goroutine may see.                  *)
(***************************************************************************)
EXTENDS Integers, FiniteSets, Functions, FiniteSetsExt

CONSTANTS Procs,     \* goroutines that write to the cache
          Keys,      \* cacheKey: file and start offset
          ShardOf,   \* shardIndex, as a function of the key
          Sizes,     \* block lengths a writer may bring
          Budget,    \* RangeCache.budget
          MaxClock,  \* bound on the readings of nowNano
          None       \* no block at a key

ASSUME CacheAssumption ==
  /\ Budget \in Nat
  /\ Sizes \subseteq Nat \ {0}
  /\ MaxClock \in Nat
  /\ None \notin [size : Sizes, priority : {"low", "high"}, lastAccess : 0..MaxClock]

Shards == Range(ShardOf)

Priorities == {"low", "high"}

RangeBlock == [size : Sizes, priority : Priorities, lastAccess : 0..MaxClock]

VARIABLES blocks,       \* the blocks of all shards, by key
          used,         \* RangeCache.used
          bytesActive,  \* the metric CacheBytesActive
          clock,        \* nowNano, strictly monotonic
          pc,           \* where a writer stands in putBlock
          arg,          \* the key and block the writer brings
          toScan,       \* shards evictOne has yet to look at
          cand,         \* oldest block seen so far, by priority
          loaded,       \* rc.used.Load() of the writer's current evictOne
          reset         \* 1 once some evictOne has set used to zero (history)

vars == <<blocks, used, bytesActive, clock, pc, arg, toScan, cand, loaded, reset>>

\* evictOne before its scan: no candidate, nothing deleted.
NoCand == [low |-> None, high |-> None, victim |-> None, size |-> 0]

Cached == {k \in Keys : blocks[k] # None}

\* Shards whose lock a writer holds in evictOne, with the size it has deleted.
Locked == {ShardOf[cand[p].victim] : p \in {q \in Procs : pc[q] = "subtract"}}

Init ==
  /\ blocks = [k \in Keys |-> None]
  /\ used = 0
  /\ bytesActive = 0
  /\ clock = 0
  /\ pc = [p \in Procs |-> "idle"]
  /\ arg = [p \in Procs |-> None]
  /\ toScan = [p \in Procs |-> {}]
  /\ cand = [p \in Procs |-> NoCand]
  /\ loaded = [p \in Procs |-> 0]
  /\ reset = 0

Goto(p, label) == pc' = [pc EXCEPT ![p] = label]

\* Mutant: an empty block gets in.
PutBeginEmpty(p, k, size, priority) ==
  /\ pc[p] = "idle"
  /\ clock < MaxClock
  /\ clock' = clock + 1
  /\ arg' = [arg EXCEPT ![p] =
       [key |-> k, blk |-> [size |-> 0, priority |-> priority, lastAccess |-> clock]]]
  /\ Goto(p, "store")
  /\ UNCHANGED <<blocks, used, bytesActive, toScan, cand, loaded, reset>>

\* putBlock makes its block and stamps it before it takes the shard's lock.
PutBegin(p, k, size, priority) ==
  /\ pc[p] = "idle"
  /\ clock < MaxClock
  /\ clock' = clock + 1
  /\ arg' = [arg EXCEPT ![p] =
       [key |-> k, blk |-> [size |-> size, priority |-> priority, lastAccess |-> clock]]]
  /\ Goto(p, "store")
  /\ UNCHANGED <<blocks, used, bytesActive, toScan, cand, loaded, reset>>

\* Mutant: an overwritten block stays counted.
PutStoreKeepsOld(p) ==
  LET k == arg[p].key
  IN /\ pc[p] = "store"
     /\ ShardOf[k] \notin Locked
     /\ blocks' = [blocks EXCEPT ![k] = arg[p].blk]
     /\ Goto(p, "add")
     /\ UNCHANGED <<used, bytesActive, clock, arg, toScan, cand, loaded, reset>>

\* The critical section: take the old block off the counters, store the new one.
PutStore(p) ==
  LET k == arg[p].key
      old == IF blocks[k] = None THEN 0 ELSE blocks[k].size
  IN /\ pc[p] = "store"
     /\ ShardOf[k] \notin Locked
     /\ used' = used - old
     /\ bytesActive' = bytesActive - old
     /\ blocks' = [blocks EXCEPT ![k] = arg[p].blk]
     /\ Goto(p, "add")
     /\ UNCHANGED <<clock, arg, toScan, cand, loaded, reset>>

\* The new block is counted after the lock is given up.
PutAdd(p) ==
  /\ pc[p] = "add"
  /\ used' = used + arg[p].blk.size
  /\ bytesActive' = bytesActive + arg[p].blk.size
  /\ arg' = [arg EXCEPT ![p] = None]
  /\ Goto(p, "check")
  /\ UNCHANGED <<blocks, clock, toScan, cand, loaded, reset>>

\* evict: done when within budget, else one more round of evictOne.
EvictDone(p) ==
  /\ pc[p] = "check"
  /\ used <= Budget
  /\ Goto(p, "idle")
  /\ UNCHANGED <<blocks, used, bytesActive, clock, arg, toScan, cand, loaded, reset>>

EvictRound(p) ==
  /\ pc[p] = "check"
  /\ used > Budget
  /\ toScan' = [toScan EXCEPT ![p] = Shards]
  /\ Goto(p, "scan")
  /\ UNCHANGED <<blocks, used, bytesActive, clock, arg, cand, loaded, reset>>

\* The older of the candidate c and the oldest block of shard s with priority pr.
OldestOf(c, s, pr) ==
  LET here == {[key |-> k, lastAccess |-> blocks[k].lastAccess] :
                 k \in {j \in Cached : ShardOf[j] = s /\ blocks[j].priority = pr}}
      all == here \cup ({c} \ {None})
  IN IF all = {} THEN None
     ELSE CHOOSE a \in all : \A b \in all : a.lastAccess <= b.lastAccess

\* One shard of evictOne's scan, under its read lock; shards go in order.
EvictScan(p) ==
  LET s == Min(toScan[p])
  IN /\ pc[p] = "scan"
     /\ toScan[p] # {}
     /\ s \notin Locked
     /\ toScan' = [toScan EXCEPT ![p] = @ \ {s}]
     /\ cand' = [cand EXCEPT ![p].low = OldestOf(@, s, "low"),
                             ![p].high = OldestOf(@, s, "high")]
     /\ UNCHANGED <<blocks, used, bytesActive, clock, pc, arg, loaded, reset>>

Chosen(p) == IF cand[p].low # None THEN cand[p].low ELSE cand[p].high

\* The scan found nothing, or the chosen key is gone by now: back to the loop.
EvictNothing(p) ==
  /\ pc[p] = "scan"
  /\ toScan[p] = {}
  /\ \/ Chosen(p) = None
     \/ /\ Chosen(p) # None
        /\ blocks[Chosen(p).key] = None
        /\ ShardOf[Chosen(p).key] \notin Locked
  /\ cand' = [cand EXCEPT ![p] = NoCand]
  /\ Goto(p, "check")
  /\ UNCHANGED <<blocks, used, bytesActive, clock, arg, toScan, loaded, reset>>

\* Delete whatever block the chosen key has now and read the counter.  The shard
\* stays locked.
EvictDelete(p) ==
  LET k == Chosen(p).key
  IN /\ pc[p] = "scan"
     /\ toScan[p] = {}
     /\ Chosen(p) # None
     /\ ShardOf[k] \notin Locked
     /\ blocks[k] # None
     /\ blocks' = [blocks EXCEPT ![k] = None]
     /\ cand' = [cand EXCEPT ![p] = [NoCand EXCEPT !.victim = k, !.size = blocks[k].size]]
     /\ loaded' = [loaded EXCEPT ![p] = used]
     /\ Goto(p, "subtract")
     /\ UNCHANGED <<used, bytesActive, clock, arg, toScan, reset>>

\* Mutant: one round of evictOne per Put.
EvictSubtractOnce(p) ==
  LET size == cand[p].size
  IN /\ pc[p] = "subtract"
     /\ used' = IF loaded[p] >= size THEN used - size ELSE 0
     /\ bytesActive' = bytesActive - size
     /\ loaded' = [loaded EXCEPT ![p] = 0]
     /\ cand' = [cand EXCEPT ![p] = NoCand]
     /\ Goto(p, "idle")
     /\ UNCHANGED <<blocks, clock, arg, toScan, reset>>

\* Take the size off the counter, or reset it when the value read was smaller.
EvictSubtract(p) ==
  LET size == cand[p].size
  IN /\ pc[p] = "subtract"
     /\ used' = IF loaded[p] >= size THEN used - size ELSE 0
     /\ reset' = IF loaded[p] >= size THEN reset ELSE 1
     /\ bytesActive' = bytesActive - size
     /\ loaded' = [loaded EXCEPT ![p] = 0]
     /\ cand' = [cand EXCEPT ![p] = NoCand]
     /\ Goto(p, "check")
     /\ UNCHANGED <<blocks, clock, arg, toScan>>

\* CopyTo hits a block and stamps it, under the shard's read lock.
CopyTo(k) ==
  /\ k \in Cached
  /\ ShardOf[k] \notin Locked
  /\ clock < MaxClock
  /\ clock' = clock + 1
  /\ blocks' = [blocks EXCEPT ![k].lastAccess = clock]
  /\ UNCHANGED <<used, bytesActive, pc, arg, toScan, cand, loaded, reset>>

Put(p) ==
  \/ PutStore(p)
  \/ PutAdd(p)
  \/ EvictDone(p)
  \/ EvictRound(p)
  \/ EvictScan(p)
  \/ EvictNothing(p)
  \/ EvictDelete(p)
  \/ EvictSubtract(p)

Next ==
  \/ \E p \in Procs, k \in Keys, size \in Sizes, priority \in Priorities :
       PutBegin(p, k, size, priority)
  \/ \E p \in Procs : Put(p)
  \/ \E k \in Keys : CopyTo(k)

Spec == Init /\ [][Next]_vars
-----------------------------------------------------------------------------
Labels == {"idle", "store", "add", "check", "scan", "subtract"}

\* The types of the cache's state.
TypeOK ==
  /\ blocks \in [Keys -> RangeBlock \cup {None}]
  /\ used \in Int
  /\ bytesActive \in Int
  /\ clock \in 0..MaxClock
  /\ pc \in [Procs -> Labels]
  /\ toScan \in [Procs -> SUBSET Shards]
  /\ loaded \in [Procs -> Int]
  /\ reset \in 0..1

\* The bytes of things x of size[x] each, and how many they are.
Bytes(size) == UNION {{x} \X (1..size[x]) : x \in DOMAIN size}
Total(size) == Cardinality(Bytes(size))

BlockSizes == [k \in Cached |-> blocks[k].size]
Adding == [p \in {q \in Procs : pc[q] = "add"} |-> arg[p].blk.size]
Subtracting == [p \in {q \in Procs : pc[q] = "subtract"} |-> cand[p].size]

\* The gauge of active bytes differs from the bytes stored only by what writers
\* have stored and not yet added, or deleted and not yet subtracted.  So does used,
\* until an eviction finds it smaller than its block and sets it to zero: without
\* that the budget would bound the bytes stored, and evict would end, for a counter
\* above the budget has a block behind it.
CountersExact ==
  /\ bytesActive + Total(Adding) = Total(BlockSizes) + Total(Subtracting)
  /\ reset = 0 => used = bytesActive

\* What the budget is for: with every Put returned, no more is counted than it allows,
\* whatever overwrote or evicted what, so no writer left an excess to the others; and
\* the blocks take no more than that, as long as used was never reset.
WithinBudget ==
  (\A p \in Procs : pc[p] = "idle") =>
    used <= Budget /\ (reset = 0 => Total(BlockSizes) <= Budget)
=============================================================================
