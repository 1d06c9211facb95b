-------------------------- MODULE RangeCacheProofs --------------------------
(***************************************************************************)
(* Proofs about RangeCache, for any number of writers, keys and shards and *)
(* any budget.                                                             *)
(***************************************************************************)
EXTENDS RangeCache, FiniteSetTheorems, WellFoundedInduction, TLAPS

Candidate == [key : Keys, lastAccess : 0..MaxClock]

PutArg == [key : Keys, blk : RangeBlock]

\* Over budget, some writer is still in the eviction loop, whatever the others
\* have evicted or added meanwhile: a Put never leaves the excess to nobody.
ExcessIsBeingEvicted ==
  used > Budget => \E p \in Procs : pc[p] \in {"check", "scan", "subtract"}

\* The inductive invariant: besides the types of the shared state, a writer's block is
\* at hand until it is counted, and what evictOne holds is a key it has seen.
Inv ==
  /\ TypeOK
  /\ arg \in [Procs -> PutArg \cup {None}]
  /\ cand \in [Procs -> [low : Candidate \cup {None}, high : Candidate \cup {None},
                         victim : Keys \cup {None}, size : Nat]]
  /\ \A p \in Procs : pc[p] \in {"store", "add"} => arg[p] \in PutArg
  /\ ExcessIsBeingEvicted

\* A nonempty set of records stamped with natural numbers has an oldest one.
LEMMA OldestExists ==
  ASSUME NEW S, S # {}, \A a \in S : a.lastAccess \in Nat
  PROVE  \E a \in S : \A b \in S : a.lastAccess <= b.lastAccess
<1> DEFINE T == {a.lastAccess : a \in S}
<1>1. T \subseteq Nat /\ T # {}
  OBVIOUS
<1> HIDE DEF T
<1>2. PICK x \in T : \A y \in T : ~(<<y, x>> \in OpToRel(<, Nat))
  BY <1>1, NatLessThanWellFounded, WFMin
<1>3. \A m, n \in Nat : m <= n \/ <<n, m>> \in OpToRel(<, Nat)
  BY DEF OpToRel
<1>4. \A y \in T : x <= y
  BY <1>1, <1>2, <1>3
<1> QED
  BY <1>4 DEF T

\* evictOne's scan yields a key of the cache or nothing.
LEMMA OldestOfType ==
  ASSUME blocks \in [Keys -> RangeBlock \cup {None}],
         NEW c \in Candidate \cup {None}, NEW s, NEW pr
  PROVE  OldestOf(c, s, pr) \in Candidate \cup {None}
<1> DEFINE here == {[key |-> k, lastAccess |-> blocks[k].lastAccess] :
                      k \in {j \in Cached : ShardOf[j] = s /\ blocks[j].priority = pr}}
           all == here \cup ({c} \ {None})
<1>1. ASSUME NEW k \in Cached PROVE k \in Keys /\ blocks[k].lastAccess \in 0..MaxClock
  BY <1>1 DEF Cached, RangeBlock
<1>2. here \subseteq Candidate
  BY <1>1 DEF Candidate
<1>3. all \subseteq Candidate
  BY <1>2
<1>4. \A a \in all : a.lastAccess \in Nat
  BY <1>3, CacheAssumption DEF Candidate
<1>5. OldestOf(c, s, pr) =
        IF all = {} THEN None
        ELSE CHOOSE a \in all : \A b \in all : a.lastAccess <= b.lastAccess
  BY DEF OldestOf
<1> HIDE DEF all
<1>6. CASE all = {}
  BY <1>5, <1>6
<1>7. CASE all # {}
  <2>1. \E a \in all : \A b \in all : a.lastAccess <= b.lastAccess
    BY <1>4, <1>7, OldestExists
  <2>2. OldestOf(c, s, pr) \in all
    BY <1>5, <1>7, <2>1
  <2> QED
    BY <1>3, <2>2
<1> QED
  BY <1>6, <1>7

\* The cache starts empty.
LEMMA InitInv == Init => Inv
BY CacheAssumption DEF Init, Inv, TypeOK, ExcessIsBeingEvicted, NoCand, Labels

\* Steps of a writer up to the eviction loop.
LEMMA PutInv ==
  ASSUME Inv, NEW p \in Procs,
         \/ \E k \in Keys, size \in Sizes, priority \in Priorities :
              PutBegin(p, k, size, priority)
         \/ PutStore(p)
         \/ PutAdd(p)
  PROVE  Inv'
<1> USE DEF Goto
<1>1. ASSUME NEW k \in Keys, NEW size \in Sizes, NEW priority \in Priorities,
             PutBegin(p, k, size, priority)
      PROVE  Inv'
  <2>1. [key |-> k, blk |-> [size |-> size, priority |-> priority, lastAccess |-> clock]]
          \in PutArg
    BY <1>1 DEF Inv, TypeOK, PutArg, RangeBlock
  <2>2. TypeOK'
    BY <1>1, CacheAssumption DEF PutBegin, Inv, TypeOK, Labels
  <2>3. /\ (arg \in [Procs -> PutArg \cup {None}])'
        /\ (\A q \in Procs : pc[q] \in {"store", "add"} => arg[q] \in PutArg)'
    BY <1>1, <2>1 DEF PutBegin, Inv, TypeOK
  <2>4. ExcessIsBeingEvicted'
    BY <1>1 DEF PutBegin, Inv, TypeOK, ExcessIsBeingEvicted
  <2> QED
    BY <1>1, <2>2, <2>3, <2>4 DEF PutBegin, Inv
<1>2. ASSUME PutStore(p) PROVE Inv'
  <2>1. arg[p] \in PutArg /\ arg[p].key \in Keys /\ arg[p].blk \in RangeBlock
    BY <1>2 DEF PutStore, Inv, PutArg
  <2> DEFINE k == arg[p].key
             old == IF blocks[k] = None THEN 0 ELSE blocks[k].size
  <2>2. old \in Nat
    BY <2>1, CacheAssumption DEF Inv, TypeOK, RangeBlock
  <2>3. used' = used - old /\ bytesActive' = bytesActive - old
    BY <1>2 DEF PutStore
  <2> HIDE DEF old
  <2>4. TypeOK'
    BY <1>2, <2>1, <2>2, <2>3 DEF PutStore, Inv, TypeOK, Labels
  <2>5. ExcessIsBeingEvicted'
    BY <1>2, <2>2, <2>3, CacheAssumption
       DEF PutStore, Inv, TypeOK, ExcessIsBeingEvicted
  <2> QED
    BY <1>2, <2>1, <2>4, <2>5 DEF PutStore, Inv, TypeOK
<1>3. ASSUME PutAdd(p) PROVE Inv'
  <2>1. arg[p].blk.size \in Nat
    BY <1>3, CacheAssumption DEF PutAdd, Inv, PutArg, RangeBlock
  <2>2. TypeOK'
    BY <1>3, <2>1 DEF PutAdd, Inv, TypeOK, Labels
  <2>3. ExcessIsBeingEvicted'
    BY <1>3 DEF PutAdd, Inv, TypeOK, ExcessIsBeingEvicted
  <2> QED
    BY <1>3, <2>2, <2>3 DEF PutAdd, Inv, TypeOK
<1> QED
  BY <1>1, <1>2, <1>3

\* Steps of the eviction loop.
LEMMA EvictInv ==
  ASSUME Inv, NEW p \in Procs,
         \/ EvictDone(p) \/ EvictRound(p) \/ EvictScan(p)
         \/ EvictNothing(p) \/ EvictDelete(p) \/ EvictSubtract(p)
  PROVE  Inv'
<1> USE DEF Goto
<1>1. ASSUME EvictDone(p) PROVE Inv'
  BY <1>1, CacheAssumption DEF EvictDone, Inv, TypeOK, ExcessIsBeingEvicted, Labels
<1>2. ASSUME EvictRound(p) PROVE Inv'
  BY <1>2 DEF EvictRound, Inv, TypeOK, ExcessIsBeingEvicted, Labels
<1>3. ASSUME EvictScan(p) PROVE Inv'
  <2> DEFINE s == Min(toScan[p])
  <2>1. OldestOf(cand[p].low, s, "low") \in Candidate \cup {None}
        /\ OldestOf(cand[p].high, s, "high") \in Candidate \cup {None}
    BY OldestOfType DEF Inv, TypeOK
  <2>2. cand' = [cand EXCEPT ![p].low = OldestOf(cand[p].low, s, "low"),
                             ![p].high = OldestOf(cand[p].high, s, "high")]
        /\ toScan' = [toScan EXCEPT ![p] = @ \ {s}]
        /\ UNCHANGED <<blocks, used, bytesActive, clock, pc, arg, loaded, reset>>
    BY <1>3 DEF EvictScan, Inv
  <2> HIDE DEF s
  <2>3. TypeOK' /\ ExcessIsBeingEvicted'
    BY <2>2 DEF Inv, TypeOK, ExcessIsBeingEvicted
  <2>4. cand' \in [Procs -> [low : Candidate \cup {None}, high : Candidate \cup {None},
                             victim : Keys \cup {None}, size : Nat]]
    BY <2>1, <2>2 DEF Inv
  <2> QED
    BY <2>2, <2>3, <2>4 DEF Inv
<1>4. ASSUME EvictNothing(p) PROVE Inv'
  BY <1>4 DEF EvictNothing, Inv, TypeOK, ExcessIsBeingEvicted, Labels, NoCand
<1>5. ASSUME EvictDelete(p) PROVE Inv'
  <2>1. Chosen(p) \in Candidate
    BY <1>5 DEF EvictDelete, Chosen, Inv
  <2>2. Chosen(p).key \in Keys /\ blocks[Chosen(p).key].size \in Nat
    BY <1>5, <2>1, CacheAssumption DEF EvictDelete, Inv, TypeOK, Candidate, RangeBlock
  <2>3. TypeOK'
    BY <1>5, <2>2 DEF EvictDelete, Inv, TypeOK, Labels
  <2>4. ExcessIsBeingEvicted'
    BY <1>5 DEF EvictDelete, Inv, TypeOK, ExcessIsBeingEvicted
  <2>5. cand' \in [Procs -> [low : Candidate \cup {None}, high : Candidate \cup {None},
                             victim : Keys \cup {None}, size : Nat]]
    BY <1>5, <2>2 DEF EvictDelete, Inv, NoCand
  <2> QED
    BY <1>5, <2>3, <2>4, <2>5 DEF EvictDelete, Inv, TypeOK
<1>6. ASSUME EvictSubtract(p) PROVE Inv'
  <2>1. cand[p].size \in Nat
    BY DEF Inv
  <2>2. TypeOK'
    BY <1>6, <2>1 DEF EvictSubtract, Inv, TypeOK, Labels
  <2>3. ExcessIsBeingEvicted'
    BY <1>6 DEF EvictSubtract, Inv, TypeOK, ExcessIsBeingEvicted
  <2> QED
    BY <1>6, <2>2, <2>3 DEF EvictSubtract, Inv, TypeOK, NoCand
<1> QED
  BY <1>1, <1>2, <1>3, <1>4, <1>5, <1>6

\* Every step of the cache keeps the invariant.
LEMMA NextInv == Inv /\ [Next]_vars => Inv'
<1> SUFFICES ASSUME Inv, [Next]_vars PROVE Inv'
  OBVIOUS
<1>1. ASSUME NEW k \in Keys, CopyTo(k) PROVE Inv'
  <2>1. blocks[k] \in RangeBlock /\ clock \in 0..MaxClock
    BY <1>1 DEF CopyTo, Cached, Inv, TypeOK
  <2>2. [blocks[k] EXCEPT !.lastAccess = clock] \in RangeBlock
    BY <2>1 DEF RangeBlock
  <2>3. TypeOK'
    BY <1>1, <2>2, CacheAssumption DEF CopyTo, Inv, TypeOK
  <2> QED
    BY <1>1, <2>3 DEF CopyTo, Inv, ExcessIsBeingEvicted
<1>2. CASE UNCHANGED vars
  BY <1>2 DEF vars, Inv, TypeOK, ExcessIsBeingEvicted
<1> QED
  BY <1>1, <1>2, PutInv, EvictInv DEF Next, Put

\* The inductive invariant holds in every reachable state of the cache.
THEOREM Invariance == Spec => []Inv
BY InitInv, NextInv, PTL DEF Spec

\* The types of the cache's state, for every number of writers, keys and shards.
THEOREM TypeCorrect == Spec => []TypeOK
BY Invariance, PTL DEF Inv

\* A cache over its budget always has a writer in the eviction loop.
THEOREM ExcessEvicted == Spec => []ExcessIsBeingEvicted
BY Invariance, PTL DEF Inv

-----------------------------------------------------------------------------
(* The counters. *)

\* Finitely many bytes are stored, to be added and to be subtracted at any time.
Countable ==
  IsFiniteSet(Bytes(BlockSizes)) /\ IsFiniteSet(Bytes(Adding)) /\ IsFiniteSet(Bytes(Subtracting))

CountInv == Countable /\ CountersExact

LEMMA BytesOfOne ==
  ASSUME NEW x, NEW n \in Nat
  PROVE  IsFiniteSet({x} \X (1..n)) /\ Cardinality({x} \X (1..n)) = n
<1>1. IsFiniteSet({x}) /\ Cardinality({x}) = 1
  BY FS_Singleton
<1>2. IsFiniteSet(1..n) /\ Cardinality(1..n) = n
  BY FS_Interval
<1>3. /\ IsFiniteSet({x} \X (1..n))
      /\ Cardinality({x} \X (1..n)) = Cardinality({x}) * Cardinality(1..n)
  BY <1>1, <1>2, FS_Product
<1> QED BY <1>1, <1>2, <1>3

\* Something of size n comes to the others, or goes.
LEMMA TotalWithOne ==
  ASSUME NEW D, NEW f \in [D -> Nat], NEW x, x \notin D, NEW n \in Nat,
         NEW g \in [D \cup {x} -> Nat], g[x] = n, \A y \in D : g[y] = f[y]
  PROVE  /\ IsFiniteSet(Bytes(f)) <=> IsFiniteSet(Bytes(g))
         /\ IsFiniteSet(Bytes(f)) =>
              Total(f) \in Nat /\ Total(g) \in Nat /\ Total(g) = Total(f) + n
<1> DEFINE one == {x} \X (1..n)
<1>1. IsFiniteSet(one) /\ Cardinality(one) = n
  BY BytesOfOne
<1>2. Bytes(g) = Bytes(f) \cup one
  BY DEF Bytes
<1>3. Bytes(f) \cap one = {}
  BY DEF Bytes
<1>4. Bytes(f) \subseteq Bytes(g)
  BY <1>2
<1> HIDE DEF one
<1>5. IsFiniteSet(Bytes(g)) => IsFiniteSet(Bytes(f))
  BY <1>4, FS_Subset
<1>6. ASSUME IsFiniteSet(Bytes(f))
      PROVE  IsFiniteSet(Bytes(g)) /\ Total(f) \in Nat /\ Total(g) = Total(f) + n
  <2>1. Cardinality(Bytes(f)) \in Nat /\ Cardinality({}) = 0
    BY <1>6, FS_CardinalityType, FS_EmptySet
  <2>2. IsFiniteSet(Bytes(g)) /\
        Cardinality(Bytes(g)) = Cardinality(Bytes(f)) + Cardinality(one) - Cardinality({})
    BY <1>1, <1>2, <1>3, <1>6, FS_Union
  <2> QED BY <1>1, <2>1, <2>2 DEF Total
<1> QED BY <1>5, <1>6

\* What the state gives to count.
Typed ==
  /\ BlockSizes \in [Cached -> Nat]
  /\ Adding \in [{q \in Procs : pc[q] = "add"} -> Nat]
  /\ Subtracting \in [{q \in Procs : pc[q] = "subtract"} -> Nat]
  /\ \A k \in Cached : k \in Keys /\ blocks[k] \in RangeBlock
  /\ used \in Int /\ bytesActive \in Int

LEMMA Counted == Inv => Typed
<1> SUFFICES ASSUME Inv PROVE Typed
  OBVIOUS
<1>1. \A b \in RangeBlock : b.size \in Nat
  BY CacheAssumption DEF RangeBlock
<1>2. \A k \in Cached : k \in Keys /\ blocks[k] \in RangeBlock
  BY DEF Inv, TypeOK, Cached
<1>3. \A p \in Procs : pc[p] = "add" => arg[p].blk \in RangeBlock
  BY DEF Inv, PutArg
<1>4. \A p \in Procs : cand[p].size \in Nat
  BY DEF Inv
<1> QED BY <1>1, <1>2, <1>3, <1>4 DEF Inv, TypeOK, Typed, BlockSizes, Adding, Subtracting

LEMMA CountedNext == Inv' => Typed'
BY Counted, PTL

LEMMA InitCount == Init => CountInv
<1> SUFFICES ASSUME Init PROVE CountInv
  OBVIOUS
<1>1. Bytes(BlockSizes) = {} /\ Bytes(Adding) = {} /\ Bytes(Subtracting) = {}
  BY DEF Init, Bytes, BlockSizes, Adding, Subtracting, Cached
<1> QED BY <1>1, FS_EmptySet DEF Init, CountInv, Countable, CountersExact, Total

\* A step that changes neither counters nor what there is to count.
LEMMA CountKept ==
  ASSUME CountInv, UNCHANGED <<BlockSizes, Adding, Subtracting, used, bytesActive, reset>>
  PROVE  CountInv'
BY DEF CountInv, Countable, CountersExact, Total, Bytes

LEMMA StoreCount ==
  ASSUME Inv, Inv', CountInv, NEW p \in Procs, PutStore(p)
  PROVE  CountInv'
<1> DEFINE k == arg[p].key
           b == arg[p].blk
           old == IF blocks[k] = None THEN 0 ELSE blocks[k].size
           rest == [j \in Cached \ {k} |-> blocks[j].size]
<1>1. k \in Keys /\ b \in RangeBlock /\ b.size \in Nat /\ b # None
  <2>1. arg[p] \in PutArg
    BY DEF PutStore, Inv
  <2> QED BY <2>1, CacheAssumption DEF PutArg, RangeBlock, Priorities
<1>2. /\ blocks' = [blocks EXCEPT ![k] = b] /\ pc' = [pc EXCEPT ![p] = "add"]
      /\ used' = used - old /\ bytesActive' = bytesActive - old /\ pc[p] = "store"
      /\ UNCHANGED <<arg, cand, reset>> /\ blocks \in [Keys -> RangeBlock \cup {None}]
      /\ pc \in [Procs -> Labels]
  BY DEF PutStore, Goto, Inv, TypeOK
<1>3. /\ BlockSizes \in [Cached -> Nat] /\ BlockSizes' \in [Cached' -> Nat]
      /\ Adding \in [{q \in Procs : pc[q] = "add"} -> Nat] /\ used \in Int /\ bytesActive \in Int
      /\ \A j \in Cached : j \in Keys /\ blocks[j] \in RangeBlock
      /\ Adding' \in [{q \in Procs : pc'[q] = "add"} -> Nat]
  BY Counted, CountedNext DEF Typed
<1>4. rest \in [Cached \ {k} -> Nat]
  <2>1. \A j \in Cached : blocks[j].size \in Nat
    BY <1>3, CacheAssumption DEF RangeBlock
  <2> QED BY <2>1
<1> HIDE DEF k, b
<1>5. Cached' = (Cached \ {k}) \cup {k}
  BY <1>1, <1>2 DEF Cached
<1>6. BlockSizes'[k] = b.size /\ \A j \in Cached \ {k} : BlockSizes'[j] = rest[j]
  BY <1>1, <1>2, <1>3, <1>5 DEF BlockSizes
<1>7. old \in Nat
  BY <1>1, <1>2, CacheAssumption DEF RangeBlock
<1>8. /\ IsFiniteSet(Bytes(BlockSizes)) => IsFiniteSet(Bytes(rest))
      /\ IsFiniteSet(Bytes(rest)) => Total(rest) \in Nat /\ Total(BlockSizes) = Total(rest) + old
  <2>1. CASE k \in Cached
    <3>1. Cached = (Cached \ {k}) \cup {k} /\ BlockSizes[k] = old
      BY <2>1 DEF BlockSizes, Cached
    <3>2. \A j \in Cached \ {k} : BlockSizes[j] = rest[j]
      BY DEF BlockSizes
    <3> HIDE DEF rest, old
    <3>3. BlockSizes \in [(Cached \ {k}) \cup {k} -> Nat]
      BY <1>3, <3>1
    <3> QED BY <1>4, <1>7, <3>1, <3>2, <3>3, TotalWithOne
  <2>2. CASE k \notin Cached
    <3>1. rest = BlockSizes /\ old = 0
      BY <1>1, <2>2 DEF BlockSizes, Cached
    <3> HIDE DEF rest, old
    <3>2. IsFiniteSet(Bytes(rest)) => Total(rest) \in Nat
      BY FS_CardinalityType DEF Total
    <3> QED BY <3>1, <3>2
  <2> QED BY <2>1, <2>2
<1> HIDE DEF rest, old
<1>9. /\ IsFiniteSet(Bytes(rest)) <=> IsFiniteSet(Bytes(BlockSizes'))
      /\ IsFiniteSet(Bytes(rest)) => Total(BlockSizes') = Total(rest) + b.size
  <2>1. BlockSizes' \in [(Cached \ {k}) \cup {k} -> Nat]
    BY <1>3, <1>5
  <2> QED BY <1>1, <1>4, <1>6, <2>1, TotalWithOne
<1>10. /\ IsFiniteSet(Bytes(Adding)) <=> IsFiniteSet(Bytes(Adding'))
       /\ IsFiniteSet(Bytes(Adding)) =>
            Total(Adding) \in Nat /\ Total(Adding') = Total(Adding) + b.size
  <2> DEFINE D == {q \in Procs : pc[q] = "add"}
  <2>1. {q \in Procs : pc'[q] = "add"} = D \cup {p} /\ p \notin D
    BY <1>2
  <2>2. Adding'[p] = b.size /\ \A q \in D : Adding'[q] = Adding[q]
    BY <1>2 DEF Adding, b
  <2>3. Adding' \in [D \cup {p} -> Nat] /\ Adding \in [D -> Nat]
    BY <1>3, <2>1
  <2> HIDE DEF D
  <2> QED BY <1>1, <2>1, <2>2, <2>3, TotalWithOne
<1>11. Subtracting' = Subtracting
  BY <1>2 DEF Subtracting
<1>12. Countable'
  BY <1>8, <1>9, <1>10, <1>11 DEF CountInv, Countable
<1>13. Total(Subtracting) \in Nat /\ Total(Subtracting') = Total(Subtracting)
  BY <1>11, FS_CardinalityType DEF CountInv, Countable, Total
<1>14. (bytesActive + Total(Adding) = Total(BlockSizes) + Total(Subtracting))'
  <2>1. bytesActive + Total(Adding) = Total(BlockSizes) + Total(Subtracting)
    BY DEF CountInv, CountersExact
  <2>2. /\ Total(rest) \in Nat /\ Total(BlockSizes) = Total(rest) + old
        /\ Total(BlockSizes') = Total(rest) + b.size
        /\ Total(Adding) \in Nat /\ Total(Adding') = Total(Adding) + b.size
    BY <1>8, <1>9, <1>10 DEF CountInv, Countable
  <2> QED BY <1>1, <1>2, <1>3, <1>7, <1>13, <2>1, <2>2
<1>15. (reset = 0 => used = bytesActive)'
  BY <1>2 DEF CountInv, CountersExact
<1> QED BY <1>12, <1>14, <1>15 DEF CountInv, CountersExact

LEMMA AddCount ==
  ASSUME Inv, Inv', CountInv, NEW p \in Procs, PutAdd(p)
  PROVE  CountInv'
<1> DEFINE n == arg[p].blk.size
           D == {q \in Procs : pc'[q] = "add"}
<1>1. /\ pc' = [pc EXCEPT ![p] = "check"] /\ arg' = [arg EXCEPT ![p] = None]
      /\ used' = used + n /\ bytesActive' = bytesActive + n /\ pc[p] = "add"
      /\ UNCHANGED <<blocks, cand, reset>> /\ pc \in [Procs -> Labels]
  BY DEF PutAdd, Goto, Inv, TypeOK
<1>2. /\ Adding \in [{q \in Procs : pc[q] = "add"} -> Nat] /\ used \in Int /\ bytesActive \in Int
      /\ Adding' \in [D -> Nat]
  BY Counted, CountedNext DEF Typed
<1>3. {q \in Procs : pc[q] = "add"} = D \cup {p} /\ p \notin D
  BY <1>1
<1>4. n \in Nat /\ Adding[p] = n
  BY <1>1, <1>2 DEF Adding
<1>5. \A q \in D : Adding[q] = Adding'[q]
  <2> SUFFICES ASSUME NEW q \in Procs, pc'[q] = "add" PROVE Adding[q] = Adding'[q]
    OBVIOUS
  <2>1. q # p /\ pc[q] = "add" /\ arg'[q] = arg[q]
    BY <1>1 DEF Inv
  <2> QED BY <2>1 DEF Adding
<1> HIDE DEF n, D
<1>6. /\ IsFiniteSet(Bytes(Adding)) <=> IsFiniteSet(Bytes(Adding'))
      /\ IsFiniteSet(Bytes(Adding')) =>
           Total(Adding') \in Nat /\ Total(Adding) = Total(Adding') + n
  <2>1. Adding \in [D \cup {p} -> Nat] /\ Adding' \in [D -> Nat] /\ p \notin D
    BY <1>2, <1>3
  <2> QED BY <1>4, <1>5, <2>1, TotalWithOne
<1>7. BlockSizes' = BlockSizes /\ Subtracting' = Subtracting
  BY <1>1 DEF BlockSizes, Cached, Subtracting
<1>8. Countable'
  BY <1>6, <1>7 DEF CountInv, Countable
<1>9. (bytesActive + Total(Adding) = Total(BlockSizes) + Total(Subtracting))'
  <2>1. bytesActive + Total(Adding) = Total(BlockSizes) + Total(Subtracting)
    BY DEF CountInv, CountersExact
  <2>2. Total(Adding') \in Nat /\ Total(Adding) = Total(Adding') + n
    BY <1>6 DEF CountInv, Countable
  <2>3. bytesActive' + Total(Adding') = Total(BlockSizes) + Total(Subtracting)
    BY <1>1, <1>2, <1>4, <2>1, <2>2
  <2> QED BY <1>7, <2>3
<1>10. (reset = 0 => used = bytesActive)'
  BY <1>1 DEF CountInv, CountersExact
<1> QED BY <1>8, <1>9, <1>10 DEF CountInv, CountersExact

LEMMA DeleteCount ==
  ASSUME Inv, Inv', CountInv, NEW p \in Procs, EvictDelete(p)
  PROVE  CountInv'
<1> DEFINE k == Chosen(p).key
           n == blocks[k].size
           D == {q \in Procs : pc[q] = "subtract"}
<1>1. /\ blocks' = [blocks EXCEPT ![k] = None] /\ pc' = [pc EXCEPT ![p] = "subtract"]
      /\ cand' = [cand EXCEPT ![p] = [NoCand EXCEPT !.victim = k, !.size = n]]
      /\ UNCHANGED <<used, bytesActive, arg, reset>> /\ pc[p] = "scan" /\ pc \in [Procs -> Labels]
      /\ blocks \in [Keys -> RangeBlock \cup {None}] /\ blocks[k] # None
  BY DEF EvictDelete, Goto, Inv, TypeOK
<1>2. k \in Cached
  <2>1. Chosen(p) \in Candidate
    BY DEF EvictDelete, Chosen, Inv
  <2> QED BY <1>1, <2>1 DEF Candidate, Cached
<1>3. /\ BlockSizes \in [Cached -> Nat] /\ BlockSizes' \in [Cached' -> Nat]
      /\ Subtracting \in [D -> Nat] /\ bytesActive \in Int
      /\ Subtracting' \in [{q \in Procs : pc'[q] = "subtract"} -> Nat]
      /\ \A j \in Cached : j \in Keys
  BY Counted, CountedNext DEF Typed
<1>4. n \in Nat /\ BlockSizes[k] = n
  BY <1>2, <1>3 DEF BlockSizes
<1>5. {q \in Procs : pc'[q] = "subtract"} = D \cup {p} /\ p \notin D
  BY <1>1
<1>6. Subtracting'[p] = n /\ \A q \in D : Subtracting'[q] = Subtracting[q]
  <2>1. cand'[p].size = n /\ \A q \in Procs \ {p} : cand'[q] = cand[q]
    BY <1>1 DEF Inv, NoCand
  <2> QED BY <1>1, <1>5, <2>1 DEF Subtracting
<1> HIDE DEF k, n
<1>7. Cached = Cached' \cup {k} /\ k \notin Cached'
  BY <1>1, <1>2, <1>3 DEF Cached
<1>8. \A j \in Cached' : BlockSizes[j] = BlockSizes'[j]
  BY <1>1, <1>7 DEF BlockSizes, Cached
<1> HIDE DEF D
<1>9. /\ IsFiniteSet(Bytes(BlockSizes)) <=> IsFiniteSet(Bytes(BlockSizes'))
      /\ IsFiniteSet(Bytes(BlockSizes')) =>
           Total(BlockSizes') \in Nat /\ Total(BlockSizes) = Total(BlockSizes') + n
  <2>1. BlockSizes \in [Cached' \cup {k} -> Nat]
    BY <1>3, <1>7
  <2> QED BY <1>3, <1>4, <1>7, <1>8, <2>1, TotalWithOne
<1>10. /\ IsFiniteSet(Bytes(Subtracting)) <=> IsFiniteSet(Bytes(Subtracting'))
       /\ IsFiniteSet(Bytes(Subtracting)) =>
            Total(Subtracting) \in Nat /\ Total(Subtracting') = Total(Subtracting) + n
  <2>1. Subtracting' \in [D \cup {p} -> Nat]
    BY <1>3, <1>5
  <2>2. Subtracting \in [D -> Nat] /\ p \notin D /\ n \in Nat
    BY <1>3, <1>4, <1>5
  <2> QED BY <1>6, <2>1, <2>2, TotalWithOne
<1>11. Adding' = Adding
  BY <1>1 DEF Adding
<1>12. Countable'
  BY <1>9, <1>10, <1>11 DEF CountInv, Countable
<1>13. (bytesActive + Total(Adding) = Total(BlockSizes) + Total(Subtracting))'
  <2>1. bytesActive + Total(Adding) = Total(BlockSizes) + Total(Subtracting)
    BY DEF CountInv, CountersExact
  <2>2. /\ Total(BlockSizes') \in Nat /\ Total(BlockSizes) = Total(BlockSizes') + n
        /\ Total(Subtracting) \in Nat /\ Total(Subtracting') = Total(Subtracting) + n
    BY <1>9, <1>10 DEF CountInv, Countable
  <2>3. Total(Adding) \in Nat
    BY FS_CardinalityType DEF CountInv, Countable, Total
  <2>4. bytesActive' + Total(Adding) = Total(BlockSizes') + Total(Subtracting')
    BY <1>1, <1>3, <1>4, <2>1, <2>2, <2>3
  <2> QED BY <1>11, <2>4
<1>14. (reset = 0 => used = bytesActive)'
  BY <1>1 DEF CountInv, CountersExact
<1> QED BY <1>12, <1>13, <1>14 DEF CountInv, CountersExact

LEMMA SubtractCount ==
  ASSUME Inv, Inv', CountInv, NEW p \in Procs, EvictSubtract(p)
  PROVE  CountInv'
<1> DEFINE n == cand[p].size
           D == {q \in Procs : pc'[q] = "subtract"}
<1>1. /\ pc' = [pc EXCEPT ![p] = "check"] /\ cand' = [cand EXCEPT ![p] = NoCand]
      /\ used' = (IF loaded[p] >= n THEN used - n ELSE 0)
      /\ reset' = (IF loaded[p] >= n THEN reset ELSE 1)
      /\ bytesActive' = bytesActive - n /\ pc[p] = "subtract"
      /\ UNCHANGED <<blocks, arg>> /\ pc \in [Procs -> Labels]
  BY DEF EvictSubtract, Goto, Inv, TypeOK
<1>2. /\ Subtracting \in [{q \in Procs : pc[q] = "subtract"} -> Nat]
      /\ used \in Int /\ bytesActive \in Int /\ Subtracting' \in [D -> Nat]
  BY Counted, CountedNext DEF Typed
<1>3. {q \in Procs : pc[q] = "subtract"} = D \cup {p} /\ p \notin D
  BY <1>1
<1>4. n \in Nat /\ Subtracting[p] = n
  BY <1>1, <1>2 DEF Subtracting
<1>5. \A q \in D : Subtracting[q] = Subtracting'[q]
  <2> SUFFICES ASSUME NEW q \in Procs, pc'[q] = "subtract"
               PROVE  Subtracting[q] = Subtracting'[q]
    OBVIOUS
  <2>1. q # p /\ pc[q] = "subtract" /\ cand'[q] = cand[q]
    BY <1>1 DEF Inv
  <2> QED BY <2>1 DEF Subtracting
<1> HIDE DEF n, D
<1>6. /\ IsFiniteSet(Bytes(Subtracting)) <=> IsFiniteSet(Bytes(Subtracting'))
      /\ IsFiniteSet(Bytes(Subtracting')) =>
           Total(Subtracting') \in Nat /\ Total(Subtracting) = Total(Subtracting') + n
  <2>1. Subtracting \in [D \cup {p} -> Nat] /\ Subtracting' \in [D -> Nat] /\ p \notin D
    BY <1>2, <1>3
  <2> QED BY <1>4, <1>5, <2>1, TotalWithOne
<1>7. BlockSizes' = BlockSizes /\ Adding' = Adding
  BY <1>1 DEF BlockSizes, Cached, Adding
<1>8. Countable'
  BY <1>6, <1>7 DEF CountInv, Countable
<1>9. (bytesActive + Total(Adding) = Total(BlockSizes) + Total(Subtracting))'
  <2>1. bytesActive + Total(Adding) = Total(BlockSizes) + Total(Subtracting)
    BY DEF CountInv, CountersExact
  <2>2. Total(Subtracting') \in Nat /\ Total(Subtracting) = Total(Subtracting') + n
    BY <1>6 DEF CountInv, Countable
  <2>3. Total(Adding) \in Nat /\ Total(BlockSizes) \in Nat
    BY FS_CardinalityType DEF CountInv, Countable, Total
  <2>4. bytesActive' + Total(Adding) = Total(BlockSizes) + Total(Subtracting')
    BY <1>1, <1>2, <1>4, <2>1, <2>2, <2>3
  <2> QED BY <1>7, <2>4
<1>10. (reset = 0 => used = bytesActive)'
  BY <1>1, <1>2, <1>4 DEF CountInv, CountersExact
<1> QED BY <1>8, <1>9, <1>10 DEF CountInv, CountersExact

LEMMA NextCount == Inv /\ Inv' /\ CountInv /\ [Next]_vars => CountInv'
<1> SUFFICES ASSUME Inv, Inv', CountInv, [Next]_vars PROVE CountInv'
  OBVIOUS
<1>0. pc \in [Procs -> Labels] /\ blocks \in [Keys -> RangeBlock \cup {None}]
  BY DEF Inv, TypeOK
<1>1. ASSUME NEW p \in Procs,
             \/ \E k \in Keys, size \in Sizes, priority \in Priorities :
                  PutBegin(p, k, size, priority)
             \/ EvictDone(p) \/ EvictRound(p) \/ EvictScan(p) \/ EvictNothing(p)
      PROVE  CountInv'
  <2>1. /\ UNCHANGED <<blocks, used, bytesActive, reset>>
        /\ pc[p] \notin {"add", "subtract"} /\ pc'[p] \notin {"add", "subtract"}
        /\ \A q \in Procs \ {p} : pc'[q] = pc[q] /\ arg'[q] = arg[q] /\ cand'[q] = cand[q]
    BY <1>0, <1>1 DEF Inv, PutBegin, EvictDone, EvictRound, EvictScan, EvictNothing, Goto
  <2>2. BlockSizes' = BlockSizes
    BY <2>1 DEF BlockSizes, Cached
  <2>3. Adding' = Adding
    BY <2>1 DEF Adding
  <2>4. Subtracting' = Subtracting
    BY <2>1 DEF Subtracting
  <2> QED BY <2>1, <2>2, <2>3, <2>4, CountKept
<1>2. ASSUME NEW k \in Keys, CopyTo(k) PROVE CountInv'
  <2>1. /\ blocks' = [blocks EXCEPT ![k].lastAccess = clock] /\ k \in Cached
        /\ UNCHANGED <<used, bytesActive, pc, arg, cand, reset>>
    BY <1>2 DEF CopyTo
  <2>2. blocks[k] \in RangeBlock
    BY <1>0, <2>1 DEF Cached
  <2>3. blocks'[k] # None /\ blocks'[k].size = blocks[k].size
    <3>1. [blocks[k] EXCEPT !.lastAccess = clock] \in RangeBlock
      BY <2>2 DEF RangeBlock, Inv, TypeOK
    <3> QED BY <1>0, <2>1, <2>2, <3>1, CacheAssumption DEF RangeBlock, Priorities
  <2>4. \A j \in Keys \ {k} : blocks'[j] = blocks[j]
    BY <1>0, <2>1
  <2>5. Cached' = Cached
    BY <2>1, <2>3, <2>4 DEF Cached
  <2>6. BlockSizes' = BlockSizes
    BY <2>3, <2>4, <2>5 DEF BlockSizes, Cached
  <2> QED BY <2>1, <2>6, CountKept DEF Adding, Subtracting
<1>3. CASE UNCHANGED vars
  BY <1>3, CountKept DEF vars, BlockSizes, Cached, Adding, Subtracting
<1> QED
  BY <1>1, <1>2, <1>3, StoreCount, AddCount, DeleteCount, SubtractCount DEF Next, Put

\* The byte counters are exact between any steps of any writers: what they differ by
\* from the stored blocks is what the writers still have to add and to subtract, until
\* evictOne resets used.
THEOREM CountersCorrect == Spec => []CountersExact
<1>1. Init => CountInv
  BY InitCount
<1>2. Inv /\ Inv' /\ CountInv /\ [Next]_vars => CountInv'
  BY NextCount
<1>3. CountInv => CountersExact
  BY DEF CountInv
<1> QED BY <1>1, <1>2, <1>3, Invariance, PTL DEF Spec

\* Once every writer has returned from Put, the counter is within the budget, and so are
\* the stored blocks unless evictOne has reset the counter.
THEOREM BudgetKept == Spec => []WithinBudget
<1>1. Inv /\ CountInv => WithinBudget
  <2> SUFFICES ASSUME Inv, CountInv, \A p \in Procs : pc[p] = "idle"
               PROVE  used <= Budget /\ (reset = 0 => Total(BlockSizes) <= Budget)
    BY DEF WithinBudget
  <2>1. Bytes(Adding) = {} /\ Bytes(Subtracting) = {}
    BY DEF Bytes, Adding, Subtracting
  <2>2. Total(Adding) = 0 /\ Total(Subtracting) = 0
    BY <2>1, FS_EmptySet DEF Total
  <2>3. (reset = 0 => used = bytesActive) /\ bytesActive + 0 = Total(BlockSizes) + 0
    BY <2>2 DEF CountInv, CountersExact
  <2>4. Total(BlockSizes) \in Nat /\ used \in Int /\ bytesActive \in Int
    BY FS_CardinalityType DEF CountInv, Countable, Total, Inv, TypeOK
  <2>5. ~(used > Budget)
    BY DEF Inv, ExcessIsBeingEvicted
  <2> QED BY <2>3, <2>4, <2>5, CacheAssumption
<1>2. Init => CountInv
  BY InitCount
<1>3. Inv /\ Inv' /\ CountInv /\ [Next]_vars => CountInv'
  BY NextCount
<1> QED BY <1>1, <1>2, <1>3, Invariance, PTL DEF Spec
=============================================================================
