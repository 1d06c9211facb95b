---------------------------- MODULE MCRangeCache ----------------------------
(* RangeCache with two or three writers on three keys, two of which share a *)
(* shard.                                                                   *)
EXTENDS RangeCache, TLC

MCShardOf == (1 :> 0) @@ (2 :> 1) @@ (3 :> 1)

WriterSymmetry == Permutations(Procs)
=============================================================================
