---------------------------- MODULE MCWindowFetch ----------------------------
(* WindowFetch on a file of two windows, the second one short. *)
EXTENDS WindowFetch, TLC

\* A read of the whole file and one that crosses the window boundary.
MCRequests == {[off |-> 0, len |-> 3], [off |-> 1, len |-> 2]}
MCCrossing == {[off |-> 1, len |-> 2]}

ReaderSymmetry == Permutations(Readers)
=============================================================================
