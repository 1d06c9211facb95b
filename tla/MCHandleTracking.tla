-------------------------- MODULE MCHandleTracking --------------------------
(* HandleTracking with two handles of one file, each of which may be        *)
(* released and opened again while the other one reads.                     *)
EXTENDS HandleTracking, TLC

Symmetry == Permutations(Handles) \cup Permutations(Windows)
=============================================================================
