---------------------------- MODULE MCPrioritySem ----------------------------
(* PrioritySem with more goroutines than slots and both ranks. *)
EXTENDS PrioritySem
=============================================================================
