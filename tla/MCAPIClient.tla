---------------------------- MODULE MCAPIClient ----------------------------
(* APIClient for an account of up to two pages. *)
EXTENDS APIClient

=============================================================================
