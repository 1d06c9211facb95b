---------------------------- MODULE MCCDNClient ----------------------------
(* CDNClient for one file whose URL moves to another host when it is replaced. *)
EXTENDS CDNClient, TLC

MCHostOf == [u \in Permalinks |-> (0 :> "api") @@ (1 :> "cdn1") @@ (2 :> "cdn2")]
MCRank == [c \in Callers |-> IF c = "scan" THEN 0 ELSE 1]
=============================================================================
