---- MODULE MCSessionRegistryTimed ----
(***************************************************************************)
(* SessionRegistryTimed on a small instance: two users, so that ClearShard *)
(* can split them over shards, and windows of different lengths.           *)
(***************************************************************************)
EXTENDS SessionRegistryTimed, TLC
====
