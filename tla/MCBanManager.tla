---- MODULE MCBanManager ----
(***************************************************************************)
(* BanManager on a small instance: one address that can be banned, one of  *)
(* the host, and two callers of IsBanned that can overlap.                 *)
(***************************************************************************)
EXTENDS BanManager, TLC

CallerSymmetry == Permutations(Callers)
====
