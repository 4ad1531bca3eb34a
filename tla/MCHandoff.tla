---- MODULE MCHandoff ----
(***************************************************************************)
(* Handoff on small instances.                                             *)
(***************************************************************************)
EXTENDS Handoff, TLC

\* Clients 1 and 2 drew the same ID, client 3 another one.
CollidingIDs == [c \in Conns |-> IF c = 3 THEN 2 ELSE 1]

\* One ID per shard.
ShardPerID == [i \in IDs |-> i - 1]

LinkSymmetry == Permutations(Links)
====
