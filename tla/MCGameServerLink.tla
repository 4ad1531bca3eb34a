---- MODULE MCGameServerLink ----
(***************************************************************************)
(* GameServerLink on small instances.                                      *)
(***************************************************************************)
EXTENDS GameServerLink, SequencesExt

\* The users are spread over the shards, the first in the first.
SpreadShards ==
    LET order == SetToSeq(Users)
    IN  [u \in Users |-> (CHOOSE n \in 1 .. Len(order) : order[n] = u) % NumShards]

LinkSymmetry == Permutations(Links)
====
