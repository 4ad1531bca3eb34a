---- MODULE MCServerList ----
(***************************************************************************)
(* ServerList on a small instance.                                         *)
(***************************************************************************)
EXTENDS ServerList, SequencesExt

\* The users are spread over the shards, the first in the last.
SpreadShards ==
    LET order == SetToSeq(Users)
    IN  [u \in Users |-> (CHOOSE n \in 1 .. Len(order) : order[n] = u) % NumShards]

LinkSymmetry == Permutations(Links)
====
