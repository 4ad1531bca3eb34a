---- MODULE MCAdmission ----
(***************************************************************************)
(* Admission on a small instance.                                          *)
(***************************************************************************)
EXTENDS Admission, TLC

OneShard == [ip \in IPs |-> CHOOSE sh \in Shards : TRUE]

OneToOne == [k \in Logins |-> k]

CallerSymmetry == Permutations(Callers)
====
