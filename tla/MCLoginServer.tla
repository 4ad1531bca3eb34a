---- MODULE MCLoginServer ----
(***************************************************************************)
(* LoginServer on small instances.                                         *)
(***************************************************************************)
EXTENDS LoginServer, TLC

\* Every peer knows every password.
AllCredentials == SessionIDs \X Users

\* One user's password is known to no peer.
SomeCredentials == SessionIDs \X (Users \ {CHOOSE u \in Users : TRUE})

WorkerSymmetry == Permutations(Workers)
ConnSymmetry == Permutations(SessionIDs) \cup WorkerSymmetry
====
