---- MODULE SessionRegistry_proofs ----
(***************************************************************************)
(* What the operations of SessionRegistry keep, for the proofs about the   *)
(* modules that extend it.                                                 *)
(***************************************************************************)
EXTENDS SessionRegistry, TLAPS

(***************************************************************************)
(* The registry's operations keep every entry well formed.                 *)
(***************************************************************************)

\* A new reservation and a new session are entries.
LEMMA NewEntries ==
    /\ Reservation \in SessionInfo
    /\ \A i \in SessionIDs : Session(i) \in SessionInfo
  BY ServerIDsAssumption DEF Reservation, Session, SessionInfo

\* Updating one entry by a well-formed one keeps the registry well formed.
LEMMA EntryUpdate ==
    ASSUME RegistryTypeOK, NEW u \in Users, NEW e \in SessionInfo \cup {NoSession},
           active' = [active EXCEPT ![u] = e]
    PROVE  RegistryTypeOK'
  BY DEF RegistryTypeOK

\* An entry that is present is a record.
LEMMA EntryIsRecord ==
    ASSUME RegistryTypeOK, NEW u \in Users, HasSession(u)
    PROVE  active[u] \in SessionInfo
  BY DEF RegistryTypeOK, HasSession

\* Every operation of the registry keeps it well formed.
LEMMA RegistryTyping ==
    ASSUME RegistryTypeOK
    PROVE  /\ \A u \in Users : TryRegister(u) => RegistryTypeOK'
           /\ \A u \in Users, i \in SessionIDs : Register(u, i) => RegistryTypeOK'
           /\ \A u \in Users : \A i : Unregister(u, i) => RegistryTypeOK'
           /\ \A u \in Users, s \in ServerIDs : SetGS(u, s) => RegistryTypeOK'
           /\ \A S, s : ClearShard(S, s) => RegistryTypeOK'
           /\ Elapse => RegistryTypeOK'
  <1>1. ASSUME NEW u \in Users, TryRegister(u) PROVE RegistryTypeOK'
    <2>1. CASE TryReserve(u)
      BY <2>1, NewEntries, EntryUpdate DEF TryReserve
    <2>2. CASE TryPending(u)
      BY <2>2 DEF TryPending, RegistryTypeOK
    <2>3. CASE TryTakeOver(u)
      BY <2>3, EntryIsRecord DEF TryTakeOver, RegistryTypeOK, SessionInfo
    <2>4. CASE TryReject(u)
      BY <2>4, EntryIsRecord DEF TryReject, RegistryTypeOK, SessionInfo
    <2> QED BY <1>1, <2>1, <2>2, <2>3, <2>4 DEF TryRegister
  <1>2. ASSUME NEW u \in Users, NEW i \in SessionIDs, Register(u, i)
        PROVE  RegistryTypeOK'
    BY <1>2, NewEntries, EntryUpdate DEF Register
  <1>3. ASSUME NEW u \in Users, NEW i, Unregister(u, i) PROVE RegistryTypeOK'
    BY <1>3 DEF Unregister, RegistryTypeOK
  <1>4. ASSUME NEW u \in Users, NEW s \in ServerIDs, SetGS(u, s) PROVE RegistryTypeOK'
    <2>1. CASE HasSession(u)
      BY <1>4, <2>1, EntryIsRecord DEF SetGS, RegistryTypeOK, HasSession, SessionInfo
    <2>2. CASE ~HasSession(u)
      BY <1>4, <2>2 DEF SetGS, RegistryTypeOK, HasSession
    <2> QED BY <2>1, <2>2
  <1>5. ASSUME Elapse PROVE RegistryTypeOK'
    <2> SUFFICES ASSUME NEW u \in Users
                 PROVE  active'[u] \in SessionInfo \cup {NoSession}
      BY <1>5 DEF Elapse, RegistryTypeOK
    <2>1. PICK F \in SUBSET {v \in Users : HasSession(v) /\ active[v].fresh},
               R \in SUBSET {v \in Users : HasSession(v) /\ active[v].rejected} :
             active' = [v \in Users |->
                          IF ~HasSession(v) THEN NoSession
                          ELSE [id |-> active[v].id, server |-> active[v].server,
                                 fresh |-> active[v].fresh /\ v \notin F,
                                 rejected |-> active[v].rejected /\ v \notin R]]
      BY <1>5 DEF Elapse
    <2>2. CASE HasSession(u)
      <3>1. active[u] \in SessionInfo
        BY <2>2, EntryIsRecord
      <3>2. active'[u] = [id |-> active[u].id, server |-> active[u].server,
                           fresh |-> active[u].fresh /\ u \notin F,
                           rejected |-> active[u].rejected /\ u \notin R]
        BY <2>1, <2>2
      <3> QED BY <3>1, <3>2 DEF SessionInfo
    <2>3. CASE ~HasSession(u)
      BY <2>1, <2>3
    <2> QED BY <2>2, <2>3
  <1>6. ASSUME NEW S, NEW s, ClearShard(S, s) PROVE RegistryTypeOK'
    BY <1>6 DEF ClearShard, RegistryTypeOK
  <1> QED BY <1>1, <1>2, <1>3, <1>4, <1>5, <1>6
----
(***************************************************************************)
(* Only SetGS brings a session to a game server.                           *)
(***************************************************************************)
OnServer(u, s) == HasSession(u) /\ active[u].server = s

\* After any other operation the sessions on a game server were there before.
LEMMA ServerKept ==
    ASSUME RegistryTypeOK, NEW s, s # 0, NEW u \in Users, OnServer(u, s)',
           \/ \E v \in Users : TryRegister(v)
           \/ \E v \in Users, i \in SessionIDs : Register(v, i)
           \/ \E v \in Users : \E i : Unregister(v, i)
           \/ \E S, t : ClearShard(S, t)
           \/ Elapse
           \/ UNCHANGED active
    PROVE  OnServer(u, s)
  <1> USE DEF OnServer, HasSession
  <1>1. ASSUME NEW v \in Users, TryRegister(v) PROVE OnServer(u, s)
    <2>1. CASE TryReserve(v)
      BY <2>1 DEF TryReserve, Reservation, RegistryTypeOK
    <2>2. CASE TryPending(v)
      BY <2>2 DEF TryPending
    <2>3. CASE TryTakeOver(v)
      BY <2>3, EntryIsRecord DEF TryTakeOver, RegistryTypeOK, SessionInfo
    <2>4. CASE TryReject(v)
      BY <2>4, EntryIsRecord DEF TryReject, RegistryTypeOK, SessionInfo
    <2> QED BY <1>1, <2>1, <2>2, <2>3, <2>4 DEF TryRegister
  <1>2. ASSUME NEW v \in Users, NEW i \in SessionIDs, Register(v, i) PROVE OnServer(u, s)
    BY <1>2 DEF Register, Session, RegistryTypeOK
  <1>3. ASSUME NEW v \in Users, NEW i, Unregister(v, i) PROVE OnServer(u, s)
    BY <1>3 DEF Unregister, RegistryTypeOK
  <1>4. ASSUME NEW S, NEW t, ClearShard(S, t) PROVE OnServer(u, s)
    BY <1>4 DEF ClearShard
  <1>5. CASE Elapse
    BY <1>5 DEF Elapse
  <1>6. CASE UNCHANGED active
    BY <1>6
  <1> QED BY <1>1, <1>2, <1>3, <1>4, <1>5, <1>6

\* SetGS moves one user's session, to the server it is given.
LEMMA SetGSMoves ==
    ASSUME RegistryTypeOK, NEW v \in Users, NEW t \in ServerIDs, SetGS(v, t),
           NEW s, s # t, NEW u \in Users, OnServer(u, s)'
    PROVE  OnServer(u, s)
  <1> USE DEF OnServer, HasSession
  <1>1. CASE u # v
    BY <1>1 DEF SetGS, RegistryTypeOK
  <1>2. CASE u = v
    BY <1>2, EntryIsRecord DEF SetGS, RegistryTypeOK, SessionInfo
  <1> QED BY <1>1, <1>2

\* ClearShard leaves no session of its users on the server.
LEMMA ClearShardClears ==
    ASSUME NEW S, NEW s, ClearShard(S, s), NEW u \in Users, u \in S
    PROVE  ~OnServer(u, s)'
  BY DEF ClearShard, OnServer, HasSession
====
