---- MODULE LoginServer_proofs ----
(***************************************************************************)
(* Theorems about LoginServer, for any number of users, connections,       *)
(* workers and semaphore slots.                                            *)
(***************************************************************************)
EXTENDS LoginServer, SessionRegistry_proofs, FiniteSetTheorems, TLAPS

(***************************************************************************)
(* Type correctness.                                                       *)
(***************************************************************************)

\* Asking for a close leaves a connection in one of its states.
LEMMA AfterCloseTyping == \A t \in TcpStates : AfterClose(t) \in TcpStates
  BY DEF AfterClose, TcpStates

\* The parts of TypeOK that a step leaves alone stay true.
LEMMA TypeOKStuttering == TypeOK /\ UNCHANGED vars => TypeOK'
  BY DEF TypeOK, RegistryTypeOK, vars, connVars, workerVars, history

\* The listener's callbacks and the packet handlers keep the types.
LEMMA ConnTyping ==
    ASSUME TypeOK, NEW c \in Conns, ConnNext(c)
    PROVE  TypeOK'
  <1> USE DEF TypeOK, workerVars, history
  <1>1. CASE OnOpen(c)
    BY <1>1 DEF OnOpen, TcpStates, RegistryTypeOK
  <1>2. CASE OnOpenRefused(c)
    BY <1>2 DEF OnOpenRefused, TcpStates, RegistryTypeOK
  <1>3. CASE OnClose(c)
    <2>1. clientMu' \in Unregistering \cup {Unlocked}
      <3>1. CASE c \in clients /\ OwnsLoginSession(c)
        BY <1>3, <3>1 DEF OnClose, OwnsLoginSession, Unregistering
      <3>2. CASE ~(c \in clients /\ OwnsLoginSession(c))
        BY <1>3, <3>2 DEF OnClose
      <3> QED BY <3>1, <3>2
    <2> QED BY <1>3, <2>1 DEF OnClose, TcpStates, RegistryTypeOK
  <1>4. ASSUME PacketError(c) PROVE TypeOK'
    BY <1>4 DEF PacketError, TcpStates, RegistryTypeOK
  <1>5. CASE AuthGG(c)
    BY <1>5 DEF AuthGG, ClientStates, RegistryTypeOK
  <1>6. ASSUME RefusePacket(c) PROVE TypeOK'
    BY <1>6, AfterCloseTyping DEF RefusePacket, CloseAsync, RegistryTypeOK
  <1>7. ASSUME NEW w \in Workers, NEW u \in Users, HandleLogin(c, w, u) PROVE TypeOK'
    BY <1>7 DEF HandleLogin, connVars, WorkerSteps, RegistryTypeOK
  <1>8. CASE HandleServerList(c)
    BY <1>8 DEF HandleServerList, ClientStates, RegistryTypeOK
  <1> QED
    BY <1>1, <1>2, <1>3, <1>4, <1>5, <1>6, <1>7, <1>8
       DEF ConnNext, AuthGGWrongSession, HandleLoginRefused, GameServerLoginRefused,
           HandleServerListDenied

\* Ending a login worker keeps the worker's types.
LEMMA ReturnTyping ==
    ASSUME TypeOK, NEW w \in Workers, Return(w)
    PROVE  /\ pc' \in [Workers -> WorkerSteps]
           /\ job' \in [Workers -> [conn : Conns \cup {NoConn}, user : Users \cup {NoUser}]]
           /\ target' \in [Workers -> ServerIDs]
           /\ \A v \in Workers : pc'[v] # "idle" => job'[v] \in [conn : Conns, user : Users]
  BY ServerIDsAssumption DEF TypeOK, Return, Goto, NoJob, WorkerSteps

\* The steps of processLogin keep the types.
LEMMA LoginTyping ==
    ASSUME TypeOK, NEW w \in Workers, AcquireSlot(w) \/ LoginStep(w)
    PROVE  TypeOK'
  <1> USE DEF TypeOK, connVars, history
  <1>1. CASE AcquireSlot(w)
    BY <1>1 DEF AcquireSlot, Goto, WorkerSteps, RegistryTypeOK
  <1>2. CASE LoginFails(w)
    BY <1>2, AfterCloseTyping, ReturnTyping DEF LoginFails, CloseAsync, RegistryTypeOK
  <1>3. ASSUME NEW step \in WorkerSteps, Admit(w, step), TryRegister(job[w].user)
        PROVE  TypeOK'
    <2>1. job[w].user \in Users
      BY <1>3 DEF Admit, Authenticated
    <2>2. RegistryTypeOK'
      BY <1>3, <2>1, RegistryTyping
    <2>3. overlapped' \subseteq Users
      BY <1>3, <2>1 DEF Admit
    <2> QED BY <1>3, <2>2, <2>3 DEF Admit, Authenticated, Goto
  <1>4. CASE LoginReserves(w)
    BY <1>3, <1>4 DEF LoginReserves, TryRegister, WorkerSteps
  <1>5. CASE LoginTakesOver(w)
    BY <1>3, <1>5 DEF LoginTakesOver, TryRegister, WorkerSteps
  <1>6. CASE LoginInUse(w)
    <2>1. job[w].user \in Users
      BY <1>6 DEF LoginInUse, Authenticated
    <2>2. RegistryTypeOK'
      BY <1>6, <2>1, RegistryTyping DEF LoginInUse, TryRegister
    <2> QED BY <1>6, <2>2, AfterCloseTyping, ReturnTyping DEF LoginInUse, CloseAsync
  <1>7. CASE KickLookup(w)
    <2>1. target' \in [Workers -> ServerIDs]
      <3>1. job[w].user \in Users
        BY <1>7 DEF KickLookup
      <3>2. HasSession(job[w].user) => active[job[w].user].server \in ServerIDs
        BY <3>1, EntryIsRecord DEF SessionInfo
      <3> QED BY <1>7, <3>2 DEF KickLookup
    <2>2. /\ pc' \in [Workers -> WorkerSteps]
          /\ \A v \in Workers : pc'[v] # "idle" => job'[v] \in [conn : Conns, user : Users]
      BY <1>7 DEF KickLookup, Goto, WorkerSteps
    <2> QED BY <1>7, <2>1, <2>2 DEF KickLookup, RegistryTypeOK
  <1>8. CASE KickAccount(w)
    <2>1. tcp' \in [Conns -> TcpStates] /\ clients' \subseteq Conns /\ kicked' \subseteq Conns
      BY <1>8, AfterCloseTyping DEF KickAccount, CloseAsync, LoggedInAs
    <2> QED BY <1>8, <2>1 DEF KickAccount, Goto, WorkerSteps, RegistryTypeOK
  <1>9. CASE KickFromGame(w)
    BY <1>9 DEF KickFromGame, Goto, WorkerSteps, RegistryTypeOK
  <1>10. CASE RegisterSession(w)
    <2>1. RegistryTypeOK'
      BY <1>10, RegistryTyping DEF RegisterSession, Conns
    <2> QED BY <1>10, <2>1 DEF RegisterSession, Goto, WorkerSteps
  <1>11. CASE SetAccountID(w)
    BY <1>11 DEF SetAccountID, Goto, WorkerSteps, RegistryTypeOK
  <1>12. CASE SetAccount(w)
    BY <1>12 DEF SetAccount, Goto, WorkerSteps, RegistryTypeOK
  <1>13. CASE SetState(w)
    BY <1>13, ReturnTyping DEF SetState, ClientStates, RegistryTypeOK
  <1> QED
    BY <1>1, <1>2, <1>4, <1>5, <1>6, <1>7, <1>8, <1>9, <1>10, <1>11, <1>12, <1>13
       DEF LoginStep

\* Every step keeps the types.
LEMMA StepTyping == TypeOK /\ [Next]_vars => TypeOK'
  <1> SUFFICES ASSUME TypeOK, [Next]_vars PROVE TypeOK'
    OBVIOUS
  <1> USE DEF TypeOK, connVars, workerVars, history
  <1>1. ASSUME NEW c \in Conns, ConnNext(c) PROVE TypeOK'
    BY <1>1, ConnTyping
  <1>2. CASE OnCloseUnregister
    <2>1. RegistryTypeOK'
      BY <1>2, RegistryTyping DEF OnCloseUnregister, Unregistering
    <2> QED BY <1>2, <2>1 DEF OnCloseUnregister
  <1>3. ASSUME NEW T \in SUBSET clients, OnTick(T) PROVE TypeOK'
    BY <1>3, AfterCloseTyping DEF OnTick, RegistryTypeOK
  <1>4. ASSUME NEW w \in Workers, AcquireSlot(w) \/ LoginStep(w) PROVE TypeOK'
    BY <1>4, LoginTyping
  <1>5. ASSUME NEW u \in Users, SessionDropped(u) PROVE TypeOK'
    <2>1. RegistryTypeOK'
      BY <1>5, RegistryTyping DEF SessionDropped
    <2> QED BY <1>5, <2>1 DEF SessionDropped
  <1>6. ASSUME NEW u \in Users, NEW s \in ServerIDs, PlayerInGame(u, s) PROVE TypeOK'
    <2>1. RegistryTypeOK'
      BY <1>6, RegistryTyping DEF PlayerInGame
    <2> QED BY <1>6, <2>1 DEF PlayerInGame
  <1>7. CASE TimePasses
    BY <1>7, RegistryTyping DEF TimePasses
  <1>8. CASE UNCHANGED vars
    BY <1>8, TypeOKStuttering
  <1> QED BY <1>1, <1>2, <1>3, <1>4, <1>5, <1>6, <1>7, <1>8 DEF Next

\* Type correctness of every reachable state, for every value of the
\* constants: in particular a worker that is not idle has a connection and
\* a user to work for.
THEOREM TypeCorrect == Spec => []TypeOK
  <1>1. Init => TypeOK
    BY ServerIDsAssumption
       DEF Init, RegistryInit, TypeOK, RegistryTypeOK, TcpStates, ClientStates,
           WorkerSteps, NoJob
  <1> QED BY <1>1, StepTyping, PTL DEF Spec
----
(***************************************************************************)
(* Reservations.                                                           *)
(***************************************************************************)

\* How a user's entry can change outside the login workers: it may vanish,
\* or move, or age, but its owner stays.
LEMMA OwnerKept ==
    ASSUME RegistryTypeOK, NEW v \in Users,
           \/ \E u \in Users : TryPending(u) \/ TryTakeOver(u) \/ TryReject(u)
           \/ \E u \in Users : \E i : Unregister(u, i)
           \/ \E u \in Users, s \in ServerIDs : SetGS(u, s)
           \/ Elapse
           \/ UNCHANGED active,
           HasSession(v)'
    PROVE  HasSession(v) /\ active'[v].id = active[v].id
  <1>1. ASSUME NEW u \in Users, TryPending(u) \/ TryTakeOver(u) \/ TryReject(u)
        PROVE  HasSession(v) /\ active'[v].id = active[v].id
    BY <1>1, EntryIsRecord
       DEF TryPending, TryTakeOver, TryReject, RegistryTypeOK, HasSession, SessionInfo
  <1>2. ASSUME NEW u \in Users, NEW i, Unregister(u, i)
        PROVE  HasSession(v) /\ active'[v].id = active[v].id
    BY <1>2 DEF Unregister, RegistryTypeOK, HasSession
  <1>3. ASSUME NEW u \in Users, NEW s \in ServerIDs, SetGS(u, s)
        PROVE  HasSession(v) /\ active'[v].id = active[v].id
    <2>1. HasSession(v)
      BY <1>3 DEF SetGS, RegistryTypeOK, HasSession
    <2>2. active[v] \in SessionInfo
      BY <2>1, EntryIsRecord
    <2> QED BY <1>3, <2>1, <2>2 DEF SetGS, RegistryTypeOK, HasSession, SessionInfo
  <1>4. ASSUME Elapse
        PROVE  HasSession(v) /\ active'[v].id = active[v].id
    <2>1. PICK F \in SUBSET {x \in Users : HasSession(x) /\ active[x].fresh},
               R \in SUBSET {x \in Users : HasSession(x) /\ active[x].rejected} :
             active' = [x \in Users |->
                          IF ~HasSession(x) THEN NoSession
                          ELSE [id |-> active[x].id, server |-> active[x].server,
                                 fresh |-> active[x].fresh /\ x \notin F,
                                 rejected |-> active[x].rejected /\ x \notin R]]
      BY <1>4 DEF Elapse
    <2>2. HasSession(v)
      BY <2>1 DEF HasSession
    <2>3. active[v] \in SessionInfo
      BY <2>2, EntryIsRecord
    <2>4. active'[v] = [id |-> active[v].id, server |-> active[v].server,
                         fresh |-> active[v].fresh /\ v \notin F,
                         rejected |-> active[v].rejected /\ v \notin R]
      BY <2>1, <2>2
    <2> QED BY <2>2, <2>3, <2>4 DEF SessionInfo
  <1>5. ASSUME UNCHANGED active
        PROVE  HasSession(v) /\ active'[v].id = active[v].id
    BY <1>5 DEF HasSession
  <1> QED BY <1>1, <1>2, <1>3, <1>4, <1>5

\* No step leaves a reservation without a login that will replace it.
LEMMA ReservationStep ==
    TypeOK /\ ReservationOwned /\ [Next]_vars => ReservationOwned'
  <1> SUFFICES ASSUME TypeOK, ReservationOwned, [Next]_vars,
                      NEW u \in Users, HasSession(u)', active'[u].id = Reserved
               PROVE  \E w \in Workers : pc'[w] = "register" /\ job'[w].user = u
    BY DEF ReservationOwned
  <1> USE DEF TypeOK
  <1>a. ASSUME HasSession(u), active[u].id = Reserved
        PROVE  \E w \in Workers : pc[w] = "register" /\ job[w].user = u
    BY <1>a DEF ReservationOwned
  <1>b. ASSUME HasSession(u), active'[u].id = active[u].id, UNCHANGED <<pc, job>>
        PROVE  \E w \in Workers : pc'[w] = "register" /\ job'[w].user = u
    BY <1>a, <1>b
  <1>c. ASSUME HasSession(u), active'[u].id = active[u].id,
               NEW w \in Workers, pc[w] # "register",
               \A v \in Workers \ {w} : pc'[v] = pc[v] /\ job'[v] = job[v]
        PROVE  \E v \in Workers : pc'[v] = "register" /\ job'[v].user = u
    BY <1>a, <1>c
  <1>1. ASSUME NEW c \in Conns, ConnNext(c)
        PROVE  \E w \in Workers : pc'[w] = "register" /\ job'[w].user = u
    <2>1. HasSession(u) /\ active'[u].id = active[u].id
      <3>1. UNCHANGED active
        BY <1>1
           DEF ConnNext, OnOpen, OnOpenRefused, OnClose, PacketError, AuthGG,
               RefusePacket, AuthGGWrongSession, HandleLoginRefused,
               GameServerLoginRefused, HandleLogin, HandleServerList,
               HandleServerListDenied
      <3> QED BY <3>1, OwnerKept
    <2>2. CASE UNCHANGED <<pc, job>>
      BY <1>b, <2>1, <2>2
    <2>3. ASSUME NEW w \in Workers, NEW v \in Users, HandleLogin(c, w, v)
          PROVE  \E x \in Workers : pc'[x] = "register" /\ job'[x].user = u
      BY <1>c, <2>1, <2>3 DEF HandleLogin
    <2> QED
      BY <1>1, <2>2, <2>3
         DEF ConnNext, OnOpen, OnOpenRefused, OnClose, PacketError, AuthGG,
             RefusePacket, AuthGGWrongSession, HandleLoginRefused,
             GameServerLoginRefused, HandleServerList, HandleServerListDenied,
             workerVars
  <1>2. CASE OnCloseUnregister
    <2>1. HasSession(u) /\ active'[u].id = active[u].id
      BY <1>2, OwnerKept DEF OnCloseUnregister, Unregistering
    <2> QED BY <1>2, <1>b, <2>1 DEF OnCloseUnregister, workerVars
  <1>3. ASSUME NEW T \in SUBSET clients, OnTick(T)
        PROVE  \E w \in Workers : pc'[w] = "register" /\ job'[w].user = u
    BY <1>3, <1>b, OwnerKept DEF OnTick, workerVars
  <1>4. ASSUME NEW w \in Workers, LoginReserves(w)
        PROVE  \E v \in Workers : pc'[v] = "register" /\ job'[v].user = u
    <2>1. CASE u = job[w].user
      BY <1>4, <2>1 DEF LoginReserves, Admit, Goto
    <2>2. CASE u # job[w].user
      <3>1. HasSession(u) /\ active'[u].id = active[u].id
        BY <1>4, <2>2
           DEF LoginReserves, Admit, Authenticated, TryReserve, RegistryTypeOK, HasSession
      <3> QED BY <1>4, <1>c, <3>1 DEF LoginReserves, Admit, Authenticated, Goto
    <2> QED BY <2>1, <2>2
  <1>5. ASSUME NEW w \in Workers, RegisterSession(w)
        PROVE  \E v \in Workers : pc'[v] = "register" /\ job'[v].user = u
    <2>1. u # job[w].user
      BY <1>5, ReservedAssumption
         DEF RegisterSession, Register, Session, RegistryTypeOK, Conns
    <2>2. HasSession(u) /\ active'[u].id = active[u].id
      BY <1>5, <2>1 DEF RegisterSession, Register, RegistryTypeOK, HasSession
    <2>3. PICK v \in Workers : pc[v] = "register" /\ job[v].user = u
      BY <1>a, <2>2
    <2> QED BY <1>5, <2>1, <2>3 DEF RegisterSession, Goto
  <1>6. ASSUME NEW w \in Workers, AcquireSlot(w) \/ LoginStep(w),
               ~LoginReserves(w), ~RegisterSession(w)
        PROVE  \E v \in Workers : pc'[v] = "register" /\ job'[v].user = u
    <2>1. HasSession(u) /\ active'[u].id = active[u].id
      <3>1. job[w].user \in Users
        BY <1>6
           DEF AcquireSlot, LoginStep, LoginFails, LoginTakesOver, LoginInUse, Admit,
               Authenticated, KickLookup, KickAccount, KickFromGame, SetAccountID,
               SetAccount, SetState
      <3>2. CASE LoginTakesOver(w) \/ LoginInUse(w)
        BY <3>1, <3>2, OwnerKept DEF LoginTakesOver, LoginInUse
      <3>3. CASE UNCHANGED active
        BY <3>3, OwnerKept
      <3> QED
        BY <1>6, <3>2, <3>3
           DEF LoginStep, AcquireSlot, LoginFails, KickLookup, KickAccount, KickFromGame,
               SetAccountID, SetAccount, SetState
    <2>2. pc[w] # "register" /\ \A v \in Workers \ {w} : pc'[v] = pc[v] /\ job'[v] = job[v]
      BY <1>6
         DEF AcquireSlot, LoginStep, LoginFails, LoginTakesOver, LoginInUse, Admit,
             Authenticated, KickLookup, KickAccount, KickFromGame, SetAccountID,
             SetAccount, SetState, Goto, Return
    <2> QED BY <1>c, <2>1, <2>2
  <1>7. ASSUME NEW v \in Users, SessionDropped(v)
        PROVE  \E w \in Workers : pc'[w] = "register" /\ job'[w].user = u
    BY <1>7, <1>b, OwnerKept DEF SessionDropped, workerVars
  <1>8. ASSUME NEW v \in Users, NEW s \in ServerIDs, PlayerInGame(v, s)
        PROVE  \E w \in Workers : pc'[w] = "register" /\ job'[w].user = u
    BY <1>8, <1>b, OwnerKept DEF PlayerInGame, workerVars
  <1>9. CASE TimePasses
    BY <1>9, <1>b, OwnerKept DEF TimePasses, workerVars
  <1>10. CASE UNCHANGED vars
    BY <1>10, <1>b, OwnerKept DEF vars, workerVars
  <1> QED
    BY <1>1, <1>2, <1>3, <1>4, <1>5, <1>6, <1>7, <1>8, <1>9, <1>10 DEF Next

\* No reservation is ever stranded: whatever the interleaving of logins,
\* closes, timeouts, kicks and game-server notices, an entry with SessionID
\* -1 has a login in front of its call of Register.
THEOREM ReservationsOwned == Spec => []ReservationOwned
  <1>1. Init => ReservationOwned
    BY DEF Init, RegistryInit, ReservationOwned, HasSession
  <1> QED BY <1>1, TypeCorrect, ReservationStep, PTL DEF Spec
----
(***************************************************************************)
(* Identity.                                                               *)
(***************************************************************************)

\* Only a login that authenticated gets past TryRegister.
LEMMA JobAuthenticatedStep ==
    TypeOK /\ JobAuthenticated /\ [Next]_vars => JobAuthenticated'
  <1> SUFFICES ASSUME TypeOK, JobAuthenticated, [Next]_vars,
                      NEW v \in Workers, pc'[v] \notin {"idle", "spawned", "auth"}
               PROVE  <<job'[v].conn, job'[v].user>> \in Credentials
    BY DEF JobAuthenticated
  <1> USE DEF TypeOK, JobAuthenticated
  <1>1. CASE UNCHANGED <<pc, job>>
    BY <1>1
  <1>2. ASSUME NEW c \in Conns, NEW w \in Workers, NEW u \in Users, HandleLogin(c, w, u)
        PROVE  <<job'[v].conn, job'[v].user>> \in Credentials
    BY <1>2 DEF HandleLogin
  <1>3. ASSUME NEW w \in Workers, LoginReserves(w) \/ LoginTakesOver(w)
        PROVE  <<job'[v].conn, job'[v].user>> \in Credentials
    BY <1>3 DEF LoginReserves, LoginTakesOver, Admit, Authenticated, Goto
  <1>4. ASSUME NEW w \in Workers, AcquireSlot(w)
        PROVE  <<job'[v].conn, job'[v].user>> \in Credentials
    BY <1>4 DEF AcquireSlot, Goto
  <1>5. ASSUME NEW w \in Workers, LoginFails(w) \/ LoginInUse(w) \/ SetState(w)
        PROVE  <<job'[v].conn, job'[v].user>> \in Credentials
    BY <1>5 DEF LoginFails, LoginInUse, SetState, Return, Goto
  <1>6. ASSUME NEW w \in Workers,
               \/ KickLookup(w) \/ KickAccount(w) \/ KickFromGame(w)
               \/ RegisterSession(w) \/ SetAccountID(w) \/ SetAccount(w)
        PROVE  <<job'[v].conn, job'[v].user>> \in Credentials
    BY <1>6 DEF KickLookup, KickAccount, KickFromGame, RegisterSession, SetAccountID,
                SetAccount, Goto
  <1>7. ASSUME NEW c \in Conns, ConnNext(c),
               ~\E w \in Workers, u \in Users : HandleLogin(c, w, u)
        PROVE  UNCHANGED <<pc, job>>
    BY <1>7
       DEF ConnNext, OnOpen, OnOpenRefused, OnClose, PacketError, AuthGG, RefusePacket,
           AuthGGWrongSession, HandleLoginRefused, GameServerLoginRefused,
           HandleServerList, HandleServerListDenied, workerVars
  <1>8. ASSUME \/ OnCloseUnregister
               \/ \E T \in SUBSET clients : OnTick(T)
               \/ \E u \in Users : SessionDropped(u) \/ \E s \in ServerIDs : PlayerInGame(u, s)
               \/ TimePasses
               \/ UNCHANGED vars
        PROVE  UNCHANGED <<pc, job>>
    BY <1>8 DEF OnCloseUnregister, OnTick, SessionDropped, PlayerInGame, TimePasses,
                vars, workerVars
  <1> QED BY <1>1, <1>2, <1>3, <1>4, <1>5, <1>6, <1>7, <1>8 DEF Next, LoginStep

\* How a step can change account, account ID and owner of a session.
LEMMA IdentityFrame ==
    ASSUME TypeOK, [Next]_vars,
           ~\E w \in Workers : SetAccountID(w) \/ SetAccount(w)
    PROVE  UNCHANGED <<account, accountID>>
  <1>1. ASSUME NEW c \in Conns, ConnNext(c) PROVE UNCHANGED <<account, accountID>>
    BY <1>1
       DEF ConnNext, OnOpen, OnOpenRefused, OnClose, PacketError, AuthGG, RefusePacket,
           AuthGGWrongSession, HandleLoginRefused, GameServerLoginRefused, HandleLogin,
           HandleServerList, HandleServerListDenied, connVars
  <1>2. ASSUME NEW w \in Workers, AcquireSlot(w) \/ LoginStep(w)
        PROVE  UNCHANGED <<account, accountID>>
    BY <1>2
       DEF AcquireSlot, LoginStep, LoginFails, LoginReserves, LoginTakesOver, LoginInUse,
           Admit, KickLookup, KickAccount, KickFromGame, RegisterSession, SetState, connVars
  <1> QED
    BY <1>1, <1>2
       DEF Next, OnCloseUnregister, OnTick, SessionDropped, PlayerInGame, TimePasses,
           vars, connVars

\* A session gets an owner only through Register.
LEMMA OwnerFrame ==
    ASSUME TypeOK, [Next]_vars, NEW u \in Users,
           ~\E w \in Workers : RegisterSession(w),
           HasSession(u)', active'[u].id # Reserved
    PROVE  HasSession(u) /\ active'[u].id = active[u].id
  <1> USE DEF TypeOK
  <1>1. CASE UNCHANGED active
    BY <1>1, OwnerKept
  <1>2. ASSUME NEW w \in Workers, AcquireSlot(w) \/ LoginStep(w)
        PROVE  HasSession(u) /\ active'[u].id = active[u].id
    <2>1. CASE LoginReserves(w)
      BY <2>1 DEF LoginReserves, TryReserve, Reservation, RegistryTypeOK, HasSession
    <2>2. CASE LoginTakesOver(w) \/ LoginInUse(w)
      <3>1. job[w].user \in Users
        BY <2>2 DEF LoginTakesOver, LoginInUse, Admit, Authenticated
      <3> QED BY <2>2, <3>1, OwnerKept DEF LoginTakesOver, LoginInUse
    <2> QED
      BY <1>1, <1>2, <2>1, <2>2
         DEF LoginStep, AcquireSlot, LoginFails, KickLookup, KickAccount, KickFromGame,
             SetAccountID, SetAccount, SetState
  <1>3. CASE OnCloseUnregister
    BY <1>3, OwnerKept DEF OnCloseUnregister, Unregistering
  <1>4. ASSUME NEW v \in Users, SessionDropped(v) \/ \E s \in ServerIDs : PlayerInGame(v, s)
        PROVE  HasSession(u) /\ active'[u].id = active[u].id
    BY <1>4, OwnerKept DEF SessionDropped, PlayerInGame
  <1>5. CASE TimePasses
    BY <1>5, OwnerKept DEF TimePasses
  <1>6. ASSUME NEW c \in Conns, ConnNext(c) PROVE UNCHANGED active
    BY <1>6
       DEF ConnNext, OnOpen, OnOpenRefused, OnClose, PacketError, AuthGG, RefusePacket,
           AuthGGWrongSession, HandleLoginRefused, GameServerLoginRefused, HandleLogin,
           HandleServerList, HandleServerListDenied
  <1>7. ASSUME UNCHANGED vars \/ \E T \in SUBSET clients : OnTick(T)
        PROVE  UNCHANGED active
    BY <1>7 DEF vars, OnTick
  <1> QED BY <1>1, <1>2, <1>3, <1>4, <1>5, <1>6, <1>7 DEF Next

\* No step gives a connection an account, or an account a session, without
\* the password.
LEMMA IdentityStep ==
    TypeOK /\ JobAuthenticated /\ IdentityAuthenticated /\ [Next]_vars
       => IdentityAuthenticated'
  <1> SUFFICES ASSUME TypeOK, JobAuthenticated, IdentityAuthenticated, [Next]_vars
               PROVE  IdentityAuthenticated'
    OBVIOUS
  <1> USE DEF TypeOK
  <1>1. ASSUME NEW c \in Conns
        PROVE  /\ account'[c] # NoUser => <<c, account'[c]>> \in Credentials
               /\ accountID'[c] # NoUser => <<c, accountID'[c]>> \in Credentials
    <2>1. CASE UNCHANGED <<account, accountID>>
      BY <2>1 DEF IdentityAuthenticated
    <2>2. ASSUME NEW w \in Workers, SetAccountID(w) \/ SetAccount(w)
          PROVE  /\ account'[c] # NoUser => <<c, account'[c]>> \in Credentials
                 /\ accountID'[c] # NoUser => <<c, accountID'[c]>> \in Credentials
      BY <2>2 DEF SetAccountID, SetAccount, IdentityAuthenticated, JobAuthenticated
    <2> QED BY <2>1, <2>2, IdentityFrame
  <1>2. ASSUME NEW u \in Users, HasSession(u)', active'[u].id # Reserved
        PROVE  <<active'[u].id, u>> \in Credentials
    <2>1. CASE \E w \in Workers : RegisterSession(w)
      <3>1. PICK w \in Workers : RegisterSession(w)
        BY <2>1
      <3>2. CASE u = job[w].user
        BY <3>1, <3>2
           DEF RegisterSession, Register, Session, RegistryTypeOK, JobAuthenticated
      <3>3. CASE u # job[w].user
        BY <1>2, <3>1, <3>3
           DEF RegisterSession, Register, RegistryTypeOK, HasSession, IdentityAuthenticated
      <3> QED BY <3>2, <3>3
    <2>2. CASE ~\E w \in Workers : RegisterSession(w)
      BY <1>2, <2>2, OwnerFrame DEF IdentityAuthenticated
    <2> QED BY <2>1, <2>2
  <1> QED BY <1>1, <1>2 DEF IdentityAuthenticated, HasSession

\* No connection carries an account, and no account a session, without the
\* password, however the off-loop workers interleave with the event loops.
THEOREM IdentitiesAuthenticated == Spec => []IdentityAuthenticated
  <1>1. Init => JobAuthenticated /\ IdentityAuthenticated
    BY DEF Init, RegistryInit, JobAuthenticated, IdentityAuthenticated, HasSession
  <1> QED BY <1>1, TypeCorrect, JobAuthenticatedStep, IdentityStep, PTL DEF Spec
----
(***************************************************************************)
(* A client on the server list has an account.                             *)
(***************************************************************************)

\* Once a connection has an account and an account ID it keeps them, or gets
\* those of another login.
LEMMA AccountKept ==
    ASSUME TypeOK, [Next]_vars, NEW c \in Conns
    PROVE  /\ account[c] # NoUser => account'[c] # NoUser
           /\ accountID[c] # NoUser => accountID'[c] # NoUser
  <1>1. ASSUME NEW w \in Workers, SetAccountID(w) \/ SetAccount(w)
        PROVE  /\ account[c] # NoUser => account'[c] # NoUser
               /\ accountID[c] # NoUser => accountID'[c] # NoUser
    BY <1>1, NoUserAssumption DEF SetAccountID, SetAccount, TypeOK
  <1> QED BY <1>1, IdentityFrame

\* A worker comes to setAccount from SetAccountID and to setState from
\* SetAccount, and works for the same connection all the way.
LEMMA PublishedStep ==
    TypeOK /\ PublishedInOrder /\ [Next]_vars => PublishedInOrder'
  <1> SUFFICES ASSUME TypeOK, PublishedInOrder, [Next]_vars, NEW v \in Workers
               PROVE  /\ pc'[v] \in {"setAccount", "setState"} =>
                            accountID'[job'[v].conn] # NoUser
                      /\ pc'[v] = "setState" => account'[job'[v].conn] # NoUser
    BY DEF PublishedInOrder
  <1> DEFINE Goal == /\ pc'[v] \in {"setAccount", "setState"} =>
                           accountID'[job'[v].conn] # NoUser
                     /\ pc'[v] = "setState" => account'[job'[v].conn] # NoUser
  <1>1. ASSUME pc'[v] = pc[v], job'[v] = job[v] PROVE Goal
    <2>1. pc[v] \in {"setAccount", "setState"} => job[v].conn \in Conns
      BY DEF TypeOK
    <2> QED BY <1>1, <2>1, AccountKept DEF PublishedInOrder
  <1>2. ASSUME NEW w \in Workers, SetAccountID(w) PROVE Goal
    <2>1. CASE w = v
      BY <1>2, <2>1, NoUserAssumption DEF SetAccountID, Goto, TypeOK
    <2>2. CASE w # v
      BY <1>1, <1>2, <2>2 DEF SetAccountID, Goto, TypeOK
    <2> QED BY <2>1, <2>2
  <1>3. ASSUME NEW w \in Workers, SetAccount(w) PROVE Goal
    <2>1. CASE w = v
      BY <1>3, <2>1, NoUserAssumption DEF SetAccount, Goto, TypeOK, PublishedInOrder
    <2>2. CASE w # v
      BY <1>1, <1>3, <2>2 DEF SetAccount, Goto, TypeOK
    <2> QED BY <2>1, <2>2
  <1>4. ASSUME NEW w \in Workers,
               \/ AcquireSlot(w) \/ LoginFails(w) \/ LoginReserves(w) \/ LoginTakesOver(w)
               \/ LoginInUse(w) \/ KickLookup(w) \/ KickAccount(w) \/ KickFromGame(w)
               \/ RegisterSession(w) \/ SetState(w)
        PROVE  Goal
    <2>1. pc'[w] \notin {"setAccount", "setState"}
      BY <1>4
         DEF AcquireSlot, LoginFails, LoginReserves, LoginTakesOver, LoginInUse, Admit,
             KickLookup, KickAccount, KickFromGame, RegisterSession, SetState, Return,
             Goto, TypeOK
    <2>2. w # v => pc'[v] = pc[v] /\ job'[v] = job[v]
      BY <1>4
         DEF AcquireSlot, LoginFails, LoginReserves, LoginTakesOver, LoginInUse, Admit,
             KickLookup, KickAccount, KickFromGame, RegisterSession, SetState, Return,
             Goto, TypeOK
    <2> QED BY <1>1, <2>1, <2>2
  <1>5. ASSUME NEW c \in Conns, NEW w \in Workers, NEW u \in Users, HandleLogin(c, w, u)
        PROVE  Goal
    <2>1. w # v => pc'[v] = pc[v] /\ job'[v] = job[v]
      BY <1>5 DEF HandleLogin, TypeOK
    <2>2. pc'[w] = "spawned"
      BY <1>5 DEF HandleLogin, TypeOK
    <2> QED BY <1>1, <2>1, <2>2
  <1>6. ASSUME NEW c \in Conns, ConnNext(c),
               ~\E w \in Workers, u \in Users : HandleLogin(c, w, u)
        PROVE  UNCHANGED <<pc, job>>
    BY <1>6
       DEF ConnNext, OnOpen, OnOpenRefused, OnClose, PacketError, AuthGG, RefusePacket,
           AuthGGWrongSession, HandleLoginRefused, GameServerLoginRefused,
           HandleServerList, HandleServerListDenied, workerVars
  <1>7. CASE UNCHANGED <<pc, job>>
    BY <1>1, <1>7
  <1> QED
    BY <1>2, <1>3, <1>4, <1>5, <1>6, <1>7
       DEF Next, LoginStep, OnCloseUnregister, OnTick, SessionDropped, PlayerInGame,
           TimePasses, vars, workerVars

\* The state moves forward only through SetState and HandleServerList.
LEMMA ListedStep ==
    TypeOK /\ PublishedInOrder /\ ListedStateHasAccount /\ [Next]_vars
       => ListedStateHasAccount'
  <1> SUFFICES ASSUME TypeOK, PublishedInOrder, ListedStateHasAccount, [Next]_vars,
                      NEW c \in Conns, state'[c] \in {"AuthedLogin", "ServerList"}
               PROVE  account'[c] # NoUser /\ accountID'[c] # NoUser
    BY DEF ListedStateHasAccount
  <1>1. CASE state[c] \in {"AuthedLogin", "ServerList"}
    BY <1>1, AccountKept DEF ListedStateHasAccount
  <1>2. ASSUME NEW w \in Workers, SetState(w), job[w].conn = c
        PROVE  account'[c] # NoUser /\ accountID'[c] # NoUser
    BY <1>2 DEF SetState, PublishedInOrder
  <1>3. ASSUME NEW w \in Workers, SetState(w), job[w].conn # c
        PROVE  state'[c] = state[c]
    BY <1>3 DEF SetState, TypeOK
  <1>4. ASSUME NEW d \in Conns, ConnNext(d), state[c] \notin {"AuthedLogin", "ServerList"}
        PROVE  FALSE
    <2>1. CASE AuthGG(d) \/ HandleServerList(d)
      BY <1>4, <2>1 DEF AuthGG, HandleServerList, TypeOK
    <2>2. CASE UNCHANGED state
      BY <1>4, <2>2
    <2> QED
      BY <1>4, <2>1, <2>2
         DEF ConnNext, OnOpen, OnOpenRefused, OnClose, PacketError, RefusePacket,
             AuthGGWrongSession, HandleLoginRefused, GameServerLoginRefused, HandleLogin,
             HandleServerListDenied, connVars
  <1>5. ASSUME NEW w \in Workers, AcquireSlot(w) \/ LoginStep(w), ~SetState(w)
        PROVE  UNCHANGED state
    BY <1>5
       DEF AcquireSlot, LoginStep, LoginFails, LoginReserves, LoginTakesOver, LoginInUse,
           Admit, KickLookup, KickAccount, KickFromGame, RegisterSession, SetAccountID,
           SetAccount, connVars
  <1>6. CASE state'[c] = state[c]
    BY <1>1, <1>6
  <1> QED
    BY <1>1, <1>2, <1>3, <1>4, <1>5, <1>6
       DEF Next, OnCloseUnregister, OnTick, SessionDropped, PlayerInGame, TimePasses,
           vars, connVars

\* A connection that is past the login has account and account ID, although
\* they are published by another goroutine, and another login or AuthGG may
\* come in between.
THEOREM ListedStatesHaveAccounts == Spec => []ListedStateHasAccount
  <1>1. Init => PublishedInOrder /\ ListedStateHasAccount
    BY DEF Init, PublishedInOrder, ListedStateHasAccount
  <1> QED BY <1>1, TypeCorrect, PublishedStep, ListedStep, PTL DEF Spec
----
\* When OnClose unlocks clientMu after Unregister, the session it removed was
\* the closing connection's: one registered since Get is left alone.
THEOREM ClosesTakeOwn == Spec => CloseTakesOwn
  <1> DEFINE Own ==
        \A u \in Users :
          clientMu # Unlocked /\ clientMu' = Unlocked
             /\ HasSession(u) /\ active'[u] = NoSession
             => active[u].id = clientMu.conn
  <1>1. ASSUME TypeOK, [Next]_vars PROVE Own
    <2> SUFFICES ASSUME NEW u \in Users, clientMu # Unlocked, clientMu' = Unlocked,
                        HasSession(u), active'[u] = NoSession
                 PROVE  active[u].id = clientMu.conn
      OBVIOUS
    <2>1. CASE OnCloseUnregister
      BY <1>1, <2>1 DEF OnCloseUnregister, Unregister, HasSession, TypeOK, RegistryTypeOK
    <2>2. ASSUME NEW c \in Conns, ConnNext(c) PROVE UNCHANGED clientMu
      BY <2>2
         DEF ConnNext, OnOpen, OnOpenRefused, OnClose, PacketError, AuthGG, RefusePacket,
             AuthGGWrongSession, HandleLoginRefused, GameServerLoginRefused, HandleLogin,
             HandleServerList, HandleServerListDenied, connVars
    <2>3. ASSUME NEW w \in Workers, AcquireSlot(w) \/ LoginStep(w) PROVE UNCHANGED clientMu
      BY <2>3
         DEF AcquireSlot, LoginStep, LoginFails, LoginReserves, LoginTakesOver, LoginInUse,
             Admit, KickLookup, KickAccount, KickFromGame, RegisterSession, SetAccountID,
             SetAccount, SetState, connVars
    <2> QED
      BY <1>1, <2>1, <2>2, <2>3
         DEF Next, OnTick, SessionDropped, PlayerInGame, TimePasses, vars, connVars
  <1> QED BY <1>1, TypeCorrect, PTL DEF Spec, CloseTakesOwn

----
(***************************************************************************)
(* The clients map, the connection gauge and one client per user.          *)
(***************************************************************************)
\* Asking for a close neither opens nor forgets to close.
LEMMA AfterCloseFacts ==
    \A t \in TcpStates : /\ AfterClose(t) # "open"
                         /\ AfterClose(t) = "new" <=> t = "new"
                         /\ AfterClose(t) = "closed" <=> t = "closed"
  BY DEF AfterClose, TcpStates

\* A connection that is new or closed is only touched by OnOpen.
LEMMA TcpFrame ==
    ASSUME TypeOK, [Next]_vars, NEW c \in Conns
    PROVE  /\ tcp'[c] = "new" => tcp[c] = "new"
           /\ tcp[c] = "closed" => tcp'[c] = "closed"
           /\ tcp'[c] = "open" => tcp[c] = "open" \/ OnOpen(c)
  <1> USE AfterCloseFacts DEF TypeOK
  <1>1. ASSUME NEW d \in Conns, ConnNext(d)
        PROVE  /\ tcp'[c] = "new" => tcp[c] = "new"
               /\ tcp[c] = "closed" => tcp'[c] = "closed"
               /\ tcp'[c] = "open" => tcp[c] = "open" \/ OnOpen(c)
    <2>1. CASE OnOpen(d)
      <3>1. /\ tcp'[c] = "new" => tcp[c] = "new"
            /\ tcp[c] = "closed" => tcp'[c] = "closed"
            /\ c # d => tcp'[c] = tcp[c]
        BY <2>1 DEF OnOpen
      <3> QED BY <2>1, <3>1
    <2>2. CASE OnOpenRefused(d) \/ OnClose(d)
      BY <2>2 DEF OnOpenRefused, OnClose
    <2>3. CASE PacketError(d)
      BY <2>3 DEF PacketError, Receiving
    <2>4. CASE RefusePacket(d)
      BY <2>4 DEF RefusePacket, CloseAsync
    <2>5. CASE UNCHANGED tcp
      BY <2>5
    <2> QED
      BY <1>1, <2>1, <2>2, <2>3, <2>4, <2>5
         DEF ConnNext, AuthGG, AuthGGWrongSession, HandleLoginRefused,
             GameServerLoginRefused, HandleLogin, HandleServerList,
             HandleServerListDenied, connVars
  <1>2. ASSUME NEW T \in SUBSET clients, OnTick(T)
        PROVE  /\ tcp'[c] = "new" => tcp[c] = "new"
               /\ tcp[c] = "closed" => tcp'[c] = "closed"
               /\ tcp'[c] = "open" => tcp[c] = "open"
    BY <1>2 DEF OnTick
  <1>3. ASSUME NEW w \in Workers, AcquireSlot(w) \/ LoginStep(w)
        PROVE  /\ tcp'[c] = "new" => tcp[c] = "new"
               /\ tcp[c] = "closed" => tcp'[c] = "closed"
               /\ tcp'[c] = "open" => tcp[c] = "open"
    <2>1. CASE LoginFails(w) \/ LoginInUse(w)
      BY <2>1 DEF LoginFails, LoginInUse, Authenticated, CloseAsync
    <2>2. CASE KickAccount(w)
      BY <2>2 DEF KickAccount, CloseAsync, LoggedInAs
    <2>3. CASE UNCHANGED tcp
      BY <2>3
    <2> QED
      BY <1>3, <2>1, <2>2, <2>3
         DEF LoginStep, AcquireSlot, LoginReserves, LoginTakesOver, Admit, KickLookup,
             KickFromGame, RegisterSession, SetAccountID, SetAccount, SetState, connVars
  <1>4. ASSUME \/ OnCloseUnregister \/ TimePasses \/ UNCHANGED vars
               \/ \E u \in Users : SessionDropped(u) \/ \E s \in ServerIDs : PlayerInGame(u, s)
        PROVE  UNCHANGED tcp
    BY <1>4 DEF OnCloseUnregister, TimePasses, SessionDropped, PlayerInGame, vars, connVars
  <1> QED BY <1>1, <1>2, <1>3, <1>4 DEF Next

\* How the map of clients and the set of kicked clients change.
LEMMA ClientsFrame ==
    ASSUME TypeOK, [Next]_vars
    PROVE  \/ \E c \in Conns : OnOpen(c)
           \/ \E c \in Conns : OnClose(c)
           \/ OnCloseUnregister
           \/ \E T \in SUBSET clients : OnTick(T)
           \/ \E w \in Workers : KickAccount(w)
           \/ UNCHANGED <<clients, kicked, clientMu, gauge>>
  <1>1. ASSUME NEW c \in Conns, ConnNext(c), ~OnOpen(c), ~OnClose(c)
        PROVE  UNCHANGED <<clients, kicked, clientMu, gauge>>
    BY <1>1
       DEF ConnNext, OnOpenRefused, PacketError, AuthGG, RefusePacket,
           AuthGGWrongSession, HandleLoginRefused, GameServerLoginRefused, HandleLogin,
           HandleServerList, HandleServerListDenied, connVars, history
  <1>2. ASSUME NEW w \in Workers, AcquireSlot(w) \/ LoginStep(w), ~KickAccount(w)
        PROVE  UNCHANGED <<clients, kicked, clientMu, gauge>>
    BY <1>2
       DEF AcquireSlot, LoginStep, LoginFails, LoginReserves, LoginTakesOver, LoginInUse,
           Admit, KickLookup, KickFromGame, RegisterSession, SetAccountID, SetAccount,
           SetState, connVars, history
  <1>3. ASSUME \/ TimePasses \/ UNCHANGED vars
               \/ \E u \in Users : SessionDropped(u) \/ \E s \in ServerIDs : PlayerInGame(u, s)
        PROVE  UNCHANGED <<clients, kicked, clientMu, gauge>>
    BY <1>3 DEF TimePasses, SessionDropped, PlayerInGame, vars, connVars, history
  <1> QED BY <1>1, <1>2, <1>3 DEF Next

\* How the workers' connections and users change: only HandleLogin gives a
\* worker a new job, on a connection that is receiving.
LEMMA JobFrame ==
    ASSUME TypeOK, [Next]_vars, NEW w \in Workers, pc'[w] # "idle"
    PROVE  \/ pc[w] # "idle" /\ job'[w] = job[w]
           \/ \E c \in Conns, u \in Users :
                HandleLogin(c, w, u) /\ job'[w] = [conn |-> c, user |-> u]
  <1> USE DEF TypeOK
  <1>1. CASE UNCHANGED <<pc, job>>
    BY <1>1
  <1>2. ASSUME NEW c \in Conns, NEW v \in Workers, NEW u \in Users, HandleLogin(c, v, u)
        PROVE  \/ pc[w] # "idle" /\ job'[w] = job[w]
               \/ HandleLogin(c, w, u) /\ job'[w] = [conn |-> c, user |-> u]
    BY <1>2 DEF HandleLogin
  <1>3. ASSUME NEW v \in Workers, AcquireSlot(v) \/ LoginStep(v)
        PROVE  pc[w] # "idle" /\ job'[w] = job[w]
    <2>1. CASE LoginFails(v) \/ LoginInUse(v) \/ SetState(v)
      BY <2>1 DEF LoginFails, LoginInUse, SetState, Return, Goto
    <2>2. CASE LoginReserves(v) \/ LoginTakesOver(v)
      BY <2>2 DEF LoginReserves, LoginTakesOver, Admit, Authenticated, Goto
    <2>3. CASE \/ AcquireSlot(v) \/ KickLookup(v) \/ KickAccount(v) \/ KickFromGame(v)
               \/ RegisterSession(v) \/ SetAccountID(v) \/ SetAccount(v)
      BY <2>3 DEF AcquireSlot, KickLookup, KickAccount, KickFromGame, RegisterSession,
                  SetAccountID, SetAccount, Goto
    <2> QED BY <1>3, <2>1, <2>2, <2>3 DEF LoginStep
  <1>4. ASSUME NEW c \in Conns, ConnNext(c),
               ~\E v \in Workers, u \in Users : HandleLogin(c, v, u)
        PROVE  UNCHANGED <<pc, job>>
    BY <1>4
       DEF ConnNext, OnOpen, OnOpenRefused, OnClose, PacketError, AuthGG, RefusePacket,
           AuthGGWrongSession, HandleLoginRefused, GameServerLoginRefused,
           HandleServerList, HandleServerListDenied, workerVars
  <1>5. ASSUME \/ OnCloseUnregister
               \/ \E T \in SUBSET clients : OnTick(T)
               \/ \E u \in Users : SessionDropped(u) \/ \E s \in ServerIDs : PlayerInGame(u, s)
               \/ TimePasses
               \/ UNCHANGED vars
        PROVE  UNCHANGED <<pc, job>>
    BY <1>5 DEF OnCloseUnregister, OnTick, SessionDropped, PlayerInGame, TimePasses,
                vars, workerVars
  <1> QED BY <1>1, <1>2, <1>3, <1>4, <1>5 DEF Next

\* The map, the kicked clients and the client being closed stay apart, and
\* none of them has a connection that was never opened.
LEMMA ListingStep ==
    TypeOK /\ NewIsUnknown /\ ClosingIsUnlisted /\ [Next]_vars
       => NewIsUnknown' /\ ClosingIsUnlisted'
  <1> SUFFICES ASSUME TypeOK, NewIsUnknown, ClosingIsUnlisted, [Next]_vars
               PROVE  NewIsUnknown' /\ ClosingIsUnlisted'
    OBVIOUS
  <1> USE DEF TypeOK
  <1>1. ASSUME NEW c \in Conns, tcp'[c] = "new"
        PROVE  c \notin clients' \cup kicked'
    <2>1. tcp[c] = "new" /\ c \notin clients \cup kicked
      BY <1>1, TcpFrame DEF NewIsUnknown
    <2> QED
      BY <1>1, <2>1, ClientsFrame
         DEF OnOpen, OnClose, OnCloseUnregister, OnTick, KickAccount, LoggedInAs, history
  <1>2. ASSUME NEW c \in Conns, tcp'[c] = "new"
        PROVE  account'[c] = NoUser
    <2>1. tcp[c] = "new" /\ account[c] = NoUser
      BY <1>2, TcpFrame DEF NewIsUnknown
    <2>2. ASSUME NEW w \in Workers, SetAccountID(w) \/ SetAccount(w)
          PROVE  account'[c] = account[c]
      BY <2>1, <2>2 DEF SetAccountID, SetAccount, NewIsUnknown
    <2> QED BY <2>1, <2>2, IdentityFrame
  <1>3. ASSUME NEW c \in Conns, tcp'[c] = "new", NEW w \in Workers, pc'[w] # "idle"
        PROVE  job'[w].conn # c
    <2>1. tcp[c] = "new"
      BY <1>3, TcpFrame
    <2>2. CASE pc[w] # "idle" /\ job'[w] = job[w]
      BY <2>1, <2>2 DEF NewIsUnknown
    <2>3. ASSUME NEW d \in Conns, NEW u \in Users,
                 HandleLogin(d, w, u), job'[w] = [conn |-> d, user |-> u]
          PROVE  job'[w].conn # c
      BY <2>1, <2>3 DEF HandleLogin, Receiving
    <2> QED BY <1>3, <2>2, <2>3, JobFrame
  <1>4. clients' \cap kicked' = {}
    BY ClientsFrame
       DEF ClosingIsUnlisted, NewIsUnknown, OnOpen, OnClose, OnCloseUnregister, OnTick,
           KickAccount, LoggedInAs, history
  <1>5. ASSUME clientMu' # Unlocked
        PROVE  tcp'[clientMu'.conn] = "closed" /\ clientMu'.conn \notin clients' \cup kicked'
    <2>1. CASE clientMu' = clientMu
      <3>1. clientMu.conn \in Conns /\ tcp[clientMu.conn] = "closed"
        BY <1>5, <2>1 DEF ClosingIsUnlisted, Unregistering
      <3>2. tcp'[clientMu.conn] = "closed"
        BY <3>1, TcpFrame
      <3>3. clientMu.conn \notin clients \cup kicked
        BY <1>5, <2>1 DEF ClosingIsUnlisted
      <3>4. clientMu.conn \notin clients' \cup kicked'
        BY <1>5, <2>1, <3>1, <3>3, ClientsFrame
           DEF OnOpen, OnClose, OnCloseUnregister, OnTick, KickAccount, LoggedInAs, history
      <3> QED BY <2>1, <3>2, <3>4
    <2>2. ASSUME NEW c \in Conns, OnClose(c), clientMu' # clientMu
          PROVE  tcp'[clientMu'.conn] = "closed" /\ clientMu'.conn \notin clients' \cup kicked'
      <3>1. c \in clients /\ clientMu' = [conn |-> c, user |-> account[c]]
        BY <2>2 DEF OnClose
      <3> QED BY <2>2, <3>1 DEF OnClose, ClosingIsUnlisted, history
    <2> QED
      BY <1>5, <2>1, <2>2, ClientsFrame
         DEF OnOpen, OnCloseUnregister, OnTick, KickAccount
  <1> QED BY <1>1, <1>2, <1>3, <1>4, <1>5 DEF NewIsUnknown, ClosingIsUnlisted
----
(***************************************************************************)
(* One client per user.                                                    *)
(***************************************************************************)

\* Steps of the registry that leave presence, owner and server of an entry.
LEMMA EntryKept ==
    ASSUME RegistryTypeOK, NEW v \in Users,
           \/ \E u \in Users : TryPending(u) \/ TryTakeOver(u) \/ TryReject(u)
           \/ Elapse
           \/ UNCHANGED active
    PROVE  /\ HasSession(v)' <=> HasSession(v)
           /\ HasSession(v) => active'[v].id = active[v].id
                               /\ active'[v].server = active[v].server
  <1>1. ASSUME NEW u \in Users, TryPending(u) \/ TryTakeOver(u) \/ TryReject(u)
        PROVE  /\ HasSession(v)' <=> HasSession(v)
               /\ HasSession(v) => active'[v].id = active[v].id
                                   /\ active'[v].server = active[v].server
    <2>1. active[u] \in SessionInfo
      BY <1>1, EntryIsRecord DEF TryPending, TryTakeOver, TryReject, Pending
    <2>2. CASE active' = active
      BY <2>2 DEF HasSession
    <2>3. ASSUME NEW r \in BOOLEAN, active' = [active EXCEPT ![u].rejected = r]
          PROVE  /\ HasSession(v)' <=> HasSession(v)
                 /\ HasSession(v) => active'[v].id = active[v].id
                                     /\ active'[v].server = active[v].server
      <3>1. CASE v # u
        BY <2>3, <3>1 DEF RegistryTypeOK, HasSession
      <3>2. CASE v = u
        <4>1. active'[v] = [active[u] EXCEPT !.rejected = r]
          BY <2>3, <3>2 DEF RegistryTypeOK
        <4>2. /\ active'[v] \in SessionInfo
              /\ active'[v].id = active[v].id
              /\ active'[v].server = active[v].server
          BY <2>1, <3>2, <4>1 DEF SessionInfo
        <4> QED BY <2>1, <3>2, <4>2, NoSessionAssumption DEF HasSession
      <3> QED BY <3>1, <3>2
    <2> QED BY <1>1, <2>2, <2>3 DEF TryPending, TryTakeOver, TryReject
  <1>2. ASSUME Elapse
        PROVE  /\ HasSession(v)' <=> HasSession(v)
               /\ HasSession(v) => active'[v].id = active[v].id
                                   /\ active'[v].server = active[v].server
    <2>1. PICK F \in SUBSET {x \in Users : HasSession(x) /\ active[x].fresh},
               R \in SUBSET {x \in Users : HasSession(x) /\ active[x].rejected} :
             active' = [x \in Users |->
                          IF ~HasSession(x) THEN NoSession
                          ELSE [id |-> active[x].id, server |-> active[x].server,
                                 fresh |-> active[x].fresh /\ x \notin F,
                                 rejected |-> active[x].rejected /\ x \notin R]]
      BY <1>2 DEF Elapse
    <2>2. CASE ~HasSession(v)
      BY <2>1, <2>2 DEF HasSession
    <2>3. CASE HasSession(v)
      <3>1. active[v] \in SessionInfo
        BY <2>3, EntryIsRecord
      <3>2. active'[v] = [id |-> active[v].id, server |-> active[v].server,
                           fresh |-> active[v].fresh /\ v \notin F,
                           rejected |-> active[v].rejected /\ v \notin R]
        BY <2>1, <2>3
      <3>3. /\ active'[v] \in SessionInfo
            /\ active'[v].id = active[v].id
            /\ active'[v].server = active[v].server
        BY <3>1, <3>2 DEF SessionInfo
      <3> QED BY <2>3, <3>3, NoSessionAssumption DEF HasSession
    <2> QED BY <2>2, <2>3
  <1>3. ASSUME UNCHANGED active
        PROVE  /\ HasSession(v)' <=> HasSession(v)
               /\ HasSession(v) => active'[v].id = active[v].id
                                   /\ active'[v].server = active[v].server
    BY <1>3 DEF HasSession
  <1> QED BY <1>1, <1>2, <1>3

\* A step that admits nobody, logs nobody in and leaves the session of every
\* listed client alone keeps OneAdmittedFor.
LEMMA QuietStep ==
    ASSUME NEW u \in Users, OneAdmittedFor(u),
           \A w \in Admitted(u)' : w \in Admitted(u) /\ pc'[w] = pc[w] /\ job'[w] = job[w],
           \A c \in LoggedInAs(u)' : c \in LoggedInAs(u) /\ c \in clients',
           \A w \in Admitted(u)' : job[w].conn \in clients' => job[w].conn \in clients,
           HasSession(u)' => active'[u].server = 0,
           \A c \in clients' : HasSession(u) /\ active[u].id = c =>
                                  HasSession(u)' /\ active'[u].id = c
    PROVE  OneAdmittedFor(u)'
  <1>1. ASSUME NEW v \in Admitted(u)', NEW w \in Admitted(u)' PROVE v = w
    BY <1>1 DEF OneAdmittedFor
  <1>2. ASSUME NEW w \in Admitted(u)'
        PROVE  /\ pc'[w] # "kickGS"
               /\ pc'[w] \in {"register", "setID", "setAccount"} => LoggedInAs(u)' = {}
               /\ pc'[w] \in {"setID", "setAccount"} /\ job'[w].conn \in clients' =>
                     HasSession(u)' /\ active'[u].id = job'[w].conn
    <2>1. w \in Admitted(u) /\ pc'[w] = pc[w] /\ job'[w] = job[w]
      BY <1>2
    <2>2. /\ pc[w] # "kickGS"
          /\ pc[w] \in {"register", "setID", "setAccount"} => LoggedInAs(u) = {}
          /\ pc[w] \in {"setID", "setAccount"} /\ job[w].conn \in clients =>
                HasSession(u) /\ active[u].id = job[w].conn
      BY <2>1 DEF OneAdmittedFor
    <2> QED BY <1>2, <2>1, <2>2
  <1>3. ASSUME NEW c \in LoggedInAs(u)' PROVE HasSession(u)' /\ active'[u].id = c
    BY <1>3 DEF OneAdmittedFor
  <1> QED BY <1>1, <1>2, <1>3 DEF OneAdmittedFor

\* Once disturbed, a user stays disturbed.
LEMMA UndisturbedFrame == ASSUME TypeOK, [Next]_vars PROVE Undisturbed' \subseteq Undisturbed
  <1>1. ASSUME NEW c \in Conns, ConnNext(c) PROVE Undisturbed' \subseteq Undisturbed
    BY <1>1
       DEF ConnNext, OnOpen, OnOpenRefused, OnClose, PacketError, AuthGG, RefusePacket,
           AuthGGWrongSession, HandleLoginRefused, GameServerLoginRefused, HandleLogin,
           HandleServerList, HandleServerListDenied, history, Undisturbed
  <1>2. ASSUME NEW w \in Workers, AcquireSlot(w) \/ LoginStep(w)
        PROVE  Undisturbed' \subseteq Undisturbed
    BY <1>2
       DEF AcquireSlot, LoginStep, LoginFails, LoginReserves, LoginTakesOver, LoginInUse,
           Admit, KickLookup, KickAccount, KickFromGame, RegisterSession, SetAccountID,
           SetAccount, SetState, history, Undisturbed
  <1> QED
    BY <1>1, <1>2
       DEF Next, OnCloseUnregister, OnTick, SessionDropped, PlayerInGame, TimePasses,
           vars, history, Undisturbed

\* Connection steps: packets change nothing that matters here, a close or a
\* timeout only shortens the map, and a new connection has no account.
LEMMA OneAdmittedConn ==
    ASSUME TypeOK, NewIsUnknown, NEW u \in Users, OneAdmittedFor(u),
           (\E c \in Conns : ConnNext(c)) \/ (\E T \in SUBSET clients : OnTick(T))
    PROVE  OneAdmittedFor(u)'
  <1> USE DEF TypeOK
  <1>1. /\ UNCHANGED <<active, account>>
        /\ clients' \subseteq clients \/ \E c \in Conns : OnOpen(c)
    BY DEF ConnNext, OnOpen, OnOpenRefused, OnClose, PacketError, AuthGG, RefusePacket,
           AuthGGWrongSession, HandleLoginRefused, GameServerLoginRefused, HandleLogin,
           HandleServerList, HandleServerListDenied, OnTick, connVars
  <1>2. \A w \in Admitted(u)' : w \in Admitted(u) /\ pc'[w] = pc[w] /\ job'[w] = job[w]
    <2>1. CASE UNCHANGED <<pc, job>>
      BY <2>1 DEF Admitted
    <2>2. ASSUME NEW c \in Conns, NEW v \in Workers, NEW x \in Users, HandleLogin(c, v, x)
          PROVE  \A w \in Admitted(u)' : w \in Admitted(u) /\ pc'[w] = pc[w] /\ job'[w] = job[w]
      BY <2>2 DEF HandleLogin, Admitted
    <2> QED
      BY <2>1, <2>2
         DEF ConnNext, OnOpen, OnOpenRefused, OnClose, PacketError, AuthGG, RefusePacket,
             AuthGGWrongSession, HandleLoginRefused, GameServerLoginRefused,
             HandleServerList, HandleServerListDenied, OnTick, workerVars
  <1>3. \A c \in LoggedInAs(u)' : c \in LoggedInAs(u) /\ c \in clients'
    <2>1. CASE clients' \subseteq clients
      BY <1>1, <2>1 DEF LoggedInAs
    <2>2. ASSUME NEW c \in Conns, OnOpen(c)
          PROVE  \A d \in LoggedInAs(u)' : d \in LoggedInAs(u) /\ d \in clients'
      <3>1. account[c] = NoUser
        BY <2>2 DEF OnOpen, NewIsUnknown
      <3> QED BY <1>1, <2>2, <3>1, NoUserAssumption DEF OnOpen, LoggedInAs
    <2> QED BY <1>1, <2>1, <2>2
  <1>4. \A w \in Admitted(u)' : job[w].conn \in clients' => job[w].conn \in clients
    <2>1. CASE clients' \subseteq clients
      BY <2>1
    <2>2. ASSUME NEW c \in Conns, OnOpen(c)
          PROVE  \A w \in Admitted(u)' : job[w].conn \in clients' => job[w].conn \in clients
      BY <1>2, <2>2 DEF OnOpen, NewIsUnknown, Admitted
    <2> QED BY <1>1, <2>1, <2>2
  <1>5. HasSession(u)' <=> HasSession(u)
    BY <1>1 DEF HasSession
  <1> QED BY <1>1, <1>2, <1>3, <1>4, <1>5, QuietStep DEF OneAdmittedFor

\* OnClose removes a session only of a client that has left the map.
LEMMA OneAdmittedUnregister ==
    ASSUME TypeOK, ClosingIsUnlisted, NEW u \in Users, OneAdmittedFor(u), OnCloseUnregister
    PROVE  OneAdmittedFor(u)'
  <1> USE DEF TypeOK, OnCloseUnregister
  <1>1. \A w \in Admitted(u)' : w \in Admitted(u) /\ pc'[w] = pc[w] /\ job'[w] = job[w]
    BY DEF Admitted, workerVars
  <1>2. LoggedInAs(u)' = LoggedInAs(u) /\ \A c \in LoggedInAs(u)' : c \in clients'
    BY DEF LoggedInAs
  <1>3. clientMu.conn \notin clients
    BY DEF ClosingIsUnlisted
  <1>4. \A c \in clients' : HasSession(u) /\ active[u].id = c =>
                               HasSession(u)' /\ active'[u].id = c
    BY <1>3 DEF Unregister, RegistryTypeOK, HasSession
  <1>5. HasSession(u)' => active'[u].server = 0
    BY DEF Unregister, RegistryTypeOK, HasSession, OneAdmittedFor
  <1> QED BY <1>1, <1>2, <1>4, <1>5, QuietStep

\* A worker's step outside the admitted part of processLogin.
LEMMA OneAdmittedOutside ==
    ASSUME TypeOK, NEW u \in Users, OneAdmittedFor(u), NEW w \in Workers,
           \/ AcquireSlot(w) \/ LoginFails(w) \/ LoginInUse(w) \/ SetState(w)
    PROVE  OneAdmittedFor(u)'
  <1> USE DEF TypeOK
  <1>1. \A v \in Admitted(u)' : v \in Admitted(u) /\ pc'[v] = pc[v] /\ job'[v] = job[v]
    BY DEF AcquireSlot, LoginFails, LoginInUse, Authenticated, SetState, Return, Goto, Admitted
  <1>2. UNCHANGED <<clients, account>>
    BY DEF AcquireSlot, LoginFails, LoginInUse, SetState, connVars
  <1>3. /\ HasSession(u)' <=> HasSession(u)
        /\ HasSession(u) => active'[u].id = active[u].id /\ active'[u].server = active[u].server
    <2>1. job[w].user \in Users
      BY DEF AcquireSlot, LoginFails, LoginInUse, Authenticated, SetState
    <2> QED BY <2>1, EntryKept DEF AcquireSlot, LoginFails, LoginInUse, SetState
  <1>4. LoggedInAs(u)' = LoggedInAs(u) /\ \A c \in LoggedInAs(u)' : c \in clients'
    BY <1>2 DEF LoggedInAs
  <1> QED BY <1>1, <1>2, <1>3, <1>4, QuietStep DEF OneAdmittedFor

\* TryRegister admits a login: it is the only one of its user, or the user
\* is disturbed from here on.
LEMMA OneAdmittedAdmit ==
    ASSUME TypeOK, NEW u \in Users, u \in Undisturbed', OneAdmittedFor(u), NEW w \in Workers,
           LoginReserves(w) \/ LoginTakesOver(w)
    PROVE  OneAdmittedFor(u)'
  <1> USE DEF TypeOK
  <1>1. /\ pc[w] = "auth" /\ job[w].user \in Users
        /\ UNCHANGED <<clients, account, job>>
        /\ \A v \in Workers \ {w} : pc'[v] = pc[v]
    BY DEF LoginReserves, LoginTakesOver, Admit, Authenticated, Goto, connVars
  <1>2. LoggedInAs(u)' = LoggedInAs(u)
    BY <1>1 DEF LoggedInAs
  <1>3. CASE u # job[w].user
    <2>1. \A v \in Admitted(u)' : v \in Admitted(u) /\ pc'[v] = pc[v] /\ job'[v] = job[v]
      BY <1>1, <1>3 DEF Admitted
    <2>2. active'[u] = active[u]
      BY <1>1, <1>3 DEF LoginReserves, LoginTakesOver, TryReserve, TryTakeOver, RegistryTypeOK
    <2>3. \A c \in LoggedInAs(u)' : c \in LoggedInAs(u) /\ c \in clients'
      BY <1>2 DEF LoggedInAs
    <2> QED BY <1>1, <2>1, <2>2, <2>3, QuietStep DEF OneAdmittedFor, HasSession
  <1>4. CASE u = job[w].user
    <2>1. Admitted(u) = {}
      BY <1>4 DEF LoginReserves, LoginTakesOver, Admit, Undisturbed
    <2>2. \A v \in Admitted(u)' : v = w
      BY <1>1, <2>1 DEF Admitted
    <2>3. CASE LoginReserves(w)
      <3>1. LoggedInAs(u) = {}
        BY <1>4, <2>3 DEF LoginReserves, TryReserve, OneAdmittedFor
      <3>2. pc'[w] = "register"
        BY <2>3 DEF LoginReserves, Admit, Goto
      <3>3. active'[u] = Reservation
        BY <1>4, <2>3 DEF LoginReserves, TryReserve, RegistryTypeOK
      <3> QED BY <1>2, <2>2, <3>1, <3>2, <3>3 DEF OneAdmittedFor, Reservation
    <2>4. CASE LoginTakesOver(w)
      <3>1. pc'[w] = "kick"
        BY <2>4 DEF LoginTakesOver, Admit, Goto
      <3>2. /\ HasSession(u)' <=> HasSession(u)
            /\ HasSession(u) => active'[u].id = active[u].id
                                /\ active'[u].server = active[u].server
        BY <1>1, <2>4, EntryKept DEF LoginTakesOver
      <3> QED BY <1>2, <2>2, <3>1, <3>2 DEF OneAdmittedFor
    <2> QED BY <2>3, <2>4
  <1> QED BY <1>3, <1>4

\* The kick: the session of an undisturbed user is on the login server, so
\* KickAccount is called, and the only client logged in is the one it finds.
LEMMA OneAdmittedKick ==
    ASSUME TypeOK, NEW u \in Users, OneAdmittedFor(u), NEW w \in Workers,
           KickLookup(w) \/ KickAccount(w) \/ KickFromGame(w)
    PROVE  OneAdmittedFor(u)'
  <1> USE DEF TypeOK
  <1>1. /\ UNCHANGED <<active, account, job>>
        /\ \A v \in Workers \ {w} : pc'[v] = pc[v]
        /\ pc[w] \in {"kick", "kickLS", "kickGS"}
        /\ job[w].user \in Users
        /\ clients' \subseteq clients
    BY DEF KickLookup, KickAccount, KickFromGame, Goto, connVars
  <1>2. HasSession(u)' <=> HasSession(u)
    BY <1>1 DEF HasSession
  <1>3. LoggedInAs(u)' \subseteq LoggedInAs(u)
    BY <1>1 DEF LoggedInAs
  <1>4. CASE u # job[w].user
    <2>1. \A v \in Admitted(u)' : v \in Admitted(u) /\ pc'[v] = pc[v] /\ job'[v] = job[v]
      BY <1>1, <1>4 DEF Admitted
    <2>2. \A c \in LoggedInAs(u)' : c \in LoggedInAs(u) /\ c \in clients'
      BY <1>3 DEF LoggedInAs
    <2> QED BY <1>1, <1>2, <2>1, <2>2, QuietStep DEF OneAdmittedFor
  <1>5. CASE u = job[w].user
    <2>1. w \in Admitted(u)
      BY <1>1, <1>5 DEF Admitted
    <2>2. \A v \in Admitted(u)' : v = w
      BY <1>1, <2>1 DEF Admitted, OneAdmittedFor
    <2>3. CASE KickLookup(w)
      <3>1. CASE pc'[w] = "kickLS"
        BY <1>1, <1>2, <1>3, <2>2, <3>1 DEF OneAdmittedFor
      <3>2. CASE pc'[w] = "register" /\ ~HasSession(u)
        BY <1>1, <1>2, <1>3, <2>2, <3>2 DEF OneAdmittedFor
      <3> QED BY <1>5, <2>3, <3>1, <3>2 DEF KickLookup, Goto, OneAdmittedFor
    <2>4. CASE KickAccount(w)
      <3>1. LoggedInAs(u)' = {}
        BY <1>1, <1>5, <2>4 DEF KickAccount, LoggedInAs, OneAdmittedFor
      <3>2. pc'[w] = "register"
        BY <2>4 DEF KickAccount, Goto
      <3> QED BY <1>1, <1>2, <2>2, <3>1, <3>2 DEF OneAdmittedFor
    <2>5. CASE KickFromGame(w)
      BY <2>1, <2>5 DEF KickFromGame, OneAdmittedFor
    <2> QED BY <2>3, <2>4, <2>5
  <1> QED BY <1>4, <1>5

\* Register and the publication of the account, after the kick.
LEMMA OneAdmittedPublish ==
    ASSUME TypeOK, NEW u \in Users, OneAdmittedFor(u), NEW w \in Workers,
           RegisterSession(w) \/ SetAccountID(w) \/ SetAccount(w)
    PROVE  OneAdmittedFor(u)'
  <1> USE DEF TypeOK
  <1>1. /\ UNCHANGED <<clients, job>>
        /\ \A v \in Workers \ {w} : pc'[v] = pc[v]
        /\ pc[w] \in {"register", "setID", "setAccount"}
        /\ job[w].user \in Users /\ job[w].conn \in Conns
    BY DEF RegisterSession, SetAccountID, SetAccount, Goto, connVars
  <1>2. CASE u # job[w].user
    <2>1. \A v \in Admitted(u)' : v \in Admitted(u) /\ pc'[v] = pc[v] /\ job'[v] = job[v]
      BY <1>1, <1>2 DEF Admitted
    <2>2. \A c \in LoggedInAs(u)' : c \in LoggedInAs(u) /\ c \in clients'
      BY <1>1, <1>2 DEF RegisterSession, SetAccountID, SetAccount, LoggedInAs, connVars
    <2>3. active'[u] = active[u]
      BY <1>1, <1>2 DEF RegisterSession, SetAccountID, SetAccount, Register, RegistryTypeOK
    <2> QED BY <1>1, <2>1, <2>2, <2>3, QuietStep DEF OneAdmittedFor, HasSession
  <1>3. CASE u = job[w].user
    <2>1. w \in Admitted(u)
      BY <1>1, <1>3 DEF Admitted
    <2>2. \A v \in Admitted(u)' : v = w
      BY <1>1, <2>1 DEF Admitted, OneAdmittedFor
    <2>3. LoggedInAs(u) = {}
      BY <1>1, <2>1 DEF OneAdmittedFor
    <2>4. CASE RegisterSession(w)
      <3>1. active'[u] = Session(job[w].conn) /\ pc'[w] = "setID"
        BY <1>3, <2>4 DEF RegisterSession, Register, RegistryTypeOK, Goto
      <3>2. HasSession(u)'
        BY <1>1, <3>1, NewEntries, NoSessionAssumption DEF HasSession, Conns
      <3>3. LoggedInAs(u)' = {}
        BY <2>3, <2>4 DEF RegisterSession, LoggedInAs, connVars
      <3> QED BY <1>1, <2>2, <3>1, <3>2, <3>3 DEF OneAdmittedFor, Session
    <2>5. CASE SetAccountID(w)
      <3>1. LoggedInAs(u)' = {} /\ pc'[w] = "setAccount"
        BY <2>3, <2>5 DEF SetAccountID, LoggedInAs, Goto
      <3>2. active' = active /\ pc[w] = "setID"
        BY <2>5 DEF SetAccountID
      <3> QED BY <1>1, <2>1, <2>2, <3>1, <3>2 DEF OneAdmittedFor, HasSession
    <2>6. CASE SetAccount(w)
      <3>1. Admitted(u)' = {}
        BY <2>2, <2>6 DEF SetAccount, Goto, Admitted
      <3>2. active' = active /\ pc[w] = "setAccount"
        BY <2>6 DEF SetAccount
      <3>3. \A c \in LoggedInAs(u)' : c = job[w].conn /\ c \in clients
        BY <2>3, <2>6 DEF SetAccount, LoggedInAs
      <3>4. job[w].conn \in clients => HasSession(u) /\ active[u].id = job[w].conn
        BY <2>1, <3>2 DEF OneAdmittedFor
      <3> QED BY <3>1, <3>2, <3>3, <3>4 DEF OneAdmittedFor, HasSession
    <2> QED BY <2>4, <2>5, <2>6
  <1> QED BY <1>2, <1>3

\* Time, and game servers that touch somebody else.
LEMMA OneAdmittedEnvironment ==
    ASSUME TypeOK, NEW u \in Users, u \in Undisturbed', OneAdmittedFor(u),
           \/ TimePasses
           \/ \E v \in Users : SessionDropped(v) \/ \E s \in ServerIDs : PlayerInGame(v, s)
           \/ UNCHANGED vars
    PROVE  OneAdmittedFor(u)'
  <1> USE DEF TypeOK
  <1>1. UNCHANGED <<clients, account, pc, job>>
    BY DEF TimePasses, SessionDropped, PlayerInGame, vars, connVars, workerVars
  <1>2. /\ HasSession(u)' <=> HasSession(u)
        /\ HasSession(u) => active'[u].id = active[u].id /\ active'[u].server = active[u].server
    <2>1. CASE TimePasses \/ UNCHANGED vars
      BY <2>1, EntryKept DEF TimePasses, vars
    <2>2. ASSUME NEW v \in Users,
                 SessionDropped(v) \/ \E s \in ServerIDs : PlayerInGame(v, s)
          PROVE  active'[u] = active[u]
      <3>1. u # v
        BY <2>2 DEF SessionDropped, PlayerInGame, Undisturbed
      <3> QED
        BY <2>2, <3>1 DEF SessionDropped, PlayerInGame, Unregister, SetGS, RegistryTypeOK
    <2> QED BY <2>1, <2>2 DEF HasSession
  <1>3. /\ \A w \in Admitted(u)' : w \in Admitted(u)
        /\ \A c \in LoggedInAs(u)' : c \in LoggedInAs(u) /\ c \in clients'
    BY <1>1 DEF Admitted, LoggedInAs
  <1> QED BY <1>1, <1>2, <1>3, QuietStep DEF OneAdmittedFor

\* Every step keeps OneAdmitted.
LEMMA OneAdmittedStep ==
    TypeOK /\ NewIsUnknown /\ ClosingIsUnlisted /\ OneAdmitted /\ [Next]_vars => OneAdmitted'
  <1> SUFFICES ASSUME TypeOK, NewIsUnknown, ClosingIsUnlisted, OneAdmitted, [Next]_vars,
                      NEW u \in Undisturbed'
               PROVE  OneAdmittedFor(u)'
    BY DEF OneAdmitted
  <1>1. u \in Users /\ OneAdmittedFor(u)
    BY UndisturbedFrame DEF OneAdmitted, Undisturbed
  <1>2. CASE (\E c \in Conns : ConnNext(c)) \/ (\E T \in SUBSET clients : OnTick(T))
    BY <1>1, <1>2, OneAdmittedConn
  <1>3. CASE OnCloseUnregister
    BY <1>1, <1>3, OneAdmittedUnregister
  <1>4. ASSUME NEW w \in Workers, AcquireSlot(w) \/ LoginStep(w) PROVE OneAdmittedFor(u)'
    BY <1>1, <1>4, OneAdmittedOutside, OneAdmittedAdmit, OneAdmittedKick, OneAdmittedPublish
       DEF LoginStep
  <1>5. CASE \/ TimePasses
             \/ \E v \in Users : SessionDropped(v) \/ \E s \in ServerIDs : PlayerInGame(v, s)
             \/ UNCHANGED vars
    BY <1>1, <1>5, OneAdmittedEnvironment
  <1> QED BY <1>2, <1>3, <1>4, <1>5 DEF Next

\* At most one client owns the session, so at most one is logged in.
LEMMA OneAdmittedGivesSingle == OneAdmitted => SingleLogin
  <1> SUFFICES ASSUME OneAdmitted, NEW u \in Undisturbed
               PROVE  Cardinality(LoggedInAs(u)) <= 1
    BY DEF SingleLogin, Undisturbed
  <1>1. \A c, d \in LoggedInAs(u) : c = d
    BY DEF OneAdmitted, OneAdmittedFor
  <1>2. CASE LoggedInAs(u) = {}
    BY <1>2, FS_EmptySet
  <1>3. CASE LoggedInAs(u) # {}
    <2>1. PICK c : LoggedInAs(u) = {c}
      BY <1>1, <1>3
    <2>2. Cardinality({c}) = 1
      BY FS_Singleton, Zenon
    <2> QED BY <2>1, <2>2
  <1> QED BY <1>2, <1>3

\* The connection parts of the invariant hold in every reachable state.
LEMMA Listing == Spec => [](NewIsUnknown /\ ClosingIsUnlisted)
  <1>1. Init => NewIsUnknown /\ ClosingIsUnlisted
    BY DEF Init, NewIsUnknown, ClosingIsUnlisted
  <1> QED BY <1>1, TypeCorrect, ListingStep, PTL DEF Spec

\* Logins of one user that do not overlap, and that no game server has
\* touched, leave at most one client logged in: TryRegister, KickAccount and
\* Register together do what they are for, with any number of connections.
THEOREM SingleLogins == Spec => []SingleLogin
  <1>1. ASSUME Init PROVE OneAdmitted
    <2> SUFFICES ASSUME NEW u \in Users PROVE OneAdmittedFor(u)
      BY DEF OneAdmitted, Undisturbed
    <2>1. Admitted(u) = {} /\ LoggedInAs(u) = {} /\ ~HasSession(u)
      BY <1>1 DEF Init, RegistryInit, Admitted, LoggedInAs, HasSession
    <2> QED BY <2>1 DEF OneAdmittedFor
  <1> QED BY <1>1, TypeCorrect, Listing, OneAdmittedStep, OneAdmittedGivesSingle, PTL DEF Spec
----
(***************************************************************************)
(* The clients map and the gauge.                                          *)
(***************************************************************************)

\* A connection leaves the map only together with a request to close it.
LEMMA OpenIsListedStep ==
    TypeOK /\ ClosingIsUnlisted /\ OpenIsListed /\ [Next]_vars => OpenIsListed'
  <1> SUFFICES ASSUME TypeOK, ClosingIsUnlisted, OpenIsListed, [Next]_vars,
                      NEW c \in Conns, tcp'[c] = "open"
               PROVE  c \in clients'
    BY DEF OpenIsListed
  <1> USE DEF TypeOK
  <1>1. CASE OnOpen(c)
    BY <1>1 DEF OnOpen
  <1>2. CASE tcp[c] = "open"
    <2>1. c \in clients
      BY <1>2 DEF OpenIsListed
    <2>2. ASSUME NEW d \in Conns, OnOpen(d) \/ OnClose(d) PROVE c \in clients'
      BY <2>1, <2>2 DEF OnOpen, OnClose
    <2>3. ASSUME NEW T \in SUBSET clients, OnTick(T) PROVE c \in clients'
      BY <2>1, <2>3, AfterCloseFacts DEF OnTick
    <2>4. ASSUME NEW w \in Workers, KickAccount(w) PROVE c \in clients'
      BY <2>1, <2>4, AfterCloseFacts DEF KickAccount, CloseAsync, LoggedInAs
    <2> QED BY <2>1, <2>2, <2>3, <2>4, ClientsFrame DEF OnCloseUnregister
  <1> QED BY <1>1, <1>2, TcpFrame

\* No client escapes both the idle timeout and KickAccount: what is not in
\* the map is on its way to be closed.
THEOREM OpenAreListed == Spec => []OpenIsListed
  <1>1. Init => OpenIsListed
    BY DEF Init, OpenIsListed
  <1> QED BY <1>1, TypeCorrect, Listing, OpenIsListedStep, PTL DEF Spec

\* Every step moves the gauge with the set that it counts.
LEMMA GaugeStep ==
    /\ TypeOK /\ NewIsUnknown /\ ClosingIsUnlisted
    /\ IsFiniteSet(Counted) /\ GaugeCounts /\ [Next]_vars
    => IsFiniteSet(Counted)' /\ GaugeCounts'
  <1> SUFFICES ASSUME TypeOK, NewIsUnknown, ClosingIsUnlisted,
                      IsFiniteSet(Counted), gauge = Cardinality(Counted), [Next]_vars
               PROVE  IsFiniteSet(Counted') /\ gauge' = Cardinality(Counted')
    BY DEF GaugeCounts
  <1> USE DEF TypeOK
  <1>1. CASE Counted' = Counted /\ gauge' = gauge
    BY <1>1
  <1>2. ASSUME NEW c \in Conns, OnOpen(c)
        PROVE  IsFiniteSet(Counted') /\ gauge' = Cardinality(Counted')
    <2>1. Counted' = Counted \cup {c} /\ c \notin Counted
      BY <1>2 DEF OnOpen, Counted, NewIsUnknown, ClosingIsUnlisted, history
    <2>2. gauge' = gauge + 1
      BY <1>2 DEF OnOpen
    <2> QED BY <2>1, <2>2, FS_AddElement
  <1>3. ASSUME NEW c, c \in Counted, Counted' = Counted \ {c}, gauge' = gauge - 1
        PROVE  IsFiniteSet(Counted') /\ gauge' = Cardinality(Counted')
    BY <1>3, FS_RemoveElement
  <1>4. ASSUME NEW c \in Conns, OnClose(c)
        PROVE  IsFiniteSet(Counted') /\ gauge' = Cardinality(Counted')
    <2>1. clientMu = Unlocked /\ kicked' = kicked /\ clients' = clients \ {c}
      BY <1>4 DEF OnClose, history
    <2>2. CASE c \notin clients
      BY <1>1, <1>4, <2>1, <2>2 DEF OnClose, Counted
    <2>3. CASE c \in clients /\ OwnsLoginSession(c)
      <3>1. clientMu' = [conn |-> c, user |-> account[c]] /\ gauge' = gauge
        BY <1>4, <2>3 DEF OnClose
      <3>2. clientMu' # Unlocked /\ clientMu'.conn = c
        BY <2>3, <3>1, UnlockedAssumption DEF Unregistering, OwnsLoginSession
      <3> QED BY <1>1, <2>1, <2>3, <3>1, <3>2 DEF Counted
    <2>4. CASE c \in clients /\ ~OwnsLoginSession(c)
      <3>1. clientMu' = clientMu /\ gauge' = gauge - 1
        BY <1>4, <2>4 DEF OnClose
      <3>2. Counted' = Counted \ {c} /\ c \in Counted
        BY <2>1, <2>4, <3>1 DEF Counted, ClosingIsUnlisted
      <3> QED BY <1>3, <3>1, <3>2
    <2> QED BY <2>2, <2>3, <2>4
  <1>5. CASE OnCloseUnregister
    <2>1. Counted' = Counted \ {clientMu.conn} /\ clientMu.conn \in Counted
      BY <1>5 DEF OnCloseUnregister, Counted, ClosingIsUnlisted, history
    <2> QED BY <1>3, <1>5, <2>1 DEF OnCloseUnregister
  <1>6. ASSUME NEW T \in SUBSET clients, OnTick(T)
        PROVE  IsFiniteSet(Counted') /\ gauge' = Cardinality(Counted')
    <2>1. Counted' = Counted \ T /\ Counted \cap T = T
      BY <1>6 DEF OnTick, Counted, ClosingIsUnlisted, history
    <2>2. gauge' = gauge - Cardinality(T)
      BY <1>6 DEF OnTick
    <2> QED BY <2>1, <2>2, FS_Difference
  <1>7. ASSUME NEW w \in Workers, KickAccount(w)
        PROVE  IsFiniteSet(Counted') /\ gauge' = Cardinality(Counted')
    BY <1>1, <1>7 DEF KickAccount, LoggedInAs, Counted
  <1>8. CASE UNCHANGED <<clients, kicked, clientMu, gauge>>
    BY <1>1, <1>8 DEF Counted
  <1> QED BY <1>2, <1>4, <1>5, <1>6, <1>7, <1>8, ClientsFrame

\* The gauge is exact but for the clients that KickAccount removed, which it
\* counts for ever: no other path, and no race between OnClose and OnTick,
\* counts a connection twice or not at all.
THEOREM GaugeIsExactButForKicks == Spec => []GaugeCounts
  <1>1. Init => IsFiniteSet(Counted) /\ GaugeCounts
    <2> SUFFICES ASSUME Init PROVE IsFiniteSet(Counted) /\ GaugeCounts
      OBVIOUS
    <2>1. Counted = {} /\ gauge = 0
      BY DEF Init, Counted
    <2> QED BY <2>1, FS_EmptySet DEF GaugeCounts
  <1> QED BY <1>1, TypeCorrect, Listing, GaugeStep, PTL DEF Spec
====
