---- MODULE SessionRegistryTimed_proofs ----
(***************************************************************************)
(* The registry with its clock implements SessionRegistry, for every       *)
(* number of users and every length of the two windows.                    *)
(***************************************************************************)
EXTENDS SessionRegistryTimed, TLAPS

USE WindowsAssumption, TimedServersAssumption, TimedReservedAssumption,
    TimedNoSessionAssumption

\* Every registry operation keeps the entries well formed.
LEMMA TimedTypeCorrect == Spec => []TypeOK
<1>1. Init => TypeOK
  BY DEF Init, TypeOK
<1>2. TypeOK /\ [Next]_vars => TypeOK'
  <2> SUFFICES ASSUME TypeOK, [Next]_vars PROVE TypeOK'
    OBVIOUS
  <2> USE DEF TypeOK, Entries
  <2>1. ASSUME NEW u \in Users, TryRegister(u) PROVE TypeOK'
    BY <2>1 DEF TryRegister, Has
  <2>2. ASSUME NEW u \in Users, NEW i \in SessionIDs, Register(u, i) PROVE TypeOK'
    BY <2>2 DEF Register
  <2>3. ASSUME NEW u \in Users, NEW i, Unregister(u, i) PROVE TypeOK'
    BY <2>3 DEF Unregister
  <2>4. ASSUME NEW u \in Users, NEW s \in ServerIDs, SetGS(u, s) PROVE TypeOK'
    BY <2>4 DEF SetGS
  <2>5. ASSUME NEW shard, NEW s, ClearShard(shard, s) PROVE TypeOK'
    BY <2>5 DEF ClearShard, Has
  <2>6. CASE Tick
    BY <2>6 DEF Tick
  <2>7. CASE UNCHANGED vars
    BY <2>7 DEF vars
  <2> QED
    BY <2>1, <2>2, <2>3, <2>4, <2>5, <2>6, <2>7 DEF Next
<1> QED
  BY <1>1, <1>2, PTL DEF Spec

\* A map of entries that changes at u only changes in its abstraction at u
\* only, as long as the clock stands still.
LEMMA AbstractUpdate ==
  ASSUME TypeOK, NEW u \in Users, NEW e,
         sessions' = [sessions EXCEPT ![u] = e], UNCHANGED now
  PROVE  activeBar' = [activeBar EXCEPT ![u] = Abstract(e)]
<1>1. \A v : Abstract(v)' = Abstract(v)
  BY DEF Abstract, InProgress, RefusedLately
<1>2. activeBar' = [v \in Users |-> Abstract(sessions'[v])]
  BY DEF activeBar, Abstract, InProgress, RefusedLately
<1> QED
  BY <1>2 DEF activeBar, TypeOK

\* The abstraction of an entry whose two windows are known.
LEMMA AbstractIs ==
  ASSUME NEW e \in Entries, NEW f \in BOOLEAN, NEW r \in BOOLEAN,
         InProgress(e) <=> f, RefusedLately(e) <=> r
  PROVE  Abstract(e) = [id |-> e.id, server |-> e.server, fresh |-> f, rejected |-> r]
<1>1. InProgress(e) \in BOOLEAN /\ RefusedLately(e) \in BOOLEAN
  BY Zenon DEF InProgress, RefusedLately
<1>2. InProgress(e) = f /\ RefusedLately(e) = r
  BY <1>1, Zenon
<1>3. e # NoSession
  BY Zenon
<1> QED
  BY <1>2, <1>3, Zenon DEF Abstract

\* Changing the refusal of an abstract entry.
LEMMA FlagUpdate ==
  ASSUME NEW i, NEW s, NEW f, NEW r, NEW x, NEW a, NEW b,
         a = [id |-> i, server |-> s, fresh |-> f, rejected |-> r],
         b = [id |-> i, server |-> s, fresh |-> f, rejected |-> x]
  PROVE  b = [a EXCEPT !.rejected = x]
OBVIOUS

\* TryRegister takes the abstract branch that its two windows select.
LEMMA TryRegisterRefines ==
  ASSUME TypeOK, NEW u \in Users, TryRegister(u)
  PROVE  Registry!TryRegister(u)
<1> DEFINE e == sessions[u]
<1> USE DEF TypeOK, Entries
<1>0. activeBar[u] = Abstract(e)
  BY DEF activeBar
<1>1. CASE ~Has(u)
  <2> DEFINE r == [id |-> Reserved, server |-> 0, loginTime |-> now, lastRejection |-> 0]
  <2>1. sessions' = [sessions EXCEPT ![u] = r] /\ UNCHANGED now
    BY <1>1 DEF TryRegister
  <2>2. activeBar' = [activeBar EXCEPT ![u] = Abstract(r)]
    BY <2>1, AbstractUpdate
  <2>3. r \in Entries
    OBVIOUS
  <2>4. r # NoSession
    BY <2>3
  <2>a. InProgress(r) /\ ~RefusedLately(r)
    BY DEF InProgress, RefusedLately
  <2>b. Abstract(r) = [id |-> r.id, server |-> r.server, fresh |-> TRUE, rejected |-> FALSE]
    BY <2>3, <2>a, AbstractIs, Zenon
  <2>5. Abstract(r) = Registry!Reservation
    BY <2>b DEF Registry!Reservation
  <2>6. activeBar[u] = NoSession
    BY <1>0, <1>1 DEF Abstract, Has
  <2> QED
    BY <2>2, <2>5, <2>6 DEF Registry!TryRegister, Registry!TryReserve, Registry!HasSession
<1>2. CASE Has(u)
  <2>0. /\ e \in Entries
        /\ e # NoSession
        /\ Abstract(e) = [id |-> e.id, server |-> e.server,
                          fresh |-> InProgress(e), rejected |-> RefusedLately(e)]
    BY <1>2 DEF Has, Abstract
  <2>a. Abstract(e) \in AbstractEntries
    BY <2>0 DEF AbstractEntries, InProgress, RefusedLately
  <2>b. Abstract(e) # NoSession
    BY <2>a
  <2>d. activeBar[u].id = e.id
    BY <1>0, <2>0
  <2>e. activeBar[u].fresh = InProgress(e) /\ activeBar[u].rejected = RefusedLately(e)
    BY <1>0, <2>0
  <2>c. /\ Registry!HasSession(u)
        /\ Registry!Pending(u) <=> InProgress(e)
        /\ activeBar[u].rejected = RefusedLately(e)
    BY <1>0, <2>b, <2>d, <2>e, Zenon DEF Registry!HasSession, Registry!Pending, InProgress
  <2>1. CASE InProgress(e)
    <3>1. UNCHANGED <<sessions, now>>
      BY <1>2, <2>1 DEF TryRegister
    <3>2. UNCHANGED activeBar
      BY <3>1 DEF activeBar, Abstract, InProgress, RefusedLately
    <3> QED
      BY <2>1, <2>c, <3>2 DEF Registry!TryRegister, Registry!TryPending
  <2>2. CASE ~InProgress(e) /\ RefusedLately(e)
    <3> DEFINE f == [e EXCEPT !.lastRejection = 0]
    <3>1. sessions' = [sessions EXCEPT ![u] = f] /\ UNCHANGED now
      BY <1>2, <2>2 DEF TryRegister
    <3>2. activeBar' = [activeBar EXCEPT ![u] = Abstract(f)]
      BY <3>1, AbstractUpdate
    <3>3. f \in Entries
      BY <2>0
    <3>4. f # NoSession
      BY <3>3
    <3>a. ~InProgress(f) /\ ~RefusedLately(f)
      BY <2>2, <2>0 DEF InProgress, RefusedLately
    <3>b. Abstract(f) = [id |-> f.id, server |-> f.server, fresh |-> FALSE, rejected |-> FALSE]
      BY <3>3, <3>a, AbstractIs, Zenon
    <3>c. Abstract(e) = [id |-> e.id, server |-> e.server, fresh |-> FALSE, rejected |-> TRUE]
      BY <2>0, <2>2, AbstractIs, Zenon
    <3>d. f.id = e.id /\ f.server = e.server
      BY <2>0
    <3>e. Abstract(f) = [id |-> e.id, server |-> e.server, fresh |-> FALSE, rejected |-> FALSE]
      BY <3>b, <3>d, Zenon
    <3>5. Abstract(f) = [Abstract(e) EXCEPT !.rejected = FALSE]
      <4> DEFINE a == Abstract(e)  b == Abstract(f)  f0 == FALSE  r == TRUE  x == FALSE
      <4>1. a = [id |-> e.id, server |-> e.server, fresh |-> f0, rejected |-> r]
        BY <3>c
      <4>2. b = [id |-> e.id, server |-> e.server, fresh |-> f0, rejected |-> x]
        BY <3>e
      <4> HIDE DEF a, b, f0, r, x
      <4>3. b = [a EXCEPT !.rejected = x]
        BY <4>1, <4>2, FlagUpdate
      <4> QED
        BY <4>3 DEF a, b, x
    <3> QED
      BY <2>2, <2>c, <1>0, <3>2, <3>5 DEF Registry!TryRegister, Registry!TryTakeOver
  <2>3. CASE ~InProgress(e) /\ ~RefusedLately(e)
    <3> DEFINE f == [e EXCEPT !.lastRejection = now]
    <3>1. sessions' = [sessions EXCEPT ![u] = f] /\ UNCHANGED now
      BY <1>2, <2>3 DEF TryRegister
    <3>2. activeBar' = [activeBar EXCEPT ![u] = Abstract(f)]
      BY <3>1, AbstractUpdate
    <3>3. f \in Entries
      BY <2>0
    <3>4. f # NoSession
      BY <3>3
    <3>a. ~InProgress(f) /\ RefusedLately(f)
      BY <2>3, <2>0 DEF InProgress, RefusedLately
    <3>b. Abstract(f) = [id |-> f.id, server |-> f.server, fresh |-> FALSE, rejected |-> TRUE]
      BY <3>3, <3>a, AbstractIs, Zenon
    <3>c. Abstract(e) = [id |-> e.id, server |-> e.server, fresh |-> FALSE, rejected |-> FALSE]
      BY <2>0, <2>3, AbstractIs, Zenon
    <3>d. f.id = e.id /\ f.server = e.server
      BY <2>0
    <3>e. Abstract(f) = [id |-> e.id, server |-> e.server, fresh |-> FALSE, rejected |-> TRUE]
      BY <3>b, <3>d, Zenon
    <3>5. Abstract(f) = [Abstract(e) EXCEPT !.rejected = TRUE]
      <4> DEFINE a == Abstract(e)  b == Abstract(f)  f0 == FALSE  r == FALSE  x == TRUE
      <4>1. a = [id |-> e.id, server |-> e.server, fresh |-> f0, rejected |-> r]
        BY <3>c
      <4>2. b = [id |-> e.id, server |-> e.server, fresh |-> f0, rejected |-> x]
        BY <3>e
      <4> HIDE DEF a, b, f0, r, x
      <4>3. b = [a EXCEPT !.rejected = x]
        BY <4>1, <4>2, FlagUpdate
      <4> QED
        BY <4>3 DEF a, b, x
    <3> QED
      BY <2>3, <2>c, <1>0, <3>2, <3>5 DEF Registry!TryRegister, Registry!TryReject
  <2> QED
    BY <2>1, <2>2, <2>3
<1> QED
  BY <1>1, <1>2

\* An entry is in the map exactly when its abstraction is.
LEMMA AbstractEntry ==
  ASSUME TypeOK, NEW u \in Users
  PROVE  /\ activeBar[u] = Abstract(sessions[u])
         /\ activeBar[u] = NoSession <=> sessions[u] = NoSession
         /\ sessions[u] # NoSession =>
              /\ activeBar[u].id = sessions[u].id
              /\ activeBar[u].server = sessions[u].server
              /\ activeBar[u].fresh = InProgress(sessions[u])
              /\ activeBar[u].rejected = RefusedLately(sessions[u])
<1>1. activeBar[u] = Abstract(sessions[u])
  BY DEF activeBar
<1>2. ASSUME sessions[u] # NoSession PROVE Abstract(sessions[u]) \in AbstractEntries
  <2>1. sessions[u] \in Entries
    BY <1>2 DEF TypeOK
  <2> QED
    BY <2>1, <1>2 DEF Abstract, Entries, AbstractEntries, InProgress, RefusedLately
<1> QED
  BY <1>1, <1>2 DEF Abstract

\* The other operations do not look at the time stamps.
LEMMA RegisterRefines ==
  ASSUME TypeOK, NEW u \in Users, NEW i \in SessionIDs, Register(u, i)
  PROVE  Registry!Register(u, i)
<1> DEFINE r == [id |-> i, server |-> 0, loginTime |-> now, lastRejection |-> 0]
<1>1. activeBar' = [activeBar EXCEPT ![u] = Abstract(r)]
  BY AbstractUpdate DEF Register
<1>2. r \in Entries
  BY DEF TypeOK, Entries
<1>3. Abstract(r) = Registry!Session(i)
  BY <1>2 DEF Abstract, InProgress, RefusedLately, Registry!Session
<1> QED
  BY <1>1, <1>3 DEF Registry!Register

LEMMA UnregisterRefines ==
  ASSUME TypeOK, NEW u \in Users, NEW i \in SessionIDs \cup {Reserved}, Unregister(u, i)
  PROVE  Registry!Unregister(u, i)
<1> DEFINE f == IF sessions[u] # NoSession /\ sessions[u].id = i
                THEN NoSession ELSE sessions[u]
<1>1. sessions' = [sessions EXCEPT ![u] = f] /\ UNCHANGED now
  BY DEF Unregister, TypeOK
<1>2. activeBar' = [activeBar EXCEPT ![u] = Abstract(f)]
  BY <1>1, AbstractUpdate
<1>3. Abstract(f) = IF activeBar[u] # NoSession /\ activeBar[u].id = i
                    THEN NoSession ELSE activeBar[u]
  BY AbstractEntry DEF Abstract
<1>4. activeBar = [v \in Users |-> activeBar[v]]
  BY DEF activeBar
<1> QED
  BY <1>2, <1>3, <1>4 DEF Registry!Unregister

LEMMA SetGSRefines ==
  ASSUME TypeOK, NEW u \in Users, NEW s \in ServerIDs, SetGS(u, s)
  PROVE  Registry!SetGS(u, s)
<1> DEFINE f == IF sessions[u] = NoSession THEN sessions[u]
                ELSE [sessions[u] EXCEPT !.server = s]
<1>1. sessions' = [sessions EXCEPT ![u] = f] /\ UNCHANGED now
  BY DEF SetGS, TypeOK
<1>2. activeBar' = [activeBar EXCEPT ![u] = Abstract(f)]
  BY <1>1, AbstractUpdate
<1>3. Abstract(f) = IF activeBar[u] = NoSession THEN activeBar[u]
                    ELSE [activeBar[u] EXCEPT !.server = s]
  <2>1. CASE sessions[u] = NoSession
    BY <2>1, AbstractEntry DEF Abstract
  <2>2. CASE sessions[u] # NoSession
    <3>1. sessions[u] \in Entries
      BY <2>2 DEF TypeOK
    <3>2. f \in Entries
      BY <2>2, <3>1 DEF Entries
    <3>3. f # NoSession
      BY <3>2
    <3>4. Abstract(f) = [id |-> sessions[u].id, server |-> s,
                         fresh |-> InProgress(sessions[u]),
                         rejected |-> RefusedLately(sessions[u])]
      BY <2>2, <3>1, <3>3 DEF Abstract, Entries, InProgress, RefusedLately
    <3>5. activeBar[u] = [id |-> sessions[u].id, server |-> sessions[u].server,
                          fresh |-> InProgress(sessions[u]),
                          rejected |-> RefusedLately(sessions[u])]
      BY <2>2, AbstractEntry DEF Abstract
    <3> QED
      BY <2>2, <3>4, <3>5, AbstractEntry
  <2> QED
    BY <2>1, <2>2
<1>4. activeBar = [v \in Users |-> activeBar[v]]
  BY DEF activeBar
<1> QED
  BY <1>2, <1>3, <1>4 DEF Registry!SetGS

LEMMA ClearShardRefines ==
  ASSUME TypeOK, NEW shard, NEW s, ClearShard(shard, s)
  PROVE  Registry!ClearShard(shard, s)
<1>1. activeBar' = [v \in Users |-> Abstract(sessions'[v])]
  BY DEF activeBar, Abstract, InProgress, RefusedLately, ClearShard
<1>2. ASSUME NEW v \in Users
      PROVE Abstract(sessions'[v]) =
              IF v \in shard /\ Registry!HasSession(v) /\ activeBar[v].server = s
              THEN NoSession ELSE activeBar[v]
  <2>1. sessions'[v] = IF v \in shard /\ Has(v) /\ sessions[v].server = s
                       THEN NoSession ELSE sessions[v]
    BY DEF ClearShard
  <2>2. Has(v) <=> Registry!HasSession(v)
    BY AbstractEntry DEF Has, Registry!HasSession
  <2>3. Abstract(NoSession) = NoSession
    BY DEF Abstract
  <2> QED
    BY <2>1, <2>2, <2>3, AbstractEntry DEF Has
<1> QED
  BY <1>1, <1>2 DEF Registry!ClearShard

\* As the clock ticks a window may close and never opens.
LEMMA TickRefines ==
  ASSUME TypeOK, Tick
  PROVE  Registry!Elapse
<1> DEFINE F == {u \in Users : Has(u) /\ InProgress(sessions[u]) /\ ~InProgress(sessions[u])'}
           R == {u \in Users :
                   Has(u) /\ RefusedLately(sessions[u]) /\ ~RefusedLately(sessions[u])'}
           AbstractFresh == {u \in Users : Registry!HasSession(u) /\ activeBar[u].fresh}
           AbstractRejected == {u \in Users : Registry!HasSession(u) /\ activeBar[u].rejected}
<1>1. F \in SUBSET AbstractFresh /\ R \in SUBSET AbstractRejected
  BY AbstractEntry, Zenon DEF Has, Registry!HasSession
<1>2. ASSUME NEW u \in Users
      PROVE activeBar'[u] =
              IF ~Registry!HasSession(u) THEN NoSession
              ELSE [id |-> activeBar[u].id, server |-> activeBar[u].server,
                    fresh |-> activeBar[u].fresh /\ u \notin F,
                    rejected |-> activeBar[u].rejected /\ u \notin R]
  <2> DEFINE e == sessions[u]
  <2>1. activeBar'[u] = Abstract(e)'
    BY DEF activeBar, Tick
  <2>2. CASE e = NoSession
    <3>1. Abstract(e)' = NoSession
      BY <2>2 DEF Abstract, Tick
    <3> QED
      BY <2>1, <2>2, <3>1, AbstractEntry DEF Registry!HasSession
  <2>3. CASE e # NoSession
    <3>1. e \in Entries /\ e' = e /\ now' = now + 1
      BY <2>3 DEF TypeOK, Tick
    <3>2. /\ InProgress(e)' => InProgress(e)
          /\ RefusedLately(e)' => RefusedLately(e)
      BY <3>1 DEF TypeOK, Entries, InProgress, RefusedLately
    <3>3. /\ InProgress(e) \in BOOLEAN /\ RefusedLately(e) \in BOOLEAN
          /\ InProgress(e)' \in BOOLEAN /\ RefusedLately(e)' \in BOOLEAN
      BY Zenon DEF InProgress, RefusedLately
    <3>5. Abstract(e)' = [id |-> e.id, server |-> e.server,
                          fresh |-> InProgress(e)', rejected |-> RefusedLately(e)']
      BY <2>3, <3>1, Zenon DEF Abstract
    <3>6. /\ activeBar[u].id = e.id /\ activeBar[u].server = e.server
          /\ activeBar[u].fresh = InProgress(e)
          /\ activeBar[u].rejected = RefusedLately(e)
          /\ Registry!HasSession(u)
      BY <2>3, AbstractEntry, Zenon DEF Registry!HasSession
    <3>7. /\ InProgress(e)' = (activeBar[u].fresh /\ u \notin F)
          /\ RefusedLately(e)' = (activeBar[u].rejected /\ u \notin R)
      BY <2>3, <3>2, <3>3, <3>6, Zenon DEF Has
    <3> HIDE DEF F, R
    <3> QED
      BY <2>1, <3>5, <3>6, <3>7, Zenon
  <2> QED
    BY <2>2, <2>3
<1>3. activeBar' = [u \in Users |->
                      IF ~Registry!HasSession(u) THEN NoSession
                      ELSE [id |-> activeBar[u].id, server |-> activeBar[u].server,
                            fresh |-> activeBar[u].fresh /\ u \notin F,
                            rejected |-> activeBar[u].rejected /\ u \notin R]]
  <2> HIDE DEF F, R
  <2>1. activeBar' = [u \in Users |-> activeBar'[u]]
    BY DEF activeBar
  <2> QED
    BY <1>2, <2>1
<1> HIDE DEF F, R
<1> QED
  BY <1>1, <1>3 DEF Registry!Elapse

\* The registry with its clock implements the registry whose two windows are
\* flags: initial states map to initial states and every step maps to a step
\* of the abstract registry or to none.
THEOREM TimedImplementsRegistry == Spec => ImplementsRegistry
<1>1. Init => Registry!RegistryInit
  BY DEF Init, activeBar, Abstract, Registry!RegistryInit
<1>2. TypeOK /\ [Next]_vars => [Registry!RegistryNext]_activeBar
  <2> SUFFICES ASSUME TypeOK, [Next]_vars
               PROVE  Registry!RegistryNext \/ UNCHANGED activeBar
    OBVIOUS
  <2>1. ASSUME NEW u \in Users, TryRegister(u) PROVE Registry!RegistryNext
    BY <2>1, TryRegisterRefines DEF Registry!RegistryNext
  <2>2. ASSUME NEW u \in Users, NEW i \in SessionIDs, Register(u, i)
        PROVE  Registry!RegistryNext
    BY <2>2, RegisterRefines DEF Registry!RegistryNext
  <2>3. ASSUME NEW u \in Users, NEW i \in SessionIDs \cup {Reserved}, Unregister(u, i)
        PROVE  Registry!RegistryNext
    BY <2>3, UnregisterRefines DEF Registry!RegistryNext
  <2>4. ASSUME NEW u \in Users, NEW s \in ServerIDs, SetGS(u, s)
        PROVE  Registry!RegistryNext
    BY <2>4, SetGSRefines DEF Registry!RegistryNext
  <2>5. ASSUME NEW shard \in SUBSET Users, NEW s \in ServerIDs, ClearShard(shard, s)
        PROVE  Registry!RegistryNext
    BY <2>5, ClearShardRefines DEF Registry!RegistryNext
  <2>6. CASE Tick
    BY <2>6, TickRefines DEF Registry!RegistryNext
  <2>7. CASE UNCHANGED vars
    BY <2>7 DEF vars, activeBar, Abstract, InProgress, RefusedLately
  <2> QED
    BY <2>1, <2>2, <2>3, <2>4, <2>5, <2>6, <2>7 DEF Next
<1> QED
  BY <1>1, <1>2, TimedTypeCorrect, PTL DEF Spec, ImplementsRegistry, Registry!RegistrySpec
====
