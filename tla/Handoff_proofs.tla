---- MODULE Handoff_proofs ----
(***************************************************************************)
(* A handoff is used at most once, and can be used until it expires: for   *)
(* any number of clients, links and shards, with or without colliding IDs. *)
(***************************************************************************)
EXTENDS Handoff, TLAPS

USE LoginOkAssumption, ShardsAssumption, TimesAssumption, NoConnAssumption,
    MarkersAssumption

\* A session in the map or in a validation is a record.
LEMMA StoredIsSession ==
  ASSUME TypeOK
  PROVE  /\ \A i \in IDs : sessions[i] # NoHandoff => sessions[i] \in Sessions
         /\ \A l \in Links : validate[l] # Idle =>
              validate[l] \in Validations /\ validate[l].session \in Sessions
BY DEF TypeOK, Validations

\* The session that GameServerLogin makes.
LEMMA NewSession ==
  ASSUME TypeOK, NEW c \in Conns, puts[c] < MaxPuts
  PROVE  [conn |-> c, put |-> puts[c] + 1, expiresAt |-> now + HandoffTTL] \in Sessions
BY DEF TypeOK, Sessions

\* Every step of clients, links and collector keeps the types.
THEOREM HandoffTypeCorrect == Spec => []TypeOK
<1>1. Init => TypeOK
  <2> SUFFICES ASSUME Init PROVE TypeOK
    OBVIOUS
  <2>1. gcShard \in 0 .. NumShards
    BY DEF Init
  <2>2. puts \in [Conns -> 0 .. MaxPuts]
    BY DEF Init
  <2>3. again \in BOOLEAN
    BY Zenon DEF Init
  <2> QED
    BY <2>1, <2>2, <2>3 DEF Init, TypeOK
<1>2. TypeOK /\ [Next]_vars => TypeOK'
  <2> SUFFICES ASSUME TypeOK, [Next]_vars PROVE TypeOK'
    OBVIOUS
  <2>1. ASSUME NEW c \in Conns, GameServerLogin(c) PROVE TypeOK'
    <3> DEFINE s == [conn |-> c, put |-> puts[c] + 1, expiresAt |-> now + HandoffTTL]
    <3>1. s \in Sessions
      BY <2>1, NewSession DEF GameServerLogin
    <3> HIDE DEF s
    <3>2. /\ sessions' = [sessions EXCEPT ![LoginOkID1[c]] = s]
          /\ open' = (open \ {sessions[LoginOkID1[c]]}) \cup {s}
          /\ puts' = [puts EXCEPT ![c] = @ + 1] /\ puts[c] < MaxPuts
          /\ UNCHANGED <<now, validate, gcShard, gcNow, accepted, again>>
      BY <2>1 DEF GameServerLogin, s
    <3>3. puts' \in [Conns -> 0 .. MaxPuts]
      BY <3>2 DEF TypeOK
    <3> QED
      BY <3>1, <3>2, <3>3 DEF TypeOK
  <2>2. ASSUME NEW l \in Links, NEW id \in IDs, NEW c \in Conns \cup {NoConn},
               ValidateTakes(l, id, c)
        PROVE  TypeOK'
    <3>1. [session |-> sessions[id], presented |-> c] \in Validations
      BY <2>2, StoredIsSession DEF ValidateTakes, Validations
    <3> QED
      BY <2>2, <3>1 DEF ValidateTakes, TypeOK
  <2>3. ASSUME NEW l \in Links, ValidateSucceeds(l) PROVE TypeOK'
    <3>1. again' \in BOOLEAN
      BY <2>3, Zenon DEF ValidateSucceeds
    <3> QED
      BY <2>3, <3>1, StoredIsSession DEF ValidateSucceeds, TypeOK
  <2>4. ASSUME NEW l \in Links, ValidateFails(l) PROVE TypeOK'
    BY <2>4 DEF ValidateFails, TypeOK
  <2>5. CASE StartGC
    BY <2>5 DEF StartGC, TypeOK
  <2>6. CASE Collect
    BY <2>6 DEF Collect, TypeOK
  <2>7. CASE Tick
    BY <2>7 DEF Tick, TypeOK
  <2>8. CASE UNCHANGED vars
    BY <2>8 DEF vars, TypeOK
  <2> QED
    BY <2>1, <2>2, <2>3, <2>4, <2>5, <2>6, <2>7, <2>8 DEF Next, ValidateUnknown
<1> QED
  BY <1>1, <1>2, PTL DEF Spec
----
(***************************************************************************)
(* Single use.                                                             *)
(***************************************************************************)
UseInv == TakenOnce /\ SingleUse

LEMMA UseStep ==
  ASSUME TypeOK, UseInv, [Next]_vars
  PROVE  UseInv'
<1> USE DEF UseInv, SingleUse
<1>1. ASSUME NEW c \in Conns, GameServerLogin(c) PROVE UseInv'
  <2> DEFINE s == [conn |-> c, put |-> puts[c] + 1, expiresAt |-> now + HandoffTTL]
             id == LoginOkID1[c]
  <2>1. s \in Sessions /\ s.conn = c /\ s.put = puts[c] + 1
    BY <1>1, NewSession DEF GameServerLogin
  <2>2. /\ sessions' = [sessions EXCEPT ![id] = s]
        /\ puts' = [puts EXCEPT ![c] = @ + 1]
        /\ UNCHANGED <<validate, accepted, again>>
    BY <1>1 DEF GameServerLogin
  <2> HIDE DEF s
  <2>3. \A d \in Conns : puts[d] \in Nat /\ puts'[d] \in Nat /\ puts[d] <= puts'[d]
    BY <2>2 DEF TypeOK
  <2>4. ASSUME NEW t \in Sessions, t.put <= puts[t.conn]
        PROVE  t # s /\ t.put <= puts'[t.conn]
    BY <2>1, <2>3, <2>4 DEF Sessions
  <2>5. s # NoHandoff /\ s.put <= puts'[s.conn]
    BY <2>1, <2>2 DEF TypeOK
  <2>6. /\ \A l \in Links : validate[l] # Idle => validate[l].session # s
        /\ s \notin accepted
    BY <2>4, StoredIsSession DEF TypeOK, TakenOnce
  <2>7. ASSUME NEW i \in IDs, sessions'[i] # NoHandoff
        PROVE  /\ LoginOkID1[sessions'[i].conn] = i
               /\ sessions'[i] \notin accepted'
               /\ sessions'[i].put <= puts'[sessions'[i].conn]
               /\ \A l \in Links : validate'[l] # Idle => validate'[l].session # sessions'[i]
    <3>1. CASE i = id
      <4>1. sessions'[i] = s
        BY <2>2, <3>1 DEF TypeOK
      <4> QED
        BY <2>1, <2>2, <2>5, <2>6, <3>1, <4>1
    <3>2. CASE i # id
      <4>1. sessions'[i] = sessions[i]
        BY <2>2, <3>2 DEF TypeOK
      <4>2. sessions[i] \in Sessions
        BY <2>7, <4>1, StoredIsSession
      <4> QED
        BY <2>2, <2>4, <2>7, <4>1, <4>2 DEF TakenOnce
    <3> QED
      BY <3>1, <3>2
  <2>8. ASSUME NEW l \in Links, validate'[l] # Idle
        PROVE  /\ validate'[l].session \notin accepted'
               /\ validate'[l].session.put <= puts'[validate'[l].session.conn]
               /\ \A m \in Links \ {l} :
                     validate'[m] # Idle => validate'[m].session # validate'[l].session
    BY <2>2, <2>4, <2>8, StoredIsSession DEF TakenOnce
  <2>9. \A t \in accepted' : t.put <= puts'[t.conn]
    BY <2>2, <2>4 DEF TakenOnce, TypeOK
  <2> QED
    BY <2>2, <2>7, <2>8, <2>9 DEF TakenOnce
<1>2. ASSUME NEW l \in Links, NEW id \in IDs, NEW c \in Conns \cup {NoConn},
             ValidateTakes(l, id, c)
      PROVE  UseInv'
  <2>1. /\ sessions' = [sessions EXCEPT ![id] = NoHandoff] /\ sessions[id] # NoHandoff
        /\ validate' = [validate EXCEPT ![l] = [session |-> sessions[id], presented |-> c]]
        /\ validate[l] = Idle
        /\ UNCHANGED <<puts, accepted, again>>
    BY <1>2 DEF ValidateTakes
  <2>2. \A i \in IDs : sessions'[i] # NoHandoff => sessions'[i] = sessions[i] /\ i # id
    BY <2>1 DEF TypeOK
  <2>3. /\ validate'[l].session = sessions[id]
        /\ \A m \in Links \ {l} : validate'[m] = validate[m]
    BY <2>1 DEF TypeOK
  <2>4. \A i \in IDs : sessions'[i] # NoHandoff => sessions'[i] # sessions[id]
    BY <2>1, <2>2 DEF TakenOnce
  <2>5. \A i \in IDs : sessions'[i] # NoHandoff =>
          /\ LoginOkID1[sessions'[i].conn] = i
          /\ sessions'[i] \notin accepted'
          /\ sessions'[i].put <= puts'[sessions'[i].conn]
          /\ \A m \in Links : validate'[m] # Idle => validate'[m].session # sessions'[i]
    BY <2>1, <2>2, <2>3, <2>4 DEF TakenOnce
  <2>6. \A m \in Links : validate'[m] # Idle =>
          /\ validate'[m].session \notin accepted'
          /\ validate'[m].session.put <= puts'[validate'[m].session.conn]
          /\ \A n \in Links \ {m} :
                validate'[n] # Idle => validate'[n].session # validate'[m].session
    BY <2>1, <2>3 DEF TakenOnce
  <2> QED
    BY <2>1, <2>5, <2>6 DEF TakenOnce
<1>3. ASSUME NEW l \in Links, ValidateSucceeds(l) PROVE UseInv'
  <2>1. /\ validate[l] # Idle
        /\ accepted' = accepted \cup {validate[l].session}
        /\ again' = (again \/ validate[l].session \in accepted)
        /\ validate' = [validate EXCEPT ![l] = Idle]
        /\ UNCHANGED <<sessions, puts>>
    BY <1>3 DEF ValidateSucceeds
  <2>2. ~again'
    BY <2>1 DEF TakenOnce
  <2>3. \A m \in Links : validate'[m] # Idle => m # l /\ validate'[m] = validate[m]
    BY <2>1 DEF TypeOK
  <2> QED
    BY <2>1, <2>2, <2>3 DEF TakenOnce
<1>4. ASSUME NEW l \in Links, ValidateFails(l) PROVE UseInv'
  <2>1. /\ validate' = [validate EXCEPT ![l] = Idle]
        /\ UNCHANGED <<sessions, puts, accepted, again>>
    BY <1>4 DEF ValidateFails
  <2>2. \A m \in Links : validate'[m] # Idle => validate'[m] = validate[m]
    BY <2>1 DEF TypeOK
  <2> QED
    BY <2>1, <2>2 DEF TakenOnce
<1>5. CASE StartGC
  BY <1>5 DEF StartGC, TakenOnce
<1>6. CASE Collect
  <2>1. /\ \A i \in IDs : sessions'[i] # NoHandoff => sessions'[i] = sessions[i]
        /\ UNCHANGED <<validate, puts, accepted, again>>
    BY <1>6 DEF Collect
  <2> QED
    BY <2>1 DEF TakenOnce
<1>7. CASE Tick
  BY <1>7 DEF Tick, TakenOnce
<1>8. CASE UNCHANGED vars
  BY <1>8 DEF vars, TakenOnce
<1> QED
  BY <1>1, <1>2, <1>3, <1>4, <1>5, <1>6, <1>7, <1>8 DEF Next, ValidateUnknown

\* No handoff is answered with success twice, whichever links ask for it and
\* however their calls interleave with new handoffs and the collector.
THEOREM HandoffsAreSingleUse == Spec => []SingleUse
<1>1. Init => UseInv
  BY DEF Init, UseInv, TakenOnce, SingleUse
<1>2. TypeOK /\ UseInv /\ [Next]_vars => UseInv'
  BY UseStep
<1> QED
  BY <1>1, <1>2, HandoffTypeCorrect, PTL DEF Spec, UseInv
----
(***************************************************************************)
(* Usable until it expires.                                                *)
(***************************************************************************)
LiveInv == LiveIsStored /\ CollectorIsBehind

LEMMA LiveStep ==
  ASSUME TypeOK, LiveInv, [Next]_vars
  PROVE  LiveInv'
<1> USE DEF LiveInv, CollectorIsBehind, Expired
<1>1. ASSUME NEW c \in Conns, GameServerLogin(c) PROVE LiveInv'
  <2> DEFINE s == [conn |-> c, put |-> puts[c] + 1, expiresAt |-> now + HandoffTTL]
             id == LoginOkID1[c]
  <2>1. s \in Sessions /\ s.conn = c
    BY <1>1, NewSession DEF GameServerLogin
  <2>2. /\ sessions' = [sessions EXCEPT ![id] = s]
        /\ open' = (open \ {sessions[id]}) \cup {s}
        /\ UNCHANGED <<now, gcNow>>
    BY <1>1 DEF GameServerLogin
  <2> HIDE DEF s
  <2>3. ASSUME NEW t \in open', ~(now' > t.expiresAt)
        PROVE  sessions'[LoginOkID1[t.conn]] = t
    <3>1. CASE t = s
      BY <2>1, <2>2, <3>1 DEF TypeOK
    <3>2. CASE t # s
      <4>1. t \in open /\ t # sessions[id] /\ t.conn \in Conns
        BY <2>2, <3>2 DEF TypeOK, Sessions
      <4>2. sessions[LoginOkID1[t.conn]] = t
        BY <2>2, <2>3, <4>1 DEF LiveIsStored
      <4> QED
        BY <2>2, <4>1, <4>2 DEF TypeOK
    <3> QED
      BY <3>1, <3>2
  <2> QED
    BY <2>2, <2>3 DEF LiveIsStored
<1>2. ASSUME NEW l \in Links, NEW id \in IDs, NEW c \in Conns \cup {NoConn},
             ValidateTakes(l, id, c)
      PROVE  LiveInv'
  BY <1>2 DEF ValidateTakes, LiveIsStored, TypeOK, Sessions
<1>3. ASSUME NEW l \in Links, ValidateSucceeds(l) \/ ValidateFails(l) PROVE LiveInv'
  BY <1>3 DEF ValidateSucceeds, ValidateFails, LiveIsStored
<1>4. CASE StartGC
  BY <1>4 DEF StartGC, LiveIsStored, TypeOK
<1>5. CASE Collect
  <2>1. UNCHANGED <<now, gcNow, open>>
    BY <1>5 DEF Collect
  <2>2. ASSUME NEW t \in open, ~(now > t.expiresAt)
        PROVE  sessions'[LoginOkID1[t.conn]] = t
    <3>1. t \in Sessions /\ t.conn \in Conns /\ t.expiresAt \in Nat
      BY DEF TypeOK, Sessions
    <3>2. sessions[LoginOkID1[t.conn]] = t
      BY <2>2 DEF LiveIsStored
    <3>3. ~(gcNow > t.expiresAt)
      BY <2>2, <3>1 DEF TypeOK
    <3> QED
      BY <1>5, <3>1, <3>2, <3>3 DEF Collect
  <2> QED
    BY <2>1, <2>2 DEF LiveIsStored
<1>6. CASE Tick
  BY <1>6 DEF Tick, LiveIsStored, TypeOK, Sessions
<1>7. CASE UNCHANGED vars
  BY <1>7 DEF vars, LiveIsStored
<1> QED
  BY <1>1, <1>2, <1>3, <1>4, <1>5, <1>6, <1>7 DEF Next, ValidateUnknown, vars

\* A handoff nobody has asked for or overwritten is in the map until it
\* expires, although the collector works with an old reading of the clock.
THEOREM LiveHandoffsAreStored == Spec => []LiveIsStored
<1>1. Init => LiveInv
  BY DEF Init, LiveInv, LiveIsStored, CollectorIsBehind
<1>2. TypeOK /\ LiveInv /\ [Next]_vars => LiveInv'
  BY LiveStep
<1> QED
  BY <1>1, <1>2, HandoffTypeCorrect, PTL DEF Spec, LiveInv
====
