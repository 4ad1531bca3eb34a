---- MODULE SessionRegistryTimed ----
(***************************************************************************)
(* The session registry with the clock it reads                            *)
(* (src/internal/service/session_registry.go): LoginTime and               *)
(* LastRejectionTime are points in time and TryRegister compares them with *)
(* time.Now().  SessionRegistry only knows whether a reservation and a     *)
(* refusal are recent; this module implements it.                          *)
(*                                                                         *)
(* time.Now() carries a monotonic reading, so the clock never goes back.   *)
(* It starts at 1: the time 0 is the zero time.Time.                       *)
(***************************************************************************)
EXTENDS Integers

CONSTANTS
    Users, SessionIDs, ServerIDs, Reserved, NoSession,
    PendingWindow,    \* 5 seconds: how long a reservation keeps others out
    RejectionWindow,  \* 30 seconds: how long a refusal earns a take-over
    MaxTime           \* bound on the clock

ASSUME WindowsAssumption ==
    PendingWindow \in Nat \ {0} /\ RejectionWindow \in Nat \ {0} /\ MaxTime \in Nat
ASSUME TimedServersAssumption == 0 \in ServerIDs
ASSUME TimedReservedAssumption == Reserved \notin SessionIDs

Entries ==
    [id : SessionIDs \cup {Reserved}, server : ServerIDs,
     loginTime : Nat, lastRejection : Nat]

AbstractEntries ==
    [id : SessionIDs \cup {Reserved}, server : ServerIDs,
     fresh : BOOLEAN, rejected : BOOLEAN]

ASSUME TimedNoSessionAssumption == NoSession \notin Entries \cup AbstractEntries

VARIABLES
    now,       \* time.Now()
    sessions   \* sessions[u]: the entry of u in its shard's map, or NoSession

vars == <<now, sessions>>

TypeOK ==
    /\ now \in Nat \ {0}
    /\ sessions \in [Users -> Entries \cup {NoSession}]

Init ==
    /\ now = 1
    /\ sessions = [u \in Users |-> NoSession]

Has(u) == sessions[u] # NoSession

\* sess.SessionID == -1 && now.Sub(sess.LoginTime) < 5s
InProgress(e) == e.id = Reserved /\ now - e.loginTime < PendingWindow

\* The broken form: a cleared refusal counts like one made at time zero.
RefusedBefore(e) == now - e.lastRejection < RejectionWindow

\* !sess.LastRejectionTime.IsZero() && now.Sub(sess.LastRejectionTime) < 30s
RefusedLately(e) == e.lastRejection # 0 /\ now - e.lastRejection < RejectionWindow

TryRegister(u) ==
    /\ \/ /\ ~Has(u)
          /\ sessions' = [sessions EXCEPT ![u] =
               [id |-> Reserved, server |-> 0, loginTime |-> now, lastRejection |-> 0]]
       \/ /\ Has(u) /\ InProgress(sessions[u])
          /\ UNCHANGED sessions
       \/ /\ Has(u) /\ ~InProgress(sessions[u]) /\ RefusedLately(sessions[u])
          /\ sessions' = [sessions EXCEPT ![u].lastRejection = 0]
       \/ /\ Has(u) /\ ~InProgress(sessions[u]) /\ ~RefusedLately(sessions[u])
          /\ sessions' = [sessions EXCEPT ![u].lastRejection = now]
    /\ UNCHANGED now

Register(u, i) ==
    /\ sessions' = [sessions EXCEPT ![u] =
         [id |-> i, server |-> 0, loginTime |-> now, lastRejection |-> 0]]
    /\ UNCHANGED now

Unregister(u, i) ==
    /\ sessions' = [sessions EXCEPT ![u] =
         IF @ # NoSession /\ @.id = i THEN NoSession ELSE @]
    /\ UNCHANGED now

SetGS(u, s) ==
    /\ sessions' = [sessions EXCEPT ![u] =
         IF @ = NoSession THEN @ ELSE [@ EXCEPT !.server = s]]
    /\ UNCHANGED now

\* One shard's turn in ClearServer.
ClearShard(shard, s) ==
    /\ sessions' = [u \in Users |->
         IF u \in shard /\ Has(u) /\ sessions[u].server = s
         THEN NoSession ELSE sessions[u]]
    /\ UNCHANGED now

Tick ==
    /\ now < MaxTime
    /\ now' = now + 1
    /\ UNCHANGED sessions

Next ==
    \/ \E u \in Users :
          \/ TryRegister(u)
          \/ \E i \in SessionIDs : Register(u, i)
          \/ \E i \in SessionIDs \cup {Reserved} : Unregister(u, i)
          \/ \E s \in ServerIDs : SetGS(u, s)
    \/ \E shard \in SUBSET Users, s \in ServerIDs : ClearShard(shard, s)
    \/ Tick

Spec == Init /\ [][Next]_vars
----
(***************************************************************************)
(* Refinement.                                                             *)
(***************************************************************************)
Abstract(e) ==
    IF e = NoSession THEN NoSession
    ELSE [id |-> e.id, server |-> e.server,
          fresh |-> InProgress(e), rejected |-> RefusedLately(e)]

activeBar == [u \in Users |-> Abstract(sessions[u])]

Registry == INSTANCE SessionRegistry WITH active <- activeBar

\* Read through its two windows, the registry does what SessionRegistry says:
\* a refusal is used up by one take-over, neither window opens again by
\* itself, and nothing but TryRegister looks at or touches the time stamps.
ImplementsRegistry == Registry!RegistrySpec
====
