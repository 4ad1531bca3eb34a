---- MODULE SessionRegistry ----
(***************************************************************************)
(* The session registry (src/internal/service/session_registry.go): one    *)
(* entry per logged-in user, shared by the login workers, the client       *)
(* listener and the game-server link.  Every method runs under the lock of *)
(* the user's shard, so each is one atomic step on that user's entry.      *)
(*                                                                         *)
(* Time is abstracted to what TryRegister tells apart: whether a           *)
(* reservation is younger than 5 seconds ("fresh") and whether the user    *)
(* was refused less than 30 seconds ago ("rejected").  Elapse is the       *)
(* passing of time.  SessionRegistryTimed keeps the clock and is shown to  *)
(* implement this module.                                                  *)
(***************************************************************************)
EXTENDS Integers, FiniteSets

CONSTANTS
    Users,       \* user names
    SessionIDs,  \* the SessionIDs given to connections
    ServerIDs,   \* game server IDs; 0 also stands for "still on the login server"
    Reserved,    \* the SessionID -1 of a login that has not registered yet
    NoSession    \* no entry for the user

ASSUME ServerIDsAssumption == ServerIDs \subseteq Nat /\ 0 \in ServerIDs
ASSUME ReservedAssumption == Reserved \notin SessionIDs

\* SessionInfo: the owner, the server and the two time stamps as flags.
SessionInfo ==
    [id : SessionIDs \cup {Reserved}, server : ServerIDs,
     fresh : BOOLEAN, rejected : BOOLEAN]

ASSUME NoSessionAssumption == NoSession \notin SessionInfo

VARIABLE active   \* active[u]: the entry of user u, or NoSession

RegistryTypeOK == active \in [Users -> SessionInfo \cup {NoSession}]

RegistryInit == active = [u \in Users |-> NoSession]

HasSession(u) == active[u] # NoSession

Reservation == [id |-> Reserved, server |-> 0, fresh |-> TRUE, rejected |-> FALSE]

Session(i) == [id |-> i, server |-> 0, fresh |-> FALSE, rejected |-> FALSE]
----
(***************************************************************************)
(* TryRegister(u) has four outcomes.  The first and the third admit the    *)
(* login; the third also asks for the old session to be kicked.            *)
(***************************************************************************)

\* Another login of u reserved the name less than 5 seconds ago.
Pending(u) == HasSession(u) /\ active[u].id = Reserved /\ active[u].fresh

\* No entry: the name is reserved.  Returns kickOld = FALSE, allow = TRUE.
TryReserve(u) ==
    /\ ~HasSession(u)
    /\ active' = [active EXCEPT ![u] = Reservation]

\* Refused, the entry is left alone.  Returns FALSE, FALSE.
TryPending(u) ==
    /\ Pending(u)
    /\ UNCHANGED active

\* Refused once before in the last 30 seconds: the caller takes the session
\* over.  Returns TRUE, TRUE.
TryTakeOver(u) ==
    /\ HasSession(u) /\ ~Pending(u)
    /\ active[u].rejected
    /\ active' = [active EXCEPT ![u].rejected = FALSE]

\* Refused, and the refusal is stamped.  Returns FALSE, FALSE.
TryReject(u) ==
    /\ HasSession(u) /\ ~Pending(u)
    /\ ~active[u].rejected
    /\ active' = [active EXCEPT ![u].rejected = TRUE]

TryRegister(u) == TryReserve(u) \/ TryPending(u) \/ TryTakeOver(u) \/ TryReject(u)
----
\* Register(u, i) writes a new entry whatever was there.
Register(u, i) == active' = [active EXCEPT ![u] = Session(i)]

\* The broken form: the owner of the entry is not compared.
UnregisterAny(u, i) == active' = [active EXCEPT ![u] = NoSession]

\* Unregister(u, i) removes the entry only if it still belongs to i.
Unregister(u, i) ==
    active' = [active EXCEPT ![u] =
                 IF @ # NoSession /\ @.id = i THEN NoSession ELSE @]

\* SetGS(u, s) moves an existing entry to game server s.
SetGS(u, s) ==
    active' = [active EXCEPT ![u] =
                 IF @ = NoSession THEN @ ELSE [@ EXCEPT !.server = s]]

\* ClearServer(s) on the users of one shard, a step under that shard's lock.
ClearShard(shard, s) ==
    active' = [u \in Users |->
                 IF u \in shard /\ HasSession(u) /\ active[u].server = s
                 THEN NoSession ELSE active[u]]

\* Time passes: some reservations and some refusals are no longer recent.
Elapse ==
    \E F \in SUBSET {u \in Users : HasSession(u) /\ active[u].fresh},
       R \in SUBSET {u \in Users : HasSession(u) /\ active[u].rejected} :
       active' = [u \in Users |->
                    IF ~HasSession(u) THEN NoSession
                    ELSE [id |-> active[u].id, server |-> active[u].server,
                          fresh |-> active[u].fresh /\ u \notin F,
                          rejected |-> active[u].rejected /\ u \notin R]]

(***************************************************************************)
(* The registry as its callers may drive it, every operation at any time.  *)
(***************************************************************************)
RegistryNext ==
    \/ \E u \in Users :
          \/ TryRegister(u)
          \/ \E i \in SessionIDs : Register(u, i)
          \/ \E i \in SessionIDs \cup {Reserved} : Unregister(u, i)
          \/ \E s \in ServerIDs : SetGS(u, s)
    \/ \E shard \in SUBSET Users, s \in ServerIDs : ClearShard(shard, s)
    \/ Elapse

RegistrySpec == RegistryInit /\ [][RegistryNext]_active
====
