---- MODULE LoginServer ----
(***************************************************************************)
(* The client side of the login server: the client listener's callbacks    *)
(* (src/internal/listener/client_listener.go), the client packet handlers  *)
(* (src/internal/packet/client) and the login workers, goroutines that run *)
(* processLogin (src/internal/packet/client/login.go) off the event loops, *)
(* all of them around the shared session registry.                         *)
(*                                                                         *)
(* gnet runs the callbacks of one connection one after the other, those of *)
(* different connections in parallel.  conn.Close() and AsyncWrite only    *)
(* queue work on the connection's event loop, so packets that have already *)
(* arrived are still handled before the close; a callback that returns     *)
(* gnet.Close lets no further packet through.                              *)
(*                                                                         *)
(* A connection is identified with the SessionID that OnOpen gives it.     *)
(* The game-server link changes the registry through PlayerInGame and      *)
(* SessionDropped.                                                         *)
(***************************************************************************)
EXTENDS SessionRegistry

CONSTANTS
    Workers,     \* login goroutines that may exist at once (a bound of the model)
    SemSlots,    \* the capacity of LoginController.sem
    NoUser,      \* the empty account name
    NoConn,      \* no connection
    Unlocked,    \* clientMu is free
    Credentials  \* the <<connection, user>> pairs whose peer knows the password

Conns == SessionIDs

ASSUME SemSlotsAssumption == SemSlots \in Nat \ {0}
ASSUME CredentialsAssumption == Credentials \subseteq Conns \X Users
ASSUME NoUserAssumption == NoUser \notin Users
ASSUME NoConnAssumption == NoConn \notin Conns

Unregistering == [conn : Conns, user : Users]

ASSUME UnlockedAssumption == Unlocked \notin Unregistering

VARIABLES
    tcp,         \* tcp[c]: the life of the TCP connection as gnet sees it
    clients,     \* ClientListener.clients: the connections in the map
    state,       \* Client.State
    account,     \* Client.Account
    accountID,   \* Client.AccountID; the ID of user u is represented by u
    clientMu,    \* Unlocked, or the OnClose call that holds it over Get..Unregister
    gauge,       \* metrics.ActiveConnections
    pc,          \* pc[w]: where the login worker is in processLogin
    job,         \* job[w]: the connection and the user it works for
    target,      \* target[w]: the server ID read for KickFromGame
    overlapped,  \* history: users with two logins past TryRegister at once
    handedOver,  \* history: users whose entry a game server has touched
    kicked       \* history: the connections KickAccount removed

connVars == <<tcp, clients, state, account, accountID, clientMu, gauge>>
workerVars == <<pc, job, target>>
history == <<overlapped, handedOver, kicked>>
vars == <<active, connVars, workerVars, history>>

TcpStates == {"new", "open", "queued", "closing", "closed"}
ClientStates == {"Connected", "AuthedGG", "AuthedLogin", "ServerList"}
WorkerSteps == {"idle", "spawned", "auth", "kick", "kickLS", "kickGS",
                "register", "setID", "setAccount", "setState"}

NoJob == [conn |-> NoConn, user |-> NoUser]

TypeOK ==
    /\ RegistryTypeOK
    /\ tcp \in [Conns -> TcpStates]
    /\ clients \subseteq Conns
    /\ state \in [Conns -> ClientStates]
    /\ account \in [Conns -> Users \cup {NoUser}]
    /\ accountID \in [Conns -> Users \cup {NoUser}]
    /\ clientMu \in Unregistering \cup {Unlocked}
    /\ gauge \in Int
    /\ pc \in [Workers -> WorkerSteps]
    /\ job \in [Workers -> [conn : Conns \cup {NoConn}, user : Users \cup {NoUser}]]
    /\ target \in [Workers -> ServerIDs]
    /\ \A w \in Workers : pc[w] # "idle" => job[w] \in [conn : Conns, user : Users]
    /\ overlapped \subseteq Users
    /\ handedOver \subseteq Users
    /\ kicked \subseteq Conns

Init ==
    /\ RegistryInit
    /\ tcp = [c \in Conns |-> "new"]
    /\ clients = {}
    /\ state = [c \in Conns |-> "Connected"]
    /\ account = [c \in Conns |-> NoUser]
    /\ accountID = [c \in Conns |-> NoUser]
    /\ clientMu = Unlocked
    /\ gauge = 0
    /\ pc = [w \in Workers |-> "idle"]
    /\ job = [w \in Workers |-> NoJob]
    /\ target = [w \in Workers |-> 0]
    /\ overlapped = {}
    /\ handedOver = {}
    /\ kicked = {}
----
(***************************************************************************)
(* Connections.                                                            *)
(***************************************************************************)

\* conn.Close(), or the close that follows an asynchronous write: queued on
\* the event loop, without effect on a connection already being closed.
AfterClose(t) == IF t = "open" THEN "queued" ELSE t

CloseAsync(c) == tcp' = [tcp EXCEPT ![c] = AfterClose(@)]

\* OnTraffic may still be called.
Receiving(c) == tcp[c] \in {"open", "queued"}

OnOpen(c) ==
    /\ tcp[c] = "new"
    /\ tcp' = [tcp EXCEPT ![c] = "open"]
    /\ clients' = clients \cup {c}
    /\ gauge' = gauge + 1
    /\ UNCHANGED <<active, state, account, accountID, clientMu, workerVars, history>>

\* The rate limiter or the ban list refuses the address, or no key can be
\* made: the connection never enters the map and OnClose finds nothing.
OnOpenRefused(c) ==
    /\ tcp[c] = "new"
    /\ tcp' = [tcp EXCEPT ![c] = "closed"]
    /\ UNCHANGED <<active, clients, state, account, accountID, clientMu, gauge,
                   workerVars, history>>

\* OnClose has read an entry of its own account that it may remove.
OwnsLoginSession(c) ==
    /\ account[c] # NoUser
    /\ HasSession(account[c])
    /\ active[account[c]].id = c
    /\ active[account[c]].server = 0

\* The broken form: the gauge goes down for a client that OnTick or
\* KickAccount has already taken out of the map.
OnCloseCountsTwice(c) ==
    /\ clientMu = Unlocked
    /\ tcp[c] \in {"open", "queued", "closing"}
    /\ tcp' = [tcp EXCEPT ![c] = "closed"]
    /\ clients' = clients \ {c}
    /\ IF c \in clients /\ OwnsLoginSession(c)
       THEN clientMu' = [conn |-> c, user |-> account[c]]
       ELSE UNCHANGED clientMu
    /\ gauge' = IF clientMu' = Unlocked THEN gauge - 1 ELSE gauge
    /\ UNCHANGED <<active, state, account, accountID, workerVars, history>>

\* OnClose up to sessions.Get, under clientMu: the peer has gone, or a close
\* was queued, or a callback returned gnet.Close.  When the session is the
\* connection's own and still on the login server, clientMu stays locked
\* until OnCloseUnregister.
OnClose(c) ==
    /\ clientMu = Unlocked
    /\ tcp[c] \in {"open", "queued", "closing"}
    /\ tcp' = [tcp EXCEPT ![c] = "closed"]
    /\ clients' = clients \ {c}
    /\ IF c \in clients /\ OwnsLoginSession(c)
       THEN clientMu' = [conn |-> c, user |-> account[c]]
       ELSE UNCHANGED clientMu
    /\ gauge' = IF c \in clients /\ ~OwnsLoginSession(c) THEN gauge - 1 ELSE gauge
    /\ UNCHANGED <<active, state, account, accountID, workerVars, history>>

\* The rest of OnClose: the entry may have changed hands since Get.  The
\* cache of character counts, cleared here too, is not part of this module.
OnCloseUnregister ==
    /\ clientMu # Unlocked
    /\ Unregister(clientMu.user, clientMu.conn)
    /\ clientMu' = Unlocked
    /\ gauge' = gauge - 1
    /\ UNCHANGED <<tcp, clients, state, account, accountID, workerVars, history>>

\* The broken form: the idle clients are forgotten but not closed.
OnTickForgets(T) ==
    /\ clientMu = Unlocked
    /\ clients' = clients \ T
    /\ gauge' = gauge - Cardinality(T)
    /\ UNCHANGED <<active, tcp, state, account, accountID, clientMu, workerVars, history>>

\* OnTick closes and forgets the clients T that were idle for the timeout.
OnTick(T) ==
    /\ clientMu = Unlocked
    /\ tcp' = [c \in Conns |-> IF c \in T THEN AfterClose(tcp[c]) ELSE tcp[c]]
    /\ clients' = clients \ T
    /\ gauge' = gauge - Cardinality(T)
    /\ UNCHANGED <<active, state, account, accountID, clientMu, workerVars, history>>

\* OnTraffic ends the connection itself: the size is out of range, the
\* payload does not decrypt, the opcode is unknown or a handler fails.
PacketError(c) ==
    /\ Receiving(c)
    /\ tcp' = [tcp EXCEPT ![c] = "closing"]
    /\ UNCHANGED <<active, clients, state, account, accountID, clientMu, gauge,
                   workerVars, history>>
----
(***************************************************************************)
(* Client packets, handled on the connection's event loop.                 *)
(***************************************************************************)

\* AuthGG with the right session ID, in whatever state the client is.
AuthGG(c) ==
    /\ Receiving(c)
    /\ state' = [state EXCEPT ![c] = "AuthedGG"]
    /\ UNCHANGED <<active, tcp, clients, account, accountID, clientMu, gauge,
                   workerVars, history>>

\* A handler answers with a failure packet and closes, or just closes:
\* a wrong GameGuard session ID, a login before AuthGG or one that cannot be
\* read, a game-server choice that is out of range or has the wrong keys.
RefusePacket(c) ==
    /\ Receiving(c)
    /\ CloseAsync(c)
    /\ UNCHANGED <<active, clients, state, account, accountID, clientMu, gauge,
                   workerVars, history>>

AuthGGWrongSession(c) == RefusePacket(c)

HandleLoginRefused(c) == RefusePacket(c)

GameServerLoginRefused(c) == state[c] = "ServerList" /\ RefusePacket(c)

\* A login packet: the work goes to a goroutine and the state stays, so a
\* client may send several.
HandleLogin(c, w, u) ==
    /\ Receiving(c)
    /\ state[c] = "AuthedGG"
    /\ pc[w] = "idle"
    /\ pc' = [pc EXCEPT ![w] = "spawned"]
    /\ job' = [job EXCEPT ![w] = [conn |-> c, user |-> u]]
    /\ UNCHANGED <<active, connVars, target, history>>

\* The broken form: the state is not checked.
HandleServerListAnyState(c) ==
    /\ Receiving(c)
    /\ state' = [state EXCEPT ![c] = "ServerList"]
    /\ UNCHANGED <<active, tcp, clients, account, accountID, clientMu, gauge,
                   workerVars, history>>

\* The server list after a login, with the right keys.
HandleServerList(c) ==
    /\ Receiving(c)
    /\ state[c] = "AuthedLogin"
    /\ state' = [state EXCEPT ![c] = "ServerList"]
    /\ UNCHANGED <<active, tcp, clients, account, accountID, clientMu, gauge,
                   workerVars, history>>

\* The server list before a login is an error, which ends the connection.
HandleServerListDenied(c) == state[c] # "AuthedLogin" /\ PacketError(c)
----
(***************************************************************************)
(* processLogin.                                                           *)
(***************************************************************************)
Goto(w, step) == pc' = [pc EXCEPT ![w] = step]

\* The broken form: the login is started again although its job is gone.
ReturnAndRetry(w) ==
    /\ Goto(w, "spawned")
    /\ job' = [job EXCEPT ![w] = NoJob]
    /\ target' = [target EXCEPT ![w] = 0]

\* processLogin returns: the goroutine ends and its semaphore slot is free.
Return(w) ==
    /\ Goto(w, "idle")
    /\ job' = [job EXCEPT ![w] = NoJob]
    /\ target' = [target EXCEPT ![w] = 0]

Running == {w \in Workers : pc[w] \notin {"idle", "spawned"}}

\* The broken form: one slot of the semaphore is never given out.
AcquireSlotButOne(w) ==
    /\ pc[w] = "spawned"
    /\ Cardinality(Running) < SemSlots - 1
    /\ Goto(w, "auth")
    /\ UNCHANGED <<active, connVars, job, target, history>>

\* ctrl.sem <- struct{}{}
AcquireSlot(w) ==
    /\ pc[w] = "spawned"
    /\ Cardinality(Running) < SemSlots
    /\ Goto(w, "auth")
    /\ UNCHANGED <<active, connVars, job, target, history>>

\* The broken form: the failure is sent but processLogin does not return.
LoginFailsThrough(w) ==
    /\ pc[w] = "auth"
    /\ CloseAsync(job[w].conn)
    /\ Goto(w, "register")
    /\ UNCHANGED <<active, clients, state, account, accountID, clientMu, gauge,
                   job, target, history>>

\* The credentials do not decode, or Authenticate fails: a failure packet,
\* then the connection is closed.  RecordFailure is in BanManager.
LoginFails(w) ==
    /\ pc[w] = "auth"
    /\ CloseAsync(job[w].conn)
    /\ Return(w)
    /\ UNCHANGED <<active, clients, state, account, accountID, clientMu, gauge, history>>

\* Workers of u that were admitted and have not yet published the account.
Admitted(u) ==
    {w \in Workers :
        /\ job[w].user = u
        /\ pc[w] \in {"kick", "kickLS", "kickGS", "register", "setID", "setAccount"}}

\* Authenticate succeeds, which it only does with the right password.
Authenticated(w) ==
    /\ pc[w] = "auth"
    /\ <<job[w].conn, job[w].user>> \in Credentials

Admit(w, step) ==
    /\ Authenticated(w)
    /\ Goto(w, step)
    /\ overlapped' = IF Admitted(job[w].user) = {} THEN overlapped
                     ELSE overlapped \cup {job[w].user}
    /\ UNCHANGED <<connVars, job, target, handedOver, kicked>>

\* The broken form: a login whose client has gone stops after TryRegister.
LoginReservesIfOpen(w) ==
    /\ Authenticated(w)
    /\ TryReserve(job[w].user)
    /\ IF tcp[job[w].conn] = "closed"
       THEN Return(w)
       ELSE Goto(w, "register") /\ UNCHANGED <<job, target>>
    /\ UNCHANGED <<connVars, history>>

\* TryRegister finds no entry.
LoginReserves(w) == Admit(w, "register") /\ TryReserve(job[w].user)

\* TryRegister lets the login take an older session over.
LoginTakesOver(w) == Admit(w, "kick") /\ TryTakeOver(job[w].user)

\* TryRegister refuses: the account is in use.
LoginInUse(w) ==
    /\ Authenticated(w)
    /\ TryPending(job[w].user) \/ TryReject(job[w].user)
    /\ CloseAsync(job[w].conn)
    /\ Return(w)
    /\ UNCHANGED <<clients, state, account, accountID, clientMu, gauge,
                   overlapped, handedOver, kicked>>

\* sessions.Get decides who is kicked.
KickLookup(w) ==
    /\ pc[w] = "kick"
    /\ LET u == job[w].user IN
       \/ ~HasSession(u) /\ Goto(w, "register") /\ UNCHANGED target
       \/ HasSession(u) /\ active[u].server = 0 /\ Goto(w, "kickLS") /\ UNCHANGED target
       \/ /\ HasSession(u) /\ active[u].server # 0
          /\ Goto(w, "kickGS")
          /\ target' = [target EXCEPT ![w] = active[u].server]
    /\ UNCHANGED <<active, connVars, job, history>>

LoggedInAs(u) == {c \in clients : account[c] = u}

\* The broken form: nobody is kicked.
SkipKick(w) ==
    /\ pc[w] = "kickLS"
    /\ clientMu = Unlocked
    /\ Goto(w, "register")
    /\ UNCHANGED <<active, connVars, job, target, history>>

\* ClientListener.KickAccount, under clientMu: the first client found with
\* that account is closed and forgotten.  The gauge is not decremented.
KickAccount(w) ==
    /\ pc[w] = "kickLS"
    /\ clientMu = Unlocked
    /\ \/ LoggedInAs(job[w].user) = {} /\ UNCHANGED <<tcp, clients, kicked>>
       \/ \E c \in LoggedInAs(job[w].user) :
             /\ CloseAsync(c)
             /\ clients' = clients \ {c}
             /\ kicked' = kicked \cup {c}
    /\ Goto(w, "register")
    /\ UNCHANGED <<active, state, account, accountID, clientMu, gauge, job,
                   target, overlapped, handedOver>>

\* KickFromGame sends KickPlayer to the game server; see GameServerLink.
KickFromGame(w) ==
    /\ pc[w] = "kickGS"
    /\ Goto(w, "register")
    /\ UNCHANGED <<active, connVars, job, target, history>>

\* ResetAttempts (in BanManager), then sessions.Register.
RegisterSession(w) ==
    /\ pc[w] = "register"
    /\ Register(job[w].user, job[w].conn)
    /\ Goto(w, "setID")
    /\ UNCHANGED <<connVars, job, target, history>>

\* c.AccountID = account.ID
SetAccountID(w) ==
    /\ pc[w] = "setID"
    /\ accountID' = [accountID EXCEPT ![job[w].conn] = job[w].user]
    /\ Goto(w, "setAccount")
    /\ UNCHANGED <<active, tcp, clients, state, account, clientMu, gauge, job,
                   target, history>>

\* c.SetAccount(username)
SetAccount(w) ==
    /\ pc[w] = "setAccount"
    /\ account' = [account EXCEPT ![job[w].conn] = job[w].user]
    /\ Goto(w, "setState")
    /\ UNCHANGED <<active, tcp, clients, state, accountID, clientMu, gauge, job,
                   target, history>>

\* c.State = StateAuthedLogin, then the LoginOK packet and the return.
SetState(w) ==
    /\ pc[w] = "setState"
    /\ state' = [state EXCEPT ![job[w].conn] = "AuthedLogin"]
    /\ Return(w)
    /\ UNCHANGED <<active, tcp, clients, account, accountID, clientMu, gauge, history>>
----
(***************************************************************************)
(* What the game-server link does to the registry.  A link that has not    *)
(* sent its init packet carries server ID 0, so neither step depends on    *)
(* where the session is.                                                   *)
(***************************************************************************)

\* HandlePlayerInGame: SetGS for one of the reported accounts.
PlayerInGame(u, s) ==
    /\ SetGS(u, s)
    /\ handedOver' = handedOver \cup {u}
    /\ UNCHANGED <<connVars, workerVars, overlapped, kicked>>

\* HandlePlayerLogout or ClearServer removes an entry.
SessionDropped(u) ==
    /\ HasSession(u)
    /\ Unregister(u, active[u].id)
    /\ handedOver' = handedOver \cup {u}
    /\ UNCHANGED <<connVars, workerVars, overlapped, kicked>>

TimePasses == Elapse /\ UNCHANGED <<connVars, workerVars, history>>
----
ConnNext(c) ==
    \/ OnOpen(c)
    \/ OnOpenRefused(c)
    \/ OnClose(c)
    \/ PacketError(c)
    \/ AuthGG(c)
    \/ AuthGGWrongSession(c)
    \/ HandleLoginRefused(c)
    \/ GameServerLoginRefused(c)
    \/ \E w \in Workers, u \in Users : HandleLogin(c, w, u)
    \/ HandleServerList(c)
    \/ HandleServerListDenied(c)

\* The steps of processLogin once it holds a semaphore slot.
LoginStep(w) ==
    \/ LoginFails(w)
    \/ LoginReserves(w)
    \/ LoginTakesOver(w)
    \/ LoginInUse(w)
    \/ KickLookup(w)
    \/ KickAccount(w)
    \/ KickFromGame(w)
    \/ RegisterSession(w)
    \/ SetAccountID(w)
    \/ SetAccount(w)
    \/ SetState(w)

Next ==
    \/ \E c \in Conns : ConnNext(c)
    \/ OnCloseUnregister
    \/ \E T \in SUBSET clients : T # {} /\ OnTick(T)
    \/ \E w \in Workers : AcquireSlot(w) \/ LoginStep(w)
    \/ \E u \in Users : SessionDropped(u) \/ \E s \in ServerIDs : PlayerInGame(u, s)
    \/ TimePasses

Spec == Init /\ [][Next]_vars

(***************************************************************************)
(* Fairness.  The event loop runs what is queued on it, and closing waits  *)
(* for clientMu, a sync.Mutex that hands over to a starved waiter.  The    *)
(* semaphore is a channel, whose waiting senders are served in order.  A   *)
(* goroutine with nothing to wait for keeps running: the database calls in *)
(* Authenticate are assumed to return.                                     *)
(***************************************************************************)
Fairness ==
    /\ \A c \in Conns : SF_vars(tcp[c] \in {"queued", "closing"} /\ OnClose(c))
    /\ WF_vars(OnCloseUnregister)
    /\ \A w \in Workers :
          SF_vars(AcquireSlot(w)) /\ WF_vars(LoginStep(w)) /\ SF_vars(KickAccount(w))

FairSpec == Spec /\ Fairness
----
(***************************************************************************)
(* Safety.                                                                 *)
(***************************************************************************)

\* A reservation always has a login behind it that is about to replace it:
\* no path through processLogin, however it interleaves with closes, kicks
\* and game-server notices, leaves the SessionID -1 in the registry for good.
ReservationOwned ==
    \A u \in Users :
       HasSession(u) /\ active[u].id = Reserved =>
          \E w \in Workers : pc[w] = "register" /\ job[w].user = u

\* A connection carries an account, and an account a session, only of a user
\* whose password the connection's peer knows: no failed login leaves a trace
\* and no session is filed under another user.
IdentityAuthenticated ==
    /\ \A c \in Conns :
          /\ account[c] # NoUser => <<c, account[c]>> \in Credentials
          /\ accountID[c] # NoUser => <<c, accountID[c]>> \in Credentials
    /\ \A u \in Users :
          HasSession(u) /\ active[u].id # Reserved => <<active[u].id, u>> \in Credentials

\* A connection gets as far as the server list only with an account, although
\* the worker publishes account and state to a running event loop.
ListedStateHasAccount ==
    \A c \in Conns : state[c] \in {"AuthedLogin", "ServerList"} =>
       account[c] # NoUser /\ accountID[c] # NoUser

\* A connection missing from the clients map is closed or about to be: no
\* client escapes both the idle timeout and KickAccount.
OpenIsListed == \A c \in Conns : tcp[c] = "open" => c \in clients

Counted == clients \cup kicked \cup (IF clientMu = Unlocked THEN {} ELSE {clientMu.conn})

\* What the connection gauge counts: the clients in the map, the one whose
\* OnClose is under way, and, for good, every client that KickAccount removed.
GaugeCounts == gauge = Cardinality(Counted)

\* Logins of one user that do not overlap between TryRegister and SetAccount
\* leave at most one client logged in, as long as no game server has touched
\* the user's session: each take-over finds and kicks its predecessor.
SingleLogin ==
    \A u \in Users \ (overlapped \cup handedOver) : Cardinality(LoggedInAs(u)) <= 1

\* A client that closes takes only its own session with it, even when another
\* login registers between the Get and the Unregister of OnClose.
CloseTakesOwn ==
    [][\A u \in Users :
          clientMu # Unlocked /\ clientMu' = Unlocked
             /\ HasSession(u) /\ active'[u] = NoSession
             => active[u].id = clientMu.conn]_vars
----
(***************************************************************************)
(* What makes the safety properties inductive.                             *)
(***************************************************************************)

\* A worker past TryRegister works for a connection that authenticated.
JobAuthenticated ==
    \A w \in Workers : pc[w] \notin {"idle", "spawned", "auth"} =>
       <<job[w].conn, job[w].user>> \in Credentials

\* A worker publishes ID, account and state in this order.
PublishedInOrder ==
    \A w \in Workers :
       /\ pc[w] \in {"setAccount", "setState"} => accountID[job[w].conn] # NoUser
       /\ pc[w] = "setState" => account[job[w].conn] # NoUser

\* A connection that has not been opened is nowhere to be found.
NewIsUnknown ==
    \A c \in Conns : tcp[c] = "new" =>
       /\ c \notin clients \cup kicked
       /\ account[c] = NoUser
       /\ \A w \in Workers : pc[w] # "idle" => job[w].conn # c

\* A connection that has been kicked, or whose OnClose is under way, is not
\* in the map, and is not both.
ClosingIsUnlisted ==
    /\ clients \cap kicked = {}
    /\ clientMu # Unlocked =>
          tcp[clientMu.conn] = "closed" /\ clientMu.conn \notin clients \cup kicked

\* The users for whom SingleLogin says something.
Undisturbed == Users \ (overlapped \cup handedOver)

\* At most one login of the user is past TryRegister; from Register on it
\* finds nobody logged in, and its session stays until the client closes;
\* whoever is logged in owns the session.
OneAdmittedFor(u) ==
    /\ \A v, w \in Admitted(u) : v = w
    /\ HasSession(u) => active[u].server = 0
    /\ \A w \in Admitted(u) :
          /\ pc[w] # "kickGS"
          /\ pc[w] \in {"register", "setID", "setAccount"} => LoggedInAs(u) = {}
          /\ pc[w] \in {"setID", "setAccount"} /\ job[w].conn \in clients =>
                HasSession(u) /\ active[u].id = job[w].conn
    /\ \A c \in LoggedInAs(u) : HasSession(u) /\ active[u].id = c

OneAdmitted == \A u \in Undisturbed : OneAdmittedFor(u)
----
(***************************************************************************)
(* Liveness, under Fairness.                                               *)
(***************************************************************************)

\* Every login that was accepted comes to an end, whatever the other logins
\* and the closes do with the semaphore and with clientMu.
LoginFinishes == \A w \in Workers : pc[w] = "spawned" ~> pc[w] = "idle"

\* A connection that was dropped from the map is closed in the end.
DroppedCloses ==
    \A c \in Conns :
       c \notin clients /\ tcp[c] \in {"open", "queued", "closing"} ~> tcp[c] = "closed"
----
(***************************************************************************)
(* What the documentation says and the code does not do.                   *)
(***************************************************************************)

\* metrics.go: the gauge is "the current number of active client
\* connections", so with every connection closed it is zero.
GaugeDrains ==
    clientMu = Unlocked /\ (\A c \in Conns : tcp[c] \in {"new", "closed"}) => gauge = 0

\* README: concurrent logins are handled "by disconnecting existing
\* sessions", so a user who has not been in the game is logged in on one
\* client at a time.
OneClientPerUser == \A u \in Users \ handedOver : Cardinality(LoggedInAs(u)) <= 1

\* session_registry.go: an entry describes "an active user session", so once
\* nothing is under way the owner of an entry is connected or in the game.
NoGhostSession ==
    \A u \in Users :
       /\ HasSession(u) /\ active[u].id # Reserved /\ active[u].server = 0
       /\ clientMu = Unlocked
       /\ \A w \in Workers : pc[w] = "idle"
       => tcp[active[u].id] # "closed"
====
