---- MODULE GameServerLink ----
(***************************************************************************)
(* The game-server side of the login server: the game-server listener      *)
(* (src/internal/listener/gs_listener.go), its packet handlers             *)
(* (src/internal/packet/gs) and the list of game servers                   *)
(* (src/internal/service/server_list.go), around the session registry.     *)
(*                                                                         *)
(* The callbacks of one link run one after the other, those of different   *)
(* links in parallel.  HandlePlayerLogout takes the shard's lock twice and *)
(* OnClose the locks of the link map, of the server list and of every      *)
(* shard in turn, so both are split there.  A PlayerInGame packet with     *)
(* several accounts is several PlayerInGame steps.  KickAccount and        *)
(* RequestCharacters only send.                                            *)
(***************************************************************************)
EXTENDS SessionRegistry

CONSTANTS
    Links,       \* connections from game servers
    NoLink,      \* no game server is listed under the ID
    Listable,    \* the server IDs below MaxSupportedServers
    NumShards,   \* ShardCount
    ShardOf,     \* getShard
    NoLogout     \* the link is not inside HandlePlayerLogout

ASSUME ListableAssumption == Listable \subseteq ServerIDs
ASSUME NumShardsAssumption == NumShards \in Nat
ASSUME ShardOfAssumption == ShardOf \in [Users -> 0 .. NumShards - 1]
ASSUME NoLinkAssumption == NoLink \notin Links

Logouts == [user : Users, id : SessionIDs \cup {Reserved}]

ASSUME NoLogoutAssumption == NoLogout \notin Logouts

VARIABLES
    link,       \* link[l]: the life of the TCP connection, OnClose included
    servers,    \* GameServerListener.servers: the links in the map
    serverID,   \* GameServerClient.ServerID, 0 until the init packet
    listed,     \* ServerList: the link that registered each active server
    logout,     \* logout[l]: what HandlePlayerLogout has read
    shard,      \* shard[l]: the next shard that OnClose of l clears
    claims,     \* history: claims[l], the IDs l gave in its init packets
    dropped     \* history: the links OnTick has taken out of the map

linkVars == <<link, servers, serverID, listed, logout, shard, claims, dropped>>
vars == <<active, linkVars>>

LinkStates == {"new", "open", "queued", "closing", "unlist", "clear", "closed"}

TypeOK ==
    /\ RegistryTypeOK
    /\ link \in [Links -> LinkStates]
    /\ servers \subseteq Links
    /\ serverID \in [Links -> ServerIDs]
    /\ listed \in [Listable -> Links \cup {NoLink}]
    /\ logout \in [Links -> Logouts \cup {NoLogout}]
    /\ shard \in [Links -> 0 .. NumShards]
    /\ claims \in [Links -> SUBSET ServerIDs]
    /\ dropped \subseteq Links

Init ==
    /\ RegistryInit
    /\ link = [l \in Links |-> "new"]
    /\ servers = {}
    /\ serverID = [l \in Links |-> 0]
    /\ listed = [s \in Listable |-> NoLink]
    /\ logout = [l \in Links |-> NoLogout]
    /\ shard = [l \in Links |-> 0]
    /\ claims = [l \in Links |-> {}]
    /\ dropped = {}
----
(***************************************************************************)
(* Links.                                                                  *)
(***************************************************************************)
OnOpen(l) ==
    /\ link[l] = "new"
    /\ link' = [link EXCEPT ![l] = "open"]
    /\ servers' = servers \cup {l}
    /\ UNCHANGED <<active, serverID, listed, logout, shard, claims, dropped>>

\* OnTraffic may hand a packet to a handler.
Receiving(l) == link[l] \in {"open", "queued"} /\ logout[l] = NoLogout

\* A wrong size, or a handler's error: OnTraffic returns gnet.Close.
PacketError(l) ==
    /\ Receiving(l)
    /\ link' = [link EXCEPT ![l] = "closing"]
    /\ UNCHANGED <<active, servers, serverID, listed, logout, shard, claims, dropped>>

\* OnClose takes the link out of the map; a link that is in the map and has
\* an ID goes on to leave the server list and the registry.
OnClose(l) ==
    /\ link[l] \in {"open", "queued", "closing"}
    /\ logout[l] = NoLogout
    /\ servers' = servers \ {l}
    /\ link' = [link EXCEPT ![l] =
                  IF l \in servers /\ serverID[l] # 0 THEN "unlist" ELSE "closed"]
    /\ UNCHANGED <<active, serverID, listed, logout, shard, claims, dropped>>

\* serverList.Unregister, whoever registered the server last.
OnCloseUnlist(l) ==
    /\ link[l] = "unlist"
    /\ listed' = [s \in Listable |-> IF s = serverID[l] THEN NoLink ELSE listed[s]]
    /\ link' = [link EXCEPT ![l] = "clear"]
    /\ UNCHANGED <<active, servers, serverID, logout, shard, claims, dropped>>

\* The broken form: the last shard is never visited.
OnCloseClearButLast(l) ==
    /\ link[l] = "clear"
    /\ IF shard[l] < NumShards - 1
       THEN /\ ClearShard({u \in Users : ShardOf[u] = shard[l]}, serverID[l])
            /\ shard' = [shard EXCEPT ![l] = @ + 1]
            /\ UNCHANGED link
       ELSE /\ link' = [link EXCEPT ![l] = "closed"]
            /\ UNCHANGED <<active, shard>>
    /\ UNCHANGED <<servers, serverID, listed, logout, claims, dropped>>

\* The broken form: one shard too many is visited.
OnCloseClearPastLast(l) ==
    /\ link[l] = "clear"
    /\ IF shard[l] <= NumShards
       THEN /\ ClearShard({u \in Users : ShardOf[u] = shard[l]}, serverID[l])
            /\ shard' = [shard EXCEPT ![l] = @ + 1]
            /\ UNCHANGED link
       ELSE /\ link' = [link EXCEPT ![l] = "closed"]
            /\ UNCHANGED <<active, shard>>
    /\ UNCHANGED <<servers, serverID, listed, logout, claims, dropped>>

\* sessions.ClearServer, shard by shard, then OnClose returns.
OnCloseClear(l) ==
    /\ link[l] = "clear"
    /\ IF shard[l] < NumShards
       THEN /\ ClearShard({u \in Users : ShardOf[u] = shard[l]}, serverID[l])
            /\ shard' = [shard EXCEPT ![l] = @ + 1]
            /\ UNCHANGED link
       ELSE /\ link' = [link EXCEPT ![l] = "closed"]
            /\ UNCHANGED <<active, shard>>
    /\ UNCHANGED <<servers, serverID, listed, logout, claims, dropped>>

\* OnTick closes and forgets the links T that were silent for the timeout.
OnTick(T) ==
    /\ servers' = servers \ T
    /\ link' = [l \in Links |-> IF l \in T /\ link[l] = "open" THEN "queued" ELSE link[l]]
    /\ dropped' = dropped \cup T
    /\ UNCHANGED <<active, serverID, listed, logout, shard, claims>>
----
(***************************************************************************)
(* Packets.                                                                *)
(***************************************************************************)

\* HandleInit: the link takes the ID, and the server is listed when the ID
\* is in range.
HandleInit(l, s) ==
    /\ Receiving(l)
    /\ serverID' = [serverID EXCEPT ![l] = s]
    /\ listed' = [t \in Listable |-> IF t = s THEN l ELSE listed[t]]
    /\ claims' = [claims EXCEPT ![l] = @ \cup {s}]
    /\ UNCHANGED <<active, link, servers, logout, shard, dropped>>

\* HandlePlayerInGame for one account.
HandlePlayerInGame(l, u) ==
    /\ Receiving(l)
    /\ SetGS(u, serverID[l])
    /\ UNCHANGED linkVars

\* HandlePlayerLogout up to sessions.Get.
HandlePlayerLogout(l, u) ==
    /\ Receiving(l)
    /\ HasSession(u)
    /\ active[u].server = serverID[l]
    /\ logout' = [logout EXCEPT ![l] = [user |-> u, id |-> active[u].id]]
    /\ UNCHANGED <<active, link, servers, serverID, listed, shard, claims, dropped>>

\* The user has no session, or one on another server.
HandlePlayerLogoutIgnored(l, u) ==
    /\ Receiving(l)
    /\ HasSession(u) => active[u].server # serverID[l]
    /\ UNCHANGED vars

\* The rest of HandlePlayerLogout.
PlayerLogoutUnregister(l) ==
    /\ logout[l] # NoLogout
    /\ Unregister(logout[l].user, logout[l].id)
    /\ logout' = [logout EXCEPT ![l] = NoLogout]
    /\ UNCHANGED <<link, servers, serverID, listed, shard, claims, dropped>>
----
(***************************************************************************)
(* What the client side does to the registry; see LoginServer.             *)
(***************************************************************************)
ClientLogin(u) ==
    /\ \/ TryRegister(u)
       \/ \E i \in SessionIDs : Register(u, i)
    /\ UNCHANGED linkVars

ClientClose(u, i) == Unregister(u, i) /\ UNCHANGED linkVars

TimePasses == Elapse /\ UNCHANGED linkVars

LinkNext(l) ==
    \/ OnOpen(l)
    \/ PacketError(l)
    \/ OnClose(l)
    \/ OnCloseUnlist(l)
    \/ OnCloseClear(l)
    \/ \E s \in ServerIDs : HandleInit(l, s)
    \/ \E u \in Users :
          \/ HandlePlayerInGame(l, u)
          \/ HandlePlayerLogout(l, u)
          \/ HandlePlayerLogoutIgnored(l, u)
    \/ PlayerLogoutUnregister(l)

Next ==
    \/ \E l \in Links : LinkNext(l)
    \/ \E T \in SUBSET servers : T # {} /\ OnTick(T)
    \/ \E u \in Users : ClientLogin(u) \/ \E i \in SessionIDs : ClientClose(u, i)
    \/ TimePasses

Spec == Init /\ [][Next]_vars
----
(***************************************************************************)
(* Properties.                                                             *)
(***************************************************************************)

\* s is the ID of l and of nobody else: l gave one ID only, not 0, and no other
\* link gave it.
SoleServer(l, s) ==
    /\ s # 0
    /\ claims[l] = {s}
    /\ \A m \in Links \ {l} : s \notin claims[m]

\* When a game server's only link is closed by the peer or by an error, and
\* not by the idle timeout, no session is left on that server and it is off
\* the list, whatever logins and logouts happen while OnClose goes through
\* the shards.
ClosedServerIsCleared ==
    \A l \in Links \ dropped, s \in ServerIDs :
       link[l] = "closed" /\ SoleServer(l, s) =>
          /\ \A u \in Users : HasSession(u) => active[u].server # s
          /\ s \in Listable => listed[s] = NoLink

\* A logout reported by a game server ends the session that was there when
\* the packet was handled, never that of a login which has come in between.
LogoutSparesNewLogin ==
    [][\A l \in Links :
         LET out == logout[l] IN
         out # NoLogout /\ logout'[l] = NoLogout
            /\ HasSession(out.user) /\ active'[out.user] = NoSession
            => active[out.user].id = out.id]_vars

\* What the state of a link says of its other variables: its ID is one it gave,
\* it is in the map until it closes unless OnTick dropped it, and no shard has
\* been cleared before it is off the list.
LinkInOrder(l) ==
    /\ claims[l] = {} => serverID[l] = 0
    /\ claims[l] # {} => serverID[l] \in claims[l]
    /\ link[l] \in {"open", "queued", "closing"} => l \in servers \cup dropped
    /\ link[l] \notin {"clear", "closed"} => shard[l] = 0

LinksInOrder == \A l \in Links : LinkInOrder(l)

\* While OnClose of a sole link goes through the shards, those behind it hold
\* no session on its server: what makes ClosedServerIsCleared inductive.
ShardsBehindAreClear ==
    \A l \in Links \ dropped, s \in ServerIDs :
       link[l] \in {"clear", "closed"} /\ SoleServer(l, s) =>
          /\ \A u \in Users :
                HasSession(u) /\ active[u].server = s =>
                   link[l] = "clear" /\ ShardOf[u] >= shard[l]
          /\ s \in Listable => listed[s] = NoLink
----
(***************************************************************************)
(* What the tests say and the code does not do.                            *)
(***************************************************************************)

\* gs_listener_test.go: "Server should be unregistered after OnClose" and
\* "Session on disconnected server should be cleared", also when it was the
\* idle timeout that closed the connection.
ServerGoneAfterClose ==
    \A l \in Links, s \in Listable :
       link[l] = "closed" /\ SoleServer(l, s) => listed[s] = NoLink
====
