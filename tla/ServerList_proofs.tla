---- MODULE ServerList_proofs ----
(***************************************************************************)
(* Theorems about GameServerLink and the ServerList built on it, for any   *)
(* number of users, links, servers and shards and any reported values.     *)
(***************************************************************************)
EXTENDS ServerList, SessionRegistry_proofs, TLAPS

USE ListableAssumption, NumShardsAssumption, ShardOfAssumption, NoLinkAssumption,
    NoLogoutAssumption, ServerIDsAssumption

----
(***************************************************************************)
(* Type correctness.                                                       *)
(***************************************************************************)

\* A logout under way knows its user and the session it read.
LEMMA LogoutIsRecord ==
    ASSUME TypeOK, NEW l \in Links, logout[l] # NoLogout
    PROVE  logout[l].user \in Users
  BY DEF TypeOK, Logouts

\* The callbacks and packets of a link keep the types.
LEMMA LinkTyping ==
    ASSUME TypeOK, NEW l \in Links, LinkNext(l)
    PROVE  TypeOK'
  <1> USE DEF TypeOK
  <1>1. CASE OnOpen(l)
    BY <1>1 DEF OnOpen, LinkStates, RegistryTypeOK
  <1>2. CASE PacketError(l)
    BY <1>2 DEF PacketError, LinkStates, RegistryTypeOK
  <1>3. CASE OnClose(l)
    BY <1>3 DEF OnClose, LinkStates, RegistryTypeOK
  <1>4. CASE OnCloseUnlist(l)
    BY <1>4 DEF OnCloseUnlist, LinkStates, RegistryTypeOK
  <1>5. CASE OnCloseClear(l)
    <2>1. CASE shard[l] < NumShards
      <3>1. RegistryTypeOK'
        BY <1>5, <2>1, RegistryTyping DEF OnCloseClear
      <3>2. shard' \in [Links -> 0 .. NumShards]
        BY <1>5, <2>1 DEF OnCloseClear
      <3> QED BY <1>5, <2>1, <3>1, <3>2 DEF OnCloseClear
    <2>2. CASE ~(shard[l] < NumShards)
      BY <1>5, <2>2 DEF OnCloseClear, LinkStates, RegistryTypeOK
    <2> QED BY <2>1, <2>2
  <1>6. ASSUME NEW s \in ServerIDs, HandleInit(l, s) PROVE TypeOK'
    BY <1>6 DEF HandleInit, RegistryTypeOK
  <1>7. ASSUME NEW u \in Users, HandlePlayerInGame(l, u) PROVE TypeOK'
    BY <1>7, RegistryTyping DEF HandlePlayerInGame, linkVars
  <1>8. ASSUME NEW u \in Users, HandlePlayerLogout(l, u) PROVE TypeOK'
    <2>1. [user |-> u, id |-> active[u].id] \in Logouts
      BY <1>8, EntryIsRecord DEF HandlePlayerLogout, Logouts, SessionInfo
    <2> QED BY <1>8, <2>1 DEF HandlePlayerLogout, RegistryTypeOK
  <1>9. ASSUME NEW u \in Users, HandlePlayerLogoutIgnored(l, u) PROVE TypeOK'
    BY <1>9 DEF HandlePlayerLogoutIgnored, vars, linkVars, RegistryTypeOK
  <1>10. CASE PlayerLogoutUnregister(l)
    BY <1>10, LogoutIsRecord, RegistryTyping DEF PlayerLogoutUnregister
  <1> QED
    BY <1>1, <1>2, <1>3, <1>4, <1>5, <1>6, <1>7, <1>8, <1>9, <1>10 DEF LinkNext

\* Links, packets, timeouts and the client side keep the types; no sweep over
\* the shards goes past the last one.
THEOREM LinkTypeCorrect == Spec => []TypeOK
  <1>1. Init => TypeOK
    <2> SUFFICES ASSUME Init PROVE TypeOK
      OBVIOUS
    <2>1. shard \in [Links -> 0 .. NumShards]
      BY DEF Init
    <2>2. serverID \in [Links -> ServerIDs]
      BY DEF Init
    <2> QED BY <2>1, <2>2 DEF Init, TypeOK, LinkStates, RegistryInit, RegistryTypeOK
  <1>2. TypeOK /\ [Next]_vars => TypeOK'
    <2> SUFFICES ASSUME TypeOK, [Next]_vars PROVE TypeOK'
      OBVIOUS
    <2>1. ASSUME NEW l \in Links, LinkNext(l) PROVE TypeOK'
      BY <2>1, LinkTyping
    <2>2. ASSUME NEW T \in SUBSET servers, OnTick(T) PROVE TypeOK'
      BY <2>2 DEF OnTick, TypeOK, LinkStates, RegistryTypeOK
    <2>3. ASSUME NEW u \in Users, ClientLogin(u) PROVE TypeOK'
      BY <2>3, RegistryTyping DEF ClientLogin, TypeOK, linkVars
    <2>4. ASSUME NEW u \in Users, NEW i \in SessionIDs, ClientClose(u, i) PROVE TypeOK'
      BY <2>4, RegistryTyping DEF ClientClose, TypeOK, linkVars
    <2>5. CASE TimePasses
      BY <2>5, RegistryTyping DEF TimePasses, TypeOK, linkVars
    <2>6. CASE UNCHANGED vars
      BY <2>6 DEF vars, linkVars, TypeOK, RegistryTypeOK
    <2> QED BY <2>1, <2>2, <2>3, <2>4, <2>5, <2>6 DEF Next
  <1> QED BY <1>1, <1>2, PTL DEF Spec
----
(***************************************************************************)
(* A closed server is cleared.                                             *)
(***************************************************************************)

\* The steps that keep a link's variables in order.
LEMMA OrderStep ==
    ASSUME TypeOK, LinksInOrder, [Next]_vars
    PROVE  LinksInOrder'
  <1> SUFFICES ASSUME NEW l \in Links PROVE LinkInOrder(l)'
    BY DEF LinksInOrder
  <1>0. LinkInOrder(l)
    BY DEF LinksInOrder
  <1> USE DEF LinkInOrder, TypeOK
  <1>1. ASSUME NEW m \in Links,
               OnOpen(m) \/ PacketError(m) \/ OnClose(m) \/ OnCloseUnlist(m)
        PROVE  LinkInOrder(l)'
    BY <1>0, <1>1 DEF OnOpen, PacketError, Receiving, OnClose, OnCloseUnlist
  <1>2. ASSUME NEW m \in Links, OnCloseClear(m) PROVE LinkInOrder(l)'
    BY <1>0, <1>2 DEF OnCloseClear
  <1>3. ASSUME NEW m \in Links, NEW s \in ServerIDs, HandleInit(m, s)
        PROVE  LinkInOrder(l)'
    BY <1>0, <1>3 DEF HandleInit
  <1>4. ASSUME NEW T \in SUBSET servers, OnTick(T) PROVE LinkInOrder(l)'
    BY <1>0, <1>4 DEF OnTick
  <1>5. CASE UNCHANGED <<link, servers, serverID, shard, claims, dropped>>
    BY <1>0, <1>5
  <1> QED
    BY <1>1, <1>2, <1>3, <1>4, <1>5
    DEF Next, LinkNext, HandlePlayerInGame, HandlePlayerLogout,
        HandlePlayerLogoutIgnored, PlayerLogoutUnregister, ClientLogin, ClientClose,
        TimePasses, linkVars, vars

LEMMA LinksStayInOrder == Spec => []LinksInOrder
  <1>1. Init => LinksInOrder
    BY DEF Init, LinksInOrder, LinkInOrder
  <1>2. TypeOK /\ LinksInOrder /\ [Next]_vars => LinksInOrder'
    BY OrderStep
  <1> QED BY <1>1, <1>2, LinkTypeCorrect, PTL DEF Spec

\* What ShardsBehindAreClear says of one link and the server it claims.
Behind(l, s) ==
    /\ \A u \in Users : OnServer(u, s) => link[l] = "clear" /\ ShardOf[u] >= shard[l]
    /\ s \in Listable => listed[s] = NoLink

Leaving(l, s) == l \notin dropped /\ link[l] \in {"clear", "closed"} /\ SoleServer(l, s)

LEMMA BehindIsClear ==
    ShardsBehindAreClear <=> \A l \in Links, s \in ServerIDs : Leaving(l, s) => Behind(l, s)
  BY DEF ShardsBehindAreClear, Behind, Leaving, OnServer

\* The ID of a link that has left the list is the one it gave, and no other
\* link has it.
LEMMA SoleID ==
    ASSUME TypeOK, LinksInOrder, NEW l \in Links, NEW s, SoleServer(l, s)
    PROVE  serverID[l] = s /\ \A m \in Links \ {l} : serverID[m] # s
  BY DEF LinksInOrder, LinkInOrder, SoleServer

\* A link that claims an ID for itself after a step did so before, unless it
\* has just sent its init packet.
LEMMA SoleBefore ==
    ASSUME TypeOK, [Next]_vars, NEW l \in Links, NEW s, SoleServer(l, s)',
           claims'[l] = claims[l]
    PROVE  SoleServer(l, s)
  <1> SUFFICES \A m \in Links : claims[m] \subseteq claims'[m]
    BY DEF SoleServer
  <1>1. ASSUME NEW k \in Links, NEW t \in ServerIDs, HandleInit(k, t)
        PROVE  \A m \in Links : claims[m] \subseteq claims'[m]
    BY <1>1 DEF HandleInit, TypeOK
  <1>2. CASE UNCHANGED claims
    BY <1>2
  <1> QED
    BY <1>1, <1>2
    DEF Next, LinkNext, OnOpen, PacketError, OnClose, OnCloseUnlist, OnCloseClear,
        OnTick, HandlePlayerInGame, HandlePlayerLogout, HandlePlayerLogoutIgnored,
        PlayerLogoutUnregister, ClientLogin, ClientClose, TimePasses, linkVars, vars

\* Every step leaves the shards behind a closing link clear.
LEMMA BehindStep ==
    ASSUME TypeOK, LinksInOrder, ShardsBehindAreClear, [Next]_vars
    PROVE  ShardsBehindAreClear'
  <1>0. \A l \in Links, s \in ServerIDs : Leaving(l, s) => Behind(l, s)
    BY BehindIsClear
  <1> SUFFICES ASSUME NEW l \in Links, NEW s \in ServerIDs, Leaving(l, s)'
               PROVE  Behind(l, s)'
    BY BehindIsClear DEF ShardsBehindAreClear, Behind, Leaving, OnServer
  <1>reg. RegistryTypeOK
    BY DEF TypeOK
  <1>s. s # 0
    BY DEF Leaving, SoleServer
  <1>1. ASSUME UNCHANGED <<link, listed, shard, claims, dropped>>,
               \A u \in Users : OnServer(u, s)' => OnServer(u, s)
        PROVE  Behind(l, s)'
    <2>1. Leaving(l, s)
      BY <1>1 DEF Leaving, SoleServer
    <2> QED BY <1>0, <1>1, <2>1 DEF Behind
  <1>2. ASSUME UNCHANGED <<active, listed, shard, claims>>, l \notin dropped,
               link[l] = link'[l]
        PROVE  Behind(l, s)'
    <2>1. Leaving(l, s)
      BY <1>2 DEF Leaving, SoleServer
    <2> QED BY <1>0, <1>2, <2>1 DEF Behind, OnServer, HasSession
  <1>3. ASSUME NEW m \in Links, OnOpen(m) \/ PacketError(m) PROVE Behind(l, s)'
    <2>1. link[l] = link'[l]
      BY <1>3 DEF OnOpen, PacketError, Leaving, TypeOK
    <2> QED BY <1>2, <1>3, <2>1 DEF OnOpen, PacketError, Leaving
  <1>4. ASSUME NEW m \in Links, OnClose(m) PROVE Behind(l, s)'
    <2>1. link[l] = link'[l]
      <3>1. CASE m # l
        BY <1>4, <3>1 DEF OnClose, TypeOK
      <3>2. CASE m = l
        <4>1. SoleServer(l, s) /\ l \notin dropped
          BY <1>4 DEF OnClose, Leaving, SoleServer
        <4>2. serverID[l] # 0
          BY <4>1, <1>s, SoleID
        <4>3. l \in servers
          BY <1>4, <3>2, <4>1 DEF OnClose, LinksInOrder, LinkInOrder
        <4>4. link'[l] = "unlist"
          BY <1>4, <3>2, <4>2, <4>3 DEF OnClose, TypeOK
        <4> QED BY <4>4 DEF Leaving
      <3> QED BY <3>1, <3>2
    <2> QED BY <1>2, <1>4, <2>1 DEF OnClose, Leaving
  <1>5. ASSUME NEW m \in Links, OnCloseUnlist(m) PROVE Behind(l, s)'
    <2>1. SoleServer(l, s) /\ l \notin dropped
      BY <1>5 DEF OnCloseUnlist, Leaving, SoleServer
    <2>2. CASE m = l
      <3>1. serverID[l] = s
        BY <2>1, SoleID
      <3>2. link'[l] = "clear" /\ shard'[l] = 0
        BY <1>5, <2>2 DEF OnCloseUnlist, LinksInOrder, LinkInOrder, TypeOK
      <3>3. \A u \in Users : ShardOf[u] >= 0
        OBVIOUS
      <3> QED BY <1>5, <2>2, <3>1, <3>2, <3>3 DEF OnCloseUnlist, Behind
    <2>3. CASE m # l
      <3>1. link[l] = link'[l]
        BY <1>5, <2>3 DEF OnCloseUnlist, TypeOK
      <3>2. Behind(l, s)
        BY <1>0, <2>1, <3>1 DEF Leaving
      <3> QED BY <1>5, <3>1, <3>2 DEF OnCloseUnlist, Behind, OnServer, HasSession
    <2> QED BY <2>2, <2>3
  <1>6. ASSUME NEW m \in Links, OnCloseClear(m) PROVE Behind(l, s)'
    <2>1. SoleServer(l, s) /\ l \notin dropped
      BY <1>6 DEF OnCloseClear, Leaving, SoleServer
    <2>2. link[l] \in {"clear", "closed"}
      BY <1>6 DEF OnCloseClear, Leaving, TypeOK
    <2>3. Behind(l, s)
      BY <1>0, <2>1, <2>2 DEF Leaving
    <2>4. UNCHANGED listed
      BY <1>6 DEF OnCloseClear
    <2>5. CASE shard[m] < NumShards
      <3> DEFINE S == {u \in Users : ShardOf[u] = shard[m]}
      <3>1. /\ ClearShard(S, serverID[m])
            /\ shard' = [shard EXCEPT ![m] = @ + 1] /\ UNCHANGED link
        BY <1>6, <2>5 DEF OnCloseClear
      <3>2. \A u \in Users : OnServer(u, s)' => OnServer(u, s)
        BY <3>1, <1>reg, <1>s, ServerKept
      <3>3. CASE m # l
        <4>1. shard'[l] = shard[l]
          BY <3>1, <3>3 DEF TypeOK
        <4> QED BY <2>3, <2>4, <3>1, <3>2, <4>1 DEF Behind
      <3>4. CASE m = l
        <4>1. ClearShard(S, s) /\ shard'[l] = shard[l] + 1 /\ shard[l] \in Nat
          BY <2>1, <3>1, <3>4, SoleID DEF TypeOK
        <4>2. \A u \in Users : OnServer(u, s)' => ShardOf[u] # shard[l]
          BY <3>4, <4>1, ClearShardClears
        <4>3. \A u \in Users : ShardOf[u] \in Nat
          OBVIOUS
        <4>4. \A u \in Users : OnServer(u, s)' => ShardOf[u] >= shard'[l]
          BY <2>3, <3>2, <4>1, <4>2, <4>3 DEF Behind
        <4> QED BY <2>3, <2>4, <3>1, <3>2, <4>4 DEF Behind
      <3> QED BY <3>3, <3>4
    <2>6. CASE ~(shard[m] < NumShards)
      <3>1. link' = [link EXCEPT ![m] = "closed"] /\ UNCHANGED <<active, shard>>
        BY <1>6, <2>6 DEF OnCloseClear
      <3>2. \A u \in Users : OnServer(u, s)' <=> OnServer(u, s)
        BY <3>1 DEF OnServer, HasSession
      <3>3. CASE m # l
        BY <2>3, <2>4, <3>1, <3>2, <3>3 DEF Behind, TypeOK
      <3>4. CASE m = l
        <4>1. \A u \in Users : ~(ShardOf[u] >= shard[l])
          BY <2>6, <3>4 DEF TypeOK
        <4> QED BY <2>3, <2>4, <3>1, <3>2, <4>1 DEF Behind
      <3> QED BY <3>3, <3>4
    <2> QED BY <2>5, <2>6
  <1>7. ASSUME NEW m \in Links, NEW t \in ServerIDs, HandleInit(m, t)
        PROVE  Behind(l, s)'
    <2>1. m # l /\ UNCHANGED <<active, link, shard, dropped>>
      BY <1>7 DEF HandleInit, Receiving, Leaving
    <2>2. claims'[l] = claims[l] /\ t \in claims'[m]
      BY <1>7, <2>1 DEF HandleInit, TypeOK
    <2>3. t # s
      BY <2>1, <2>2 DEF Leaving, SoleServer
    <2>4. Leaving(l, s)
      BY <2>1, <2>2, SoleBefore DEF Leaving
    <2>5. s \in Listable => listed'[s] = listed[s]
      BY <1>7, <2>3 DEF HandleInit
    <2> QED BY <1>0, <2>1, <2>4, <2>5 DEF Behind, OnServer, HasSession
  <1>8. ASSUME NEW m \in Links, NEW v \in Users, HandlePlayerInGame(m, v)
        PROVE  Behind(l, s)'
    <2>1. UNCHANGED linkVars /\ SetGS(v, serverID[m]) /\ m # l
      BY <1>8 DEF HandlePlayerInGame, Receiving, Leaving, linkVars
    <2>2. SoleServer(l, s)
      BY <2>1 DEF Leaving, SoleServer, linkVars
    <2>3. serverID[m] # s /\ serverID[m] \in ServerIDs
      BY <2>1, <2>2, SoleID DEF TypeOK
    <2>4. \A u \in Users : OnServer(u, s)' => OnServer(u, s)
      BY <1>reg, <2>1, <2>3, SetGSMoves
    <2> QED BY <1>1, <2>1, <2>4 DEF linkVars
  <1>9. ASSUME NEW m \in Links, NEW v \in Users,
               HandlePlayerLogout(m, v) \/ HandlePlayerLogoutIgnored(m, v)
        PROVE  Behind(l, s)'
    BY <1>2, <1>9 DEF HandlePlayerLogout, HandlePlayerLogoutIgnored, vars, linkVars, Leaving
  <1>10. ASSUME NEW m \in Links, PlayerLogoutUnregister(m) PROVE Behind(l, s)'
    <2>1. \A u \in Users : OnServer(u, s)' => OnServer(u, s)
      BY <1>reg, <1>s, <1>10, LogoutIsRecord, ServerKept DEF PlayerLogoutUnregister
    <2> QED BY <1>1, <1>10, <2>1 DEF PlayerLogoutUnregister
  <1>11. ASSUME NEW T \in SUBSET servers, OnTick(T) PROVE Behind(l, s)'
    <2>1. l \notin dropped /\ link[l] = link'[l]
      BY <1>11 DEF OnTick, Leaving, TypeOK
    <2> QED BY <1>2, <1>11, <2>1 DEF OnTick
  <1>12. ASSUME NEW v \in Users, ClientLogin(v) PROVE Behind(l, s)'
    <2>1. \A u \in Users : OnServer(u, s)' => OnServer(u, s)
      BY <1>reg, <1>s, <1>12, ServerKept DEF ClientLogin
    <2> QED BY <1>1, <1>12, <2>1 DEF ClientLogin, linkVars
  <1>13. ASSUME NEW v \in Users, NEW i \in SessionIDs, ClientClose(v, i)
         PROVE  Behind(l, s)'
    <2>1. \A u \in Users : OnServer(u, s)' => OnServer(u, s)
      BY <1>reg, <1>s, <1>13, ServerKept DEF ClientClose
    <2> QED BY <1>1, <1>13, <2>1 DEF ClientClose, linkVars
  <1>14. CASE TimePasses
    <2>1. \A u \in Users : OnServer(u, s)' => OnServer(u, s)
      BY <1>reg, <1>s, <1>14, ServerKept DEF TimePasses
    <2> QED BY <1>1, <1>14, <2>1 DEF TimePasses, linkVars
  <1>15. CASE UNCHANGED vars
    BY <1>2, <1>15 DEF vars, linkVars, Leaving
  <1> QED
    BY <1>3, <1>4, <1>5, <1>6, <1>7, <1>8, <1>9, <1>10, <1>11, <1>12, <1>13,
       <1>14, <1>15
    DEF Next, LinkNext

\* Whatever happens while OnClose goes through the shards, the sole link of a
\* game server that closes, and was not dropped by the idle timeout, leaves no
\* session on that server and takes it off the list.
THEOREM ClosedServersAreCleared == Spec => []ClosedServerIsCleared
  <1>1. Init => ShardsBehindAreClear
    BY DEF Init, ShardsBehindAreClear
  <1>2. TypeOK /\ LinksInOrder /\ ShardsBehindAreClear /\ [Next]_vars
          => ShardsBehindAreClear'
    BY BehindStep
  <1>3. ShardsBehindAreClear => ClosedServerIsCleared
    BY DEF ShardsBehindAreClear, ClosedServerIsCleared
  <1> QED BY <1>1, <1>2, <1>3, LinkTypeCorrect, LinksStayInOrder, PTL DEF Spec
----
\* A logout ends the session that HandlePlayerLogout read, never that of a
\* login which has come in between: Unregister compares the SessionID.
THEOREM LogoutsSpareNewLogins == Spec => LogoutSparesNewLogin
  <1> DEFINE Spared ==
        \A l \in Links :
          LET out == logout[l] IN
          out # NoLogout /\ logout'[l] = NoLogout
             /\ HasSession(out.user) /\ active'[out.user] = NoSession
             => active[out.user].id = out.id
  <1>1. ASSUME TypeOK, [Next]_vars PROVE Spared
    <2> SUFFICES ASSUME NEW l \in Links, logout[l] # NoLogout, logout'[l] = NoLogout,
                        HasSession(logout[l].user),
                        active'[logout[l].user] = NoSession
                 PROVE  active[logout[l].user].id = logout[l].id
      OBVIOUS
    <2>0. logout[l].user \in Users
      BY <1>1, LogoutIsRecord
    <2>1. CASE PlayerLogoutUnregister(l)
      BY <1>1, <2>0, <2>1 DEF PlayerLogoutUnregister, Unregister, HasSession, TypeOK,
                              RegistryTypeOK
    <2>2. ASSUME NEW m \in Links, m # l, PlayerLogoutUnregister(m)
          PROVE  FALSE
      BY <1>1, <2>2 DEF PlayerLogoutUnregister, TypeOK
    <2>3. ASSUME NEW m \in Links, NEW u \in Users, HandlePlayerLogout(m, u)
          PROVE  FALSE
      BY <1>1, <2>3 DEF HandlePlayerLogout, Receiving, TypeOK
    <2>4. CASE UNCHANGED logout
      BY <2>4
    <2> QED
      BY <1>1, <2>1, <2>2, <2>3, <2>4
      DEF Next, LinkNext, OnOpen, PacketError, OnClose, OnCloseUnlist, OnCloseClear,
          OnTick, HandleInit, HandlePlayerInGame, HandlePlayerLogoutIgnored,
          ClientLogin, ClientClose, TimePasses, linkVars, vars
  <1> QED BY <1>1, LinkTypeCorrect, PTL DEF Spec, LogoutSparesNewLogin
----
(***************************************************************************)
(* The server list.                                                        *)
(***************************************************************************)

\* Every step of the list is a step of the links under it, or none.
LEMMA ListStepIsLinkStep ==
    ASSUME [ListNext]_allVars
    PROVE  [Next]_vars
  BY DEF ListNext, allVars, OtherStep, OtherLinkStep, Next, LinkNext, OnCloseUnlistClears,
         HandleInitListed, HandleStatus, HandleReplyCharacters, ClientCloseListed,
         RemoveAccount, vars

\* The list with its entries and counts implements the links alone: reports,
\* character counts and RemoveAccount are stuttering steps of GameServerLink.
THEOREM ListImplementsLinks == ListSpec => Spec
  <1>1. ListInit => Init
    BY DEF ListInit
  <1>2. [ListNext]_allVars => [Next]_vars
    BY ListStepIsLinkStep
  <1> QED BY <1>1, <1>2, PTL DEF ListSpec, Spec

\* The steps that write entries or counts; every other step leaves the list and
\* the IDs and claims of the links alone.
LEMMA ListSteps ==
    ASSUME [ListNext]_allVars
    PROVE  \/ \E l \in Links : OnCloseUnlistClears(l)
           \/ \E l \in Links, s \in ServerIDs, v \in Reports : HandleInitListed(l, s, v)
           \/ \E l \in Links, v \in Reports : HandleStatus(l, v)
           \/ \E l \in Links, u \in Users, n \in CharCounts : HandleReplyCharacters(l, u, n)
           \/ \E u \in Users, i \in SessionIDs : ClientCloseListed(u, i)
           \/ \E u \in Users : RemoveAccount(u)
           \/ UNCHANGED <<listVars, listed, claims>>
  BY DEF ListNext, allVars, listVars, OtherStep, OtherLinkStep, OnOpen, PacketError, OnClose,
         OnCloseClear, HandlePlayerInGame, HandlePlayerLogout, HandlePlayerLogoutIgnored,
         PlayerLogoutUnregister, OnTick, ClientLogin, TimePasses, vars, linkVars

\* What the conversions to int16 and byte return, and what they keep.
LEMMA Conversions ==
    /\ \A v \in Nat : Int16(v) \in Players /\ Byte(v) \in 0 .. ByteSize - 1
    /\ \A v \in Nat : Fits(v) => Int16(v) = v
    /\ 0 \in Players
    /\ Int16(0) = 0 /\ Byte(1) = 1 /\ Byte(0) = 0
  <1> USE WidthAssumption
  <1>1. ASSUME NEW v \in Nat PROVE (v + Half) % (2 * Half) \in 0 .. 2 * Half - 1
    OBVIOUS
  <1>2. ASSUME NEW v \in Nat PROVE Byte(v) \in 0 .. ByteSize - 1
    BY DEF Byte
  <1>3. ASSUME NEW a \in Nat, NEW b \in Nat, a < b PROVE a % b = a
    BY <1>3
  <1>4. ASSUME NEW v \in Nat, Fits(v) PROVE Int16(v) = v
    <2>1. v + Half < 2 * Half
      BY <1>4 DEF Fits
    <2>2. (v + Half) % (2 * Half) = v + Half
      BY <1>3, <2>1
    <2> QED BY <2>2 DEF Int16
  <1>5. Fits(0)
    BY DEF Fits
  <1>6. 0 \in Players
    BY DEF Players
  <1>7. Byte(1) = 1 /\ Byte(0) = 0
    BY <1>3 DEF Byte
  <1>8. \A v \in Nat : Int16(v) \in Players
    BY <1>1 DEF Int16, Players
  <1> QED BY <1>2, <1>4, <1>5, <1>6, <1>7, <1>8

InfoType == [cur : Players, max : Players, status : 0 .. ByteSize - 1]
ToldType == [cur : Nat, max : Nat, status : Nat]
CountType == [Listable -> CharCounts \cup {0}]

\* The part of ListTypeOK about the list itself.
ListTyped ==
    /\ info \in [Listable -> InfoType]
    /\ charCounts \in [Users -> CountType \cup {NoCounts}]
    /\ leaving \subseteq Users
    /\ told \in [Links -> ToldType]

LEMMA ListTypedIsType == ListTypeOK <=> TypeOK /\ ListTyped
  BY DEF ListTypeOK, ListTyped, InfoType, ToldType, CountType

\* The counts that SetCharCount starts from are an array.
LEMMA CountsAreArray ==
    ASSUME ListTyped, NEW u \in Users
    PROVE  Counts(u) \in CountType
  BY DEF ListTyped, Counts, CountType

LEMMA ListTyping ==
    ASSUME TypeOK, ListTyped, [ListNext]_allVars
    PROVE  ListTyped'
  <1> USE ReportsAssumption, CharCountsAssumption
  <1>0. NoInfo \in InfoType /\ NoInfo \in ToldType
    BY Conversions, WidthAssumption DEF NoInfo, InfoType, ToldType
  <1>1. ASSUME NEW l \in Links, OnCloseUnlistClears(l) PROVE ListTyped'
    BY <1>0, <1>1 DEF OnCloseUnlistClears, ListTyped
  <1>2. ASSUME NEW l \in Links, NEW s \in ServerIDs, NEW v \in Reports, HandleInitListed(l, s, v)
        PROVE  ListTyped'
    <2>1. v \in Nat /\ 1 \in 0 .. ByteSize - 1
      BY WidthAssumption
    <2>2. [cur |-> 0, max |-> Int16(v), status |-> 1] \in InfoType
      BY <2>1, Conversions DEF InfoType
    <2>3. [cur |-> 0, max |-> v, status |-> 1] \in ToldType
      BY <2>1 DEF ToldType
    <2> QED BY <1>2, <2>2, <2>3 DEF HandleInitListed, ListTyped
  <1>3. ASSUME NEW l \in Links, NEW v \in Reports, HandleStatus(l, v) PROVE ListTyped'
    <2> DEFINE old == IF serverID[l] \in Listable THEN info[serverID[l]] ELSE NoInfo
    <2>1. old \in InfoType /\ told[l] \in ToldType /\ v \in Nat
      BY <1>0 DEF ListTyped
    <2>2. [old EXCEPT !.status = Byte(v)] \in InfoType
      BY <2>1, Conversions DEF InfoType
    <2>3. [old EXCEPT !.cur = Int16(v)] \in InfoType
      BY <2>1, Conversions DEF InfoType
    <2>4. [told[l] EXCEPT !.status = v] \in ToldType /\ [told[l] EXCEPT !.cur = v] \in ToldType
      BY <2>1 DEF ToldType
    <2>5. \E e \in InfoType : UpdateStatus(serverID[l], e)
      BY <1>3, <2>2, <2>3 DEF HandleStatus
    <2>6. info' \in [Listable -> InfoType]
      BY <2>5 DEF UpdateStatus, ListTyped
    <2>7. \E t \in ToldType : told' = [told EXCEPT ![l] = t]
      BY <1>3, <2>4 DEF HandleStatus
    <2>8. told' \in [Links -> ToldType]
      BY <2>7 DEF ListTyped
    <2> QED BY <1>3, <2>6, <2>8 DEF HandleStatus, ListTyped
  <1>4. ASSUME NEW l \in Links, NEW u \in Users, NEW n \in CharCounts,
               HandleReplyCharacters(l, u, n)
        PROVE  ListTyped'
    <2>1. [Counts(u) EXCEPT ![serverID[l]] = n] \in CountType
      BY CountsAreArray DEF CountType
    <2>2. charCounts' \in [Users -> CountType \cup {NoCounts}]
      BY <1>4, <2>1 DEF HandleReplyCharacters, SetCharCount, ListTyped
    <2> QED BY <1>4, <2>2 DEF HandleReplyCharacters, ListTyped
  <1>5. ASSUME NEW u \in Users, NEW i \in SessionIDs, ClientCloseListed(u, i) PROVE ListTyped'
    BY <1>5 DEF ClientCloseListed, ListTyped
  <1>6. ASSUME NEW u \in Users, RemoveAccount(u) PROVE ListTyped'
    BY <1>6 DEF RemoveAccount, ListTyped
  <1>7. CASE UNCHANGED listVars
    BY <1>7 DEF listVars, ListTyped
  <1> QED BY <1>1, <1>2, <1>3, <1>4, <1>5, <1>6, <1>7, ListSteps

\* The links and the list keep their types: what a game server reports comes
\* out of int16 and byte in range, whatever the 32 bits were.
THEOREM ListTypeCorrect == ListSpec => []ListTypeOK
  <1>1. ListInit => ListTyped
    BY Conversions, WidthAssumption
    DEF ListInit, ListTyped, NoInfo, InfoType, ToldType
  <1>2. TypeOK /\ ListTyped /\ [ListNext]_allVars => ListTyped'
    BY ListTyping
  <1>3. TypeOK /\ ListTyped => ListTypeOK
    BY ListTypedIsType
  <1> QED
    BY <1>1, <1>2, <1>3, ListImplementsLinks, LinkTypeCorrect, PTL DEF ListSpec
----
\* Unregister blanks an entry, and UpdateStatus returns at once on an inactive
\* one: no report of a second link with the ID brings a server that is off the
\* list back to life.
THEOREM UnlistedStaysBlank == ListSpec => []UnlistedIsBlank
  <1>1. ListInit => UnlistedIsBlank
    BY DEF ListInit, UnlistedIsBlank
  <1>2. ASSUME ListTypeOK, UnlistedIsBlank, [ListNext]_allVars PROVE UnlistedIsBlank'
    <2> USE <1>2 DEF UnlistedIsBlank
    <2>1. ASSUME NEW l \in Links, OnCloseUnlistClears(l) PROVE UnlistedIsBlank'
      BY <2>1 DEF OnCloseUnlistClears, OnCloseUnlist
    <2>2. ASSUME NEW l \in Links, NEW s \in ServerIDs, NEW v \in Reports,
                 HandleInitListed(l, s, v)
          PROVE  UnlistedIsBlank'
      BY <2>2 DEF HandleInitListed, HandleInit
    <2>3. ASSUME NEW l \in Links, NEW v \in Reports, HandleStatus(l, v) PROVE UnlistedIsBlank'
      BY <2>3 DEF HandleStatus, UpdateStatus, vars, linkVars
    <2>4. CASE UNCHANGED <<info, listed>>
      BY <2>4
    <2> QED
      BY <2>1, <2>2, <2>3, <2>4, ListSteps
      DEF HandleReplyCharacters, ClientCloseListed, ClientClose, RemoveAccount, listVars,
          vars, linkVars
  <1> QED BY <1>1, <1>2, ListTypeCorrect, PTL DEF ListSpec
----
\* The entry of a listed server with one link is what the link last said, in
\* the widths of the entry: what makes ListIsTruthful inductive.
Entry(t) == [cur |-> Int16(t.cur), max |-> Int16(t.max), status |-> Byte(t.status)]

EntryIsReport ==
    \A l \in Links, s \in Listable :
       SoleServer(l, s) /\ listed[s] # NoLink => info[s] = Entry(told[l])

LEMMA ReportStep ==
    ASSUME ListTypeOK, LinksInOrder, EntryIsReport, [ListNext]_allVars
    PROVE  EntryIsReport'
  <1> SUFFICES ASSUME NEW l \in Links, NEW s \in Listable,
                      SoleServer(l, s)', listed'[s] # NoLink
               PROVE  info'[s] = Entry(told'[l])
    BY DEF EntryIsReport, Entry
  <1>0. TypeOK /\ ListTyped /\ told[l] \in ToldType /\ info[s] \in InfoType
    BY ListTypedIsType DEF ListTyped
  <1>a. [Next]_vars
    BY ListStepIsLinkStep
  <1>b. claims'[l] = claims[l] => SoleServer(l, s)
    BY <1>0, <1>a, SoleBefore
  <1>1. ASSUME NEW m \in Links, OnCloseUnlistClears(m) PROVE info'[s] = Entry(told'[l])
    <2>1. listed'[s] = listed[s] /\ s # serverID[m] /\ UNCHANGED <<claims, told>>
      BY <1>1 DEF OnCloseUnlistClears, OnCloseUnlist
    <2>2. info'[s] = info[s]
      BY <1>1, <2>1 DEF OnCloseUnlistClears
    <2> QED BY <1>b, <2>1, <2>2 DEF EntryIsReport
  <1>2. ASSUME NEW m \in Links, NEW t \in ServerIDs, NEW v \in Reports,
               HandleInitListed(m, t, v)
        PROVE  info'[s] = Entry(told'[l])
    <2>1. t \in claims'[m]
      BY <1>0, <1>2 DEF HandleInitListed, HandleInit, TypeOK
    <2>2. CASE m = l
      <3>1. t = s
        BY <2>1, <2>2 DEF SoleServer
      <3>2. info'[s] = [cur |-> 0, max |-> Int16(v), status |-> 1]
        BY <1>2, <3>1 DEF HandleInitListed
      <3>3. told'[l] = [cur |-> 0, max |-> v, status |-> 1]
        BY <1>0, <1>2, <2>2 DEF HandleInitListed, ListTyped
      <3> QED BY <3>2, <3>3, Conversions DEF Entry
    <2>3. CASE m # l
      <3>1. t # s
        BY <2>1, <2>3 DEF SoleServer
      <3>2. info'[s] = info[s] /\ listed'[s] = listed[s]
        BY <1>2, <3>1 DEF HandleInitListed, HandleInit
      <3>3. told'[l] = told[l] /\ claims'[l] = claims[l]
        BY <1>0, <1>2, <2>3 DEF HandleInitListed, HandleInit, ListTyped, TypeOK
      <3> QED BY <1>b, <3>2, <3>3 DEF EntryIsReport
    <2> QED BY <2>2, <2>3
  <1>3. ASSUME NEW m \in Links, NEW v \in Reports, HandleStatus(m, v)
        PROVE  info'[s] = Entry(told'[l])
    <2>1. UNCHANGED <<listed, claims>>
      BY <1>3 DEF HandleStatus, vars, linkVars
    <2>2. SoleServer(l, s) /\ listed[s] # NoLink
      BY <1>b, <2>1
    <2>3. info[s] = Entry(told[l])
      BY <2>2 DEF EntryIsReport
    <2>4. serverID[l] = s /\ \A k \in Links \ {l} : serverID[k] # s
      BY <1>0, <2>2, SoleID
    <2>5. CASE m # l
      <3>1. told'[l] = told[l]
        BY <1>0, <1>3, <2>5 DEF HandleStatus, ListTyped
      <3>2. info'[s] = info[s]
        BY <1>3, <2>4, <2>5 DEF HandleStatus, UpdateStatus
      <3> QED BY <2>3, <3>1, <3>2
    <2>6. CASE m = l
      <3>1. CASE /\ UpdateStatus(s, [info[s] EXCEPT !.status = Byte(v)])
                 /\ told' = [told EXCEPT ![l].status = v]
        <4>1. info'[s] = [info[s] EXCEPT !.status = Byte(v)]
          BY <2>2, <3>1 DEF UpdateStatus
        <4>2. told'[l] = [told[l] EXCEPT !.status = v]
          BY <1>0, <3>1 DEF ListTyped
        <4> QED BY <1>0, <2>3, <4>1, <4>2 DEF Entry, InfoType, ToldType
      <3>2. CASE /\ UpdateStatus(s, [info[s] EXCEPT !.cur = Int16(v)])
                 /\ told' = [told EXCEPT ![l].cur = v]
        <4>1. info'[s] = [info[s] EXCEPT !.cur = Int16(v)]
          BY <2>2, <3>2 DEF UpdateStatus
        <4>2. told'[l] = [told[l] EXCEPT !.cur = v]
          BY <1>0, <3>2 DEF ListTyped
        <4> QED BY <1>0, <2>3, <4>1, <4>2 DEF Entry, InfoType, ToldType
      <3> QED BY <1>3, <2>4, <2>6, <3>1, <3>2 DEF HandleStatus
    <2> QED BY <2>5, <2>6
  <1>4. CASE UNCHANGED <<info, told, listed, claims>>
    BY <1>4, <1>b DEF EntryIsReport
  <1> QED
    BY <1>1, <1>2, <1>3, <1>4, ListSteps
    DEF HandleReplyCharacters, ClientCloseListed, ClientClose, RemoveAccount, listVars,
        vars, linkVars

\* Every list sent to a client shows of a server with one link what the link
\* last said, and shows it down just when it said so or is full, for all
\* numbers of players that fit in an int16.
THEOREM ListsAreTruthful == ListSpec => []ListIsTruthful
  <1>1. ListInit => EntryIsReport
    BY DEF ListInit, Init, EntryIsReport, SoleServer
  <1>2. ListTypeOK /\ LinksInOrder /\ EntryIsReport /\ [ListNext]_allVars => EntryIsReport'
    BY ReportStep
  <1>3. ASSUME ListTypeOK, EntryIsReport PROVE ListIsTruthful
    <2> SUFFICES ASSUME NEW l \in Links, NEW s \in Listable,
                        SoleServer(l, s), listed[s] # NoLink,
                        Fits(told[l].cur), Fits(told[l].max)
                 PROVE  /\ ListEntry(s).cur = told[l].cur
                        /\ ListEntry(s).max = told[l].max
                        /\ ListEntry(s).status = 0 <=>
                              told[l].cur >= told[l].max \/ Byte(told[l].status) = 0
      BY DEF ListIsTruthful
    <2>1. info[s] \in InfoType /\ told[l] \in ToldType
      BY <1>3, ListTypedIsType DEF ListTyped
    <2>2. info[s].cur = told[l].cur /\ info[s].max = told[l].max
            /\ info[s].status = Byte(told[l].status)
      <3>1. info[s] = Entry(told[l])
        BY <1>3 DEF EntryIsReport
      <3>2. Int16(told[l].cur) = told[l].cur /\ Int16(told[l].max) = told[l].max
        BY <2>1, Conversions DEF ToldType
      <3> QED BY <3>1, <3>2 DEF Entry
    <2> QED BY <2>1, <2>2 DEF ListEntry, InfoType
  <1> QED
    BY <1>1, <1>2, <1>3, ListTypeCorrect, ListImplementsLinks, LinksStayInOrder, PTL
    DEF ListSpec
----
\* SetCharCount starts from the cached array, and RemoveAccount drops it whole:
\* a report never changes another server's count.
THEOREM ReportsKeepOthers == ListSpec => ReportKeepsOthers
  <1> DEFINE Kept ==
        \A u \in Users :
          charCounts'[u] # charCounts[u] =>
             \/ charCounts'[u] = NoCounts /\ u \in leaving
             \/ \E l \in Links :
                   /\ Receiving(l)
                   /\ charCounts'[u] # NoCounts
                   /\ \A s \in Listable \ {serverID[l]} : charCounts'[u][s] = Counts(u)[s]
  <1>1. ASSUME ListTypeOK, [ListNext]_allVars PROVE [Kept]_allVars
    <2> SUFFICES Kept
      OBVIOUS
    <2>0. ListTyped
      BY <1>1, ListTypedIsType
    <2>1. ASSUME NEW l \in Links, NEW v \in Users, NEW n \in CharCounts,
                 HandleReplyCharacters(l, v, n)
          PROVE  Kept
      <3>1. SUFFICES ASSUME charCounts'[v] # charCounts[v]
                     PROVE  /\ charCounts'[v] # NoCounts
                            /\ \A s \in Listable \ {serverID[l]} :
                                  charCounts'[v][s] = Counts(v)[s]
        <4>1. \A u \in Users \ {v} : charCounts'[u] = charCounts[u]
          BY <2>0, <2>1 DEF HandleReplyCharacters, SetCharCount, ListTyped
        <4>2. Receiving(l)
          BY <2>1 DEF HandleReplyCharacters
        <4> QED BY <3>1, <4>1, <4>2
      <3>2. charCounts'[v] = [Counts(v) EXCEPT ![serverID[l]] = n]
        BY <2>0, <2>1, <3>1 DEF HandleReplyCharacters, SetCharCount, ListTyped
      <3>3. Counts(v) \in CountType
        BY <2>0, CountsAreArray
      <3>4. charCounts'[v] \in CountType
        BY <3>2, <3>3 DEF CountType
      <3> QED BY <3>2, <3>3, <3>4, NoCountsAssumption DEF CountType
    <2>2. ASSUME NEW v \in Users, RemoveAccount(v) PROVE Kept
      BY <2>0, <2>2 DEF RemoveAccount, ListTyped
    <2>3. CASE UNCHANGED charCounts
      BY <2>3
    <2> QED
      BY <1>1, <2>1, <2>2, <2>3, ListSteps
      DEF OnCloseUnlistClears, HandleInitListed, HandleStatus, ClientCloseListed, listVars
  <1> QED BY <1>1, ListTypeCorrect, PTL DEF ListSpec, ReportKeepsOthers
====
