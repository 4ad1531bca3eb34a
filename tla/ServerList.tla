---- MODULE ServerList ----
(***************************************************************************)
(* What the login server tells clients of the game servers: the entries    *)
(* and the character counts of src/internal/service/server_list.go, on top *)
(* of the links of GameServerLink, whose "listed" says which entries are   *)
(* active.                                                                 *)
(*                                                                         *)
(* Every method of ServerList holds its lock, so each is one step.         *)
(* HandleStatus takes it once per attribute: a packet with several is      *)
(* several HandleStatus steps.  The list packet a client gets is made of   *)
(* ListEntry and CountShown at the moment of the snapshot.                 *)
(*                                                                         *)
(* The wire carries 32-bit values; CurrentPlayers and MaxPlayers keep the  *)
(* low 16 bits, signed, and Status the low 8.                              *)
(***************************************************************************)
EXTENDS GameServerLink

CONSTANTS
    Reports,      \* the 32-bit values game servers report
    CharCounts,   \* the numbers of characters they report
    Half,         \* 2^15: an int16 holds -Half .. Half - 1
    ByteSize,     \* 2^8
    NoCounts      \* no character counts are cached for the account

ASSUME ReportsAssumption == Reports \subseteq Nat
ASSUME CharCountsAssumption == CharCounts \subseteq Nat
ASSUME WidthAssumption == Half \in Nat \ {0} /\ ByteSize \in Nat \ {0, 1}
ASSUME NoCountsAssumption == NoCounts \notin [Listable -> CharCounts \cup {0}]

\* The conversions int16(value) and byte(value).
Int16(v) == ((v + Half) % (2 * Half)) - Half
Byte(v) == v % ByteSize

Fits(v) == v < Half

VARIABLES
    info,        \* ServerList.servers
    charCounts,  \* ServerList.charCounts
    leaving,     \* accounts between Unregister and RemoveAccount of OnClose
    told         \* history: told[l], what l itself last said of its server

listVars == <<info, charCounts, leaving, told>>
allVars == <<vars, listVars>>

Players == -Half .. Half - 1

\* Server{}: what Unregister leaves in the entry.
NoInfo == [cur |-> 0, max |-> 0, status |-> 0]

ListTypeOK ==
    /\ TypeOK
    /\ info \in [Listable -> [cur : Players, max : Players, status : 0 .. ByteSize - 1]]
    /\ charCounts \in [Users -> [Listable -> CharCounts \cup {0}] \cup {NoCounts}]
    /\ leaving \subseteq Users
    /\ told \in [Links -> [cur : Nat, max : Nat, status : Nat]]

ListInit ==
    /\ Init
    /\ info = [s \in Listable |-> NoInfo]
    /\ charCounts = [u \in Users |-> NoCounts]
    /\ leaving = {}
    /\ told = [l \in Links |-> NoInfo]
----
\* The broken form: a server that registers again keeps its player count.
HandleInitKeepsPlayers(l, s, max) ==
    /\ HandleInit(l, s)
    /\ info' = [t \in Listable |->
                  IF t = s THEN [cur |-> info[s].cur, max |-> Int16(max), status |-> 1]
                  ELSE info[t]]
    /\ told' = [told EXCEPT ![l] = [cur |-> 0, max |-> max, status |-> 1]]
    /\ UNCHANGED <<charCounts, leaving>>

\* HandleInit and Register: the entry is written anew, with no players.
HandleInitListed(l, s, max) ==
    /\ HandleInit(l, s)
    /\ info' = [t \in Listable |->
                  IF t = s THEN [cur |-> 0, max |-> Int16(max), status |-> 1]
                  ELSE info[t]]
    /\ told' = [told EXCEPT ![l] = [cur |-> 0, max |-> max, status |-> 1]]
    /\ UNCHANGED <<charCounts, leaving>>

\* Unregister: the entry is inactive and blank.
OnCloseUnlistClears(l) ==
    /\ OnCloseUnlist(l)
    /\ info' = [s \in Listable |-> IF s = serverID[l] THEN NoInfo ELSE info[s]]
    /\ UNCHANGED <<charCounts, leaving, told>>

\* The broken form: the entry is written although it is inactive.
UpdateStatusAnyway(id, entry) ==
    info' = [s \in Listable |-> IF s = id THEN entry ELSE info[s]]

\* UpdateStatus writes an active entry, whoever registered it, and returns at
\* once when the ID is out of range or the entry inactive.
UpdateStatus(id, entry) ==
    info' = [s \in Listable |->
               IF s = id /\ listed[s] # NoLink THEN entry ELSE info[s]]

\* One attribute of HandleStatus, InfoTypeStatus or InfoTypeCurrentPlayers.
HandleStatus(l, v) ==
    /\ Receiving(l)
    /\ LET id == serverID[l]
           old == IF id \in Listable THEN info[id] ELSE NoInfo
       IN  \/ /\ UpdateStatus(id, [old EXCEPT !.status = Byte(v)])
              /\ told' = [told EXCEPT ![l].status = v]
           \/ /\ UpdateStatus(id, [old EXCEPT !.cur = Int16(v)])
              /\ told' = [told EXCEPT ![l].cur = v]
    /\ UNCHANGED <<vars, charCounts, leaving>>

\* The counts of u that GetCharCounts finds, as an array of zeros when none.
Counts(u) == IF charCounts[u] = NoCounts THEN [s \in Listable |-> 0] ELSE charCounts[u]

\* The broken form: the array starts from zeros instead of the cached one.
SetCharCountAfresh(u, id, n) ==
    charCounts' = [charCounts EXCEPT ![u] =
                     IF id \in Listable
                     THEN [s \in Listable |-> IF s = id THEN n ELSE 0] ELSE @]

\* SetCharCount: the other servers' counts are kept.
SetCharCount(u, id, n) ==
    charCounts' = [charCounts EXCEPT ![u] =
                     IF id \in Listable THEN [Counts(u) EXCEPT ![id] = n] ELSE @]

\* HandleReplyCharacters: asked for or not, the count is cached.
HandleReplyCharacters(l, u, n) ==
    /\ Receiving(l)
    /\ SetCharCount(u, serverID[l], n)
    /\ UNCHANGED <<vars, info, leaving, told>>

\* OnClose of a client that found its session on the login server: Unregister,
\* and RemoveAccount as the next step.
ClientCloseListed(u, i) ==
    /\ ClientClose(u, i)
    /\ leaving' = leaving \cup {u}
    /\ UNCHANGED <<info, charCounts, told>>

RemoveAccount(u) ==
    /\ u \in leaving
    /\ charCounts' = [charCounts EXCEPT ![u] = NoCounts]
    /\ leaving' = leaving \ {u}
    /\ UNCHANGED <<vars, info, told>>
----
\* HandleServerList: what a client is shown of an active server.  A full
\* server is shown as down.
ListEntry(s) ==
    [info[s] EXCEPT !.status = IF info[s].cur >= info[s].max THEN 0 ELSE @]

\* The remaining steps of GameServerLink leave the list alone.
OtherLinkStep(l) ==
    \/ OnOpen(l)
    \/ PacketError(l)
    \/ OnClose(l)
    \/ OnCloseClear(l)
    \/ \E u \in Users :
          \/ HandlePlayerInGame(l, u)
          \/ HandlePlayerLogout(l, u)
          \/ HandlePlayerLogoutIgnored(l, u)
    \/ PlayerLogoutUnregister(l)

OtherStep ==
    \/ \E l \in Links : OtherLinkStep(l)
    \/ \E T \in SUBSET servers : T # {} /\ OnTick(T)
    \/ \E u \in Users : ClientLogin(u)
    \/ TimePasses

ListNext ==
    \/ OtherStep /\ UNCHANGED listVars
    \/ \E l \in Links :
          \/ OnCloseUnlistClears(l)
          \/ \E v \in Reports :
                \/ \E s \in ServerIDs : HandleInitListed(l, s, v)
                \/ HandleStatus(l, v)
          \/ \E u \in Users, n \in CharCounts : HandleReplyCharacters(l, u, n)
    \/ \E u \in Users :
          \/ \E i \in SessionIDs : ClientCloseListed(u, i)
          \/ RemoveAccount(u)

ListSpec == ListInit /\ [][ListNext]_allVars
----
(***************************************************************************)
(* Properties.                                                             *)
(***************************************************************************)

\* While a server has one link only, every list sent to a client shows what
\* that link last said, and shows it down just when it said so or is full:
\* as long as both numbers of players fit in an int16.
ListIsTruthful ==
    \A l \in Links, s \in Listable :
       /\ SoleServer(l, s) /\ listed[s] # NoLink
       /\ Fits(told[l].cur) /\ Fits(told[l].max)
       => /\ ListEntry(s).cur = told[l].cur
          /\ ListEntry(s).max = told[l].max
          /\ ListEntry(s).status = 0 <=>
                told[l].cur >= told[l].max \/ Byte(told[l].status) = 0

\* A server that is off the list leaves nothing behind, also when a second
\* link with its ID goes on reporting.
UnlistedIsBlank == \A s \in Listable : listed[s] = NoLink => info[s] = NoInfo

\* A game server's report changes the count of its own server only; all the
\* counts of an account go when its client has left the login server.
ReportKeepsOthers ==
    [][\A u \in Users :
         charCounts'[u] # charCounts[u] =>
            \/ charCounts'[u] = NoCounts /\ u \in leaving
            \/ \E l \in Links :
                  /\ Receiving(l)
                  /\ charCounts'[u] # NoCounts
                  /\ \A s \in Listable \ {serverID[l]} :
                        charCounts'[u][s] = Counts(u)[s]]_allVars
====
