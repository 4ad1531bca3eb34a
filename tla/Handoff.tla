---- MODULE Handoff ----
(***************************************************************************)
(* The handoff of an account to a game server: GameServerLogin             *)
(* (src/internal/packet/client/gs_login.go) stores a session under the     *)
(* client's LoginOkID1, HandleValidate (src/internal/packet/gs/validate.go)*)
(* takes it out once, and a garbage collector removes what was never asked *)
(* for (src/internal/session/session.go).                                  *)
(*                                                                         *)
(* Put and the taking part of ValidateAndDelete are one step under the     *)
(* shard's lock; the expiry is compared after the lock is released.  The   *)
(* collector reads the clock once and then visits the shards in turn.      *)
(* LoginOkID1 is a random 32-bit number: two clients may have the same.    *)
(***************************************************************************)
EXTENDS Integers

CONSTANTS
    Conns,        \* clients that have got as far as the server list
    IDs,          \* values of LoginOkID1
    LoginOkID1,   \* LoginOkID1[c]: the first part of the session key of c
    Links,        \* game-server links
    NumShards,    \* sessionShardCount
    ShardFor,     \* shardFor
    HandoffTTL,
    NoHandoff,    \* nothing is stored under the ID
    NoConn,       \* keys or an account name that are no client's
    Idle,         \* the link is not inside HandleValidate
    MaxPuts,      \* bound on the handoffs of one client
    MaxTime       \* bound on the clock

ASSUME LoginOkAssumption == LoginOkID1 \in [Conns -> IDs]
ASSUME ShardsAssumption == NumShards \in Nat /\ ShardFor \in [IDs -> 0 .. NumShards - 1]
ASSUME TimesAssumption == HandoffTTL \in Nat /\ MaxTime \in Nat /\ MaxPuts \in Nat
ASSUME NoConnAssumption == NoConn \notin Conns

\* Session: its client, which stands for account and keys, its expiry, and
\* which of the client's handoffs it is.
Sessions == [conn : Conns, put : 1 .. MaxPuts, expiresAt : Nat]

\* HandleValidate between the lock and the answer: what was taken out, and the
\* client whose account name and complete keys the game server presented.
Validations == [session : Sessions, presented : Conns \cup {NoConn}]

ASSUME MarkersAssumption == NoHandoff \notin Sessions /\ Idle \notin Validations

VARIABLES
    now,
    sessions,   \* shards[..].sessions by LoginOkID1
    validate,   \* validate[l]: the HandleValidate call of l
    gcShard,    \* the shard the collector visits next, NumShards when it waits
    gcNow,      \* the time the collector read
    puts,       \* history: puts[c], the handoffs c has made
    accepted,   \* history: the handoffs answered with success
    again,      \* history: a handoff was answered with success twice
    open        \* history: the handoffs neither taken out nor overwritten

vars == <<now, sessions, validate, gcShard, gcNow, puts, accepted, again, open>>

TypeOK ==
    /\ now \in Nat
    /\ sessions \in [IDs -> Sessions \cup {NoHandoff}]
    /\ validate \in [Links -> Validations \cup {Idle}]
    /\ gcShard \in 0 .. NumShards
    /\ gcNow \in Nat
    /\ puts \in [Conns -> 0 .. MaxPuts]
    /\ accepted \subseteq Sessions
    /\ again \in BOOLEAN
    /\ open \subseteq Sessions

Init ==
    /\ now = 0
    /\ sessions = [i \in IDs |-> NoHandoff]
    /\ validate = [l \in Links |-> Idle]
    /\ gcShard = NumShards
    /\ gcNow = 0
    /\ puts = [c \in Conns |-> 0]
    /\ accepted = {}
    /\ again = FALSE
    /\ open = {}

\* time.Now().After(session.ExpiresAt)
Expired(session) == now > session.expiresAt
----
\* GameServerLogin with the right keys, as often as the client likes.
GameServerLogin(c) ==
    LET session == [conn |-> c, put |-> puts[c] + 1, expiresAt |-> now + HandoffTTL]
        id == LoginOkID1[c]
    IN  /\ puts[c] < MaxPuts
        /\ sessions' = [sessions EXCEPT ![id] = session]
        /\ puts' = [puts EXCEPT ![c] = @ + 1]
        /\ open' = (open \ {sessions[id]}) \cup {session}
        /\ UNCHANGED <<now, validate, gcShard, gcNow, accepted, again>>

\* The broken form: the session is read and stays in the map.
ValidateReads(l, id, c) ==
    /\ validate[l] = Idle
    /\ sessions[id] # NoHandoff
    /\ validate' = [validate EXCEPT ![l] = [session |-> sessions[id], presented |-> c]]
    /\ UNCHANGED <<now, sessions, gcShard, gcNow, puts, accepted, again, open>>

\* HandleValidate on l takes the session out, whether it has expired or not.
ValidateTakes(l, id, c) ==
    /\ validate[l] = Idle
    /\ sessions[id] # NoHandoff
    /\ sessions' = [sessions EXCEPT ![id] = NoHandoff]
    /\ validate' = [validate EXCEPT ![l] = [session |-> sessions[id], presented |-> c]]
    /\ open' = open \ {sessions[id]}
    /\ UNCHANGED <<now, gcShard, gcNow, puts, accepted, again>>

\* Nothing is stored under the ID: the answer is a failure.
ValidateUnknown(l, id) ==
    /\ validate[l] = Idle
    /\ sessions[id] = NoHandoff
    /\ UNCHANGED vars

\* The session has not expired, and account and keys are its client's.
ValidateSucceeds(l) ==
    /\ validate[l] # Idle
    /\ ~Expired(validate[l].session)
    /\ validate[l].presented = validate[l].session.conn
    /\ accepted' = accepted \cup {validate[l].session}
    /\ again' = (again \/ validate[l].session \in accepted)
    /\ validate' = [validate EXCEPT ![l] = Idle]
    /\ UNCHANGED <<now, sessions, gcShard, gcNow, puts, open>>

ValidateFails(l) ==
    /\ validate[l] # Idle
    /\ \/ Expired(validate[l].session)
       \/ validate[l].presented # validate[l].session.conn
    /\ validate' = [validate EXCEPT ![l] = Idle]
    /\ UNCHANGED <<now, sessions, gcShard, gcNow, puts, accepted, again, open>>
----
\* The collector's ticker fires.
StartGC ==
    /\ gcShard = NumShards
    /\ gcShard' = 0
    /\ gcNow' = now
    /\ UNCHANGED <<now, sessions, validate, puts, accepted, again, open>>

\* The broken form: a session is removed at the moment it expires.
CollectEarly ==
    /\ gcShard < NumShards
    /\ sessions' = [i \in IDs |->
         IF ShardFor[i] = gcShard /\ sessions[i] # NoHandoff
            /\ gcNow >= sessions[i].expiresAt
         THEN NoHandoff ELSE sessions[i]]
    /\ gcShard' = gcShard + 1
    /\ UNCHANGED <<now, validate, gcNow, puts, accepted, again, open>>

\* The broken form: the sweep goes on behind the last shard.
CollectPastLast ==
    /\ gcShard <= NumShards
    /\ sessions' = [i \in IDs |->
         IF ShardFor[i] = gcShard /\ sessions[i] # NoHandoff
            /\ gcNow > sessions[i].expiresAt
         THEN NoHandoff ELSE sessions[i]]
    /\ gcShard' = gcShard + 1
    /\ UNCHANGED <<now, validate, gcNow, puts, accepted, again, open>>

\* The broken form: the sweep ends before the last shard.
CollectButLast ==
    /\ gcShard < NumShards
    /\ sessions' = [i \in IDs |->
         IF ShardFor[i] = gcShard /\ gcShard # NumShards - 1
            /\ sessions[i] # NoHandoff /\ gcNow > sessions[i].expiresAt
         THEN NoHandoff ELSE sessions[i]]
    /\ gcShard' = gcShard + 1
    /\ UNCHANGED <<now, validate, gcNow, puts, accepted, again, open>>

\* The collector's turn in one shard.
Collect ==
    /\ gcShard < NumShards
    /\ sessions' = [i \in IDs |->
         IF ShardFor[i] = gcShard /\ sessions[i] # NoHandoff
            /\ gcNow > sessions[i].expiresAt
         THEN NoHandoff ELSE sessions[i]]
    /\ gcShard' = gcShard + 1
    /\ UNCHANGED <<now, validate, gcNow, puts, accepted, again, open>>

Tick ==
    /\ now < MaxTime
    /\ now' = now + 1
    /\ UNCHANGED <<sessions, validate, gcShard, gcNow, puts, accepted, again, open>>

Next ==
    \/ \E c \in Conns : GameServerLogin(c)
    \/ \E l \in Links :
          \/ \E id \in IDs :
                \/ ValidateUnknown(l, id)
                \/ \E c \in Conns \cup {NoConn} : ValidateTakes(l, id, c)
          \/ ValidateSucceeds(l)
          \/ ValidateFails(l)
    \/ StartGC
    \/ Collect
    \/ Tick

Spec == Init /\ [][Next]_vars

\* The ticker fires again and again and the collector only waits for the
\* short critical sections of Put and ValidateAndDelete.
FairSpec == Spec /\ WF_vars(StartGC) /\ WF_vars(Collect)
----
\* A handoff lets its client into the game at most once, although several
\* game servers may ask for it at the same time as it is stored and collected.
SingleUse == ~again

\* A handoff that nobody has asked for or overwritten can be used until it
\* expires: the collector, whose clock reading is old by the time it reaches
\* a shard, never removes a session that is still good.
LiveIsStored ==
    \A session \in open :
       ~Expired(session) => sessions[LoginOkID1[session.conn]] = session

\* What makes SingleUse inductive.  A handoff under way or accepted is in the
\* map no more, and no two links hold the same one.
TakenOnce ==
    /\ \A i \in IDs : sessions[i] # NoHandoff =>
          /\ LoginOkID1[sessions[i].conn] = i
          /\ sessions[i] \notin accepted
          /\ sessions[i].put <= puts[sessions[i].conn]
          /\ \A l \in Links : validate[l] # Idle => validate[l].session # sessions[i]
    /\ \A l \in Links : validate[l] # Idle =>
          /\ validate[l].session \notin accepted
          /\ validate[l].session.put <= puts[validate[l].session.conn]
          /\ \A m \in Links \ {l} :
                validate[m] # Idle => validate[m].session # validate[l].session
    /\ \A session \in accepted : session.put <= puts[session.conn]

\* What makes LiveIsStored inductive.
CollectorIsBehind == gcNow <= now

\* A handoff that has expired does not stay in the map for good.
ExpiredIsCollected ==
    \A i \in IDs :
       (sessions[i] # NoHandoff /\ Expired(sessions[i])) ~>
       (sessions[i] = NoHandoff \/ ~Expired(sessions[i]))
====
