# Verification of the l2go-auth login server

This directory holds TLA+ modules that model the login server, TLC
configurations that check them on small instances, and TLAPS proofs of the
results that matter most. Every definition is translated from the Go source
under `src/`; `PROJECT.json` maps each one to its lines.

## 1. The system

l2go-auth is the login server of a Lineage II cluster. A game client connects
over TCP, proves that it runs GameGuard, logs in, asks for the list of game
servers and picks one. The server then stores a *handoff* session; the client
connects to the game server, which asks the login server over its own link
whether the handoff is good. Game servers also report who has entered and left
the game.

The concurrency is the hard part. gnet runs the callbacks of one connection one
after the other, and those of different connections on several event loops in
parallel. A login runs in a goroutine of its own (`processLogin`), behind a
semaphore, and publishes its result to the event loop of its connection.
Database writes of the ban manager, the collector of the handoff map and the
clean-up of the rate limiter are goroutines too. They share the session registry,
the clients map, the list of servers, the ban manager, the rate limiter and the
handoff map, each under locks of its own, and, without a lock, the Crypt of a
connection and its Client. Packet writers come from a pool all connections share.

### Inventory

| Component | State | Operations | Talks to |
|---|---|---|---|
| Session registry (`service/session_registry.go`) | per user: owner's SessionID (or -1 for a login under way), game server, login time, last refusal; 64 shards, each with a lock | TryRegister, Register, Unregister, SetGS, Get, ClearServer | called by login goroutines, both listeners and the game-server handlers |
| Client listener (`listener/client_listener.go`, `client/client.go`) | clients map under `clientMu`, state and account of each client, connection gauge | OnOpen, OnTraffic, OnClose, OnTick, KickAccount | rate limiter, ban manager, registry, packet handlers |
| Login flow (`packet/client`) | the semaphore; account and state of the client | AuthGG, HandleLogin and processLogin, HandleServerList, GameServerLogin | authenticator, registry, kick manager, ban manager, handoff map |
| Ban manager (`service/ban_manager.go`, ip_banned in `db/l2auth.sql.go`) | expiry of each ban, count of failures; the table | NewBanManager, IsBanned, RecordFailure, ResetAttempts | database, from goroutines |
| Game-server listener (`listener/gs_listener.go`, `packet/gs`) | links map, the ID of each link | OnOpen, OnTraffic, OnClose, OnTick, HandleInit, HandlePlayerInGame, HandlePlayerLogout, HandleValidate | registry, server list, handoff map |
| Server list (`service/server_list.go`) | active servers, their status and players, character counts per account | Register, Unregister, UpdateStatus, SetCharCount, RemoveAccount, and the reads for the list packet | both listeners |
| Handoff sessions (`session/session.go`) | sessions by LoginOkID1 with an expiry; 64 shards | Put, ValidateAndDelete, the collector | GameServerLogin, HandleValidate |
| Kick manager (`service/kicker.go`) | three callbacks set at start | KickAccount, KickFromGame, RequestCharacters | both listeners |
| Rate limiter (`middleware/rate_limiter.go`) | start and count of one fixed window per address; shards, each with a lock | Allow, clean-up | OnOpen |
| Authenticator (`service/authenticator.go`) | accounts in the database | Authenticate, createAccount, UpdateLastServer | database |
| Framing (`OnTraffic`, `pkg/network`) | inbound buffer, pool of packet writers | splitting the stream into packets; the readers and writers of integers and strings | gnet |
| Encryption (`internal/crypto`, `pkg/crypto`) | static and session key, whether the first packet has gone out, key pools | Encrypt, Decrypt, the RSA key and its scrambled modulus | framing, login |

What makes each correct, and where it can go wrong, is the list `hazards` of
`PROJECT.json`: logins of one user that overlap; a connection that closes while
its login is under way; check-then-act between Get and Unregister; three places
that take a client out of a map; a semaphore held while waiting for a mutex;
unordered database writes and restarts; sweeps over 64 shards beside everything
else; two clients with the same random ID; clock readings taken before a lock;
two first logins that create one account; a flag and a pool of buffers that event
loops and login goroutines use at once; several packets, or parts of one, in a
chunk; numbers that do not fit the width they are kept in.

## 2. Modules

`SessionRegistry` is the centre: `LoginServer` and `GameServerLink` EXTEND it and
look at it from the two sides; each models what the other side does to the
registry by one or two general actions (`PlayerInGame`, `SessionDropped`;
`ClientLogin`, `ClientClose`). `SessionRegistryTimed` implements it.

- **SessionRegistry**: `active[u]` is the entry of user `u`, or `NoSession`.
  Each method is one action, since each holds the shard's lock throughout
  (`ClearServer` one shard at a time: `ClearShard`). TryRegister has four
  outcomes, an action each. Time is two flags, `fresh` (a reservation younger
  than 5 seconds) and `rejected` (a refusal in the last 30), which `Elapse`
  clears.
- **SessionRegistryTimed**: the same registry with clock and time stamps;
  `Abstract` reads the flags off them.
- **LoginServer**: connections, their packets and the login goroutines.
  `tcp[c]` is what gnet knows of the connection: `open`, `queued` (a close waits
  on the event loop, packets are still handled), `closing` (a callback returned
  gnet.Close, nothing more is handled), `closed`. `clients` is the map, `pc[w]`
  and `job[w]` the goroutines. processLogin is cut where another goroutine can
  observe or interfere: the semaphore, TryRegister, Get, the kick, Register, and
  the three writes to the client. OnClose holds `clientMu` from Get to
  Unregister, which is why that mutex is a variable: `clientMu` is `Unlocked` or
  the OnClose under way. OnTick and KickAccount hold it within one action. A
  failing login, refused packet or handler error is an action of its own.
  `Credentials` is the set of pairs for which Authenticate can succeed. Whether
  a login that could succeed fails (database error, banned account) is a
  nondeterministic choice, as are the idle timeout and the refusals in OnOpen.
- **BanManager**: IsBanned is three steps (read under the read lock, compare,
  look again under the write lock); RecordFailure and ResetAttempts are one. A
  write of the table is a member of `writes` until `ExecWrite` or `ExecFails`
  takes it, in any order. `Shutdown` and `NewBanManager` are a restart. Times are
  instants. `expiry_date` is a TIMESTAMP WITHOUT TIME ZONE: what pgx stores of a
  local `time.Now()` is the local time (`Stored`), `GetActiveIPBans` compares it
  with now() in the zone of the database session, and pgx reads it back as UTC
  (`ActiveRows`). The two zones are the constants `ProcessZone` and
  `SessionZone`, their distance from UTC. `due` is history: the instant at which
  the ban that RecordFailure set last ends.
- **GameServerLink**: links, HandleInit, HandlePlayerInGame, HandlePlayerLogout
  (cut between Get and Unregister) and OnClose (map, server list, then the
  registry shard by shard). `listed` is the part of the server list that says
  which servers are active.
- **Handoff**: Put, the taking half of ValidateAndDelete under the lock, the
  answer after it, and the collector, which reads the clock once and then goes
  through the shards. A client stands for its account and keys; keys that are
  not the stored ones are those of another client or of `NoConn`.

- **ServerList** EXTENDS GameServerLink with what clients are told: `info`, the
  entries (Register, UpdateStatus, Unregister), and `charCounts`, which
  HandleReplyCharacters fills and RemoveAccount, a step of OnClose after
  Unregister, clears (`leaving` holds the accounts between the two). The 32-bit
  values of the wire go through `Int16` and `Byte`. `ListEntry` is a server as
  HandleServerList shows it, down when it is full.
- **RateLimiter**: Allow reads the clock (`Allow`) and decides later under the lock
  (`AllowAdmits`, `AllowRefuses`); cleanup computes its cut-off once and then visits
  the shards. `granted` is history: the calls ever admitted to the window of an
  address that began at a given time, whether its entry was evicted in between or
  not. **Authenticator**: FindAccount is one query and RegisterAccount
  another, with other logins and the operator in between. **Admission** composes
  them: OnOpen asks the limiter, an admitted connection logs in, several times at
  once if its client likes. The wall clock is taken never to go back.
- **Wire**: the bytes between a client and the server. Inwards, the client's
  stream arrives in chunks (`OnTraffic`); a packet is two pieces, so that a chunk
  can cut one, and what then follows is `OnTrafficAstray`. Outwards, a send takes a
  writer from the pool, builds the packet, and Encrypt reads `updatedKey` twice and
  sets it, each a step, without a lock; then the bytes are copied and the writer
  goes back. OnOpen is the exception: it gives its writer back and returns its
  bytes, which gnet writes later (`WriteInit`).
- **PacketCodec** and **PacketCipher** hold the algorithms, as operators:
  little-endian integers, UTF-16 strings and the name in the decrypted credentials;
  Blowfish with its key schedule, padding, the XOR pass of a first packet, RSA
  decryption by the Chinese remainder theorem, the scrambling of the modulus.
  Widths are parameters: the base of a digit, the code points of a surrogate, the
  digits of a word. Recursion is written as recursive functions (`SumOf`, `UnitsOf`,
  `DecodeOf`, `Powers`, ...), whose values the proofs follow. Exclusive or is a
  constant, `WordXor`; all that is assumed of it is that it yields words and that
  a second XOR with the same word takes the first back. The instance is Bitwise's.
  **WirePackets** puts the algorithms under Wire: since each depends on its
  arguments alone, `trial` holds one call of one of them, made before any
  connection opens, and the properties compare its result with what the other end
  makes of it. Key schedule and encryption are steps of one trial.

`MC*` modules give the instances. Operators whose comment begins "The broken
form" are the mutants that show each property can fail; no specification uses
them. Variables marked *history* are read by properties and by no guard.

## 3. What is checked

| Run | Instance | Shows |
|---|---|---|
| login_races | 1 user, 2 connections, 2 workers, 2 slots, servers 0 and 1 | ReservationOwned, OpenIsListed, GaugeCounts, SingleLogin, ListedStateHasAccount, CloseTakesOwn |
| login_progress | 2 users (one password unknown), 1 connection, 2 workers, 1 slot | IdentityAuthenticated, LoginFinishes, DroppedCloses |
| registry_time | 2 users, 1 ID, windows of 2 and 3, clock to 7 | ImplementsRegistry |
| bans | 1 address and 1 loopback, 2 callers, threshold 2, ban of 1, clock to 5, process 2 and database session 1 ahead of UTC | MemoryCoversTable, BanStored, BanServed |
| game_server_links | 1 user, in the second of 2 shards, 2 links, servers 0 and 1, reports of 1, an int16 of -2 .. 1 | ClosedServerIsCleared, LogoutSparesNewLogin, ListIsTruthful, UnlistedIsBlank, ReportKeepsOthers |
| admission | 1 address, 2 connections with a login each, limit 1, window 2, clock to 4, 1 name, 2 passwords | LimitPerWindow, WindowsApart, OnePassword |
| wire | 2 connections, one of which sends 3 packets while the other gets its Init, 2 login goroutines, 2 writers; the algorithms on small inputs, below | XorOnce, SentIsOwn, HandledInOrder, PacketsReadBack, PaddingSpares, CipherUndone, FirstPacketUndone, CredentialsDecrypt, NameDecoded, ModulusRecovered |
| handoff | 3 clients, two with one ID, 2 links, 2 shards, clock to 3 | SingleUse, LiveIsStored, ExpiredIsCollected |

The bounds are the least at which the cases in question happen. A take-over
needs a second connection or a second login of the same one; overlapping logins
need two workers; one slot for two workers makes them queue. A registry entry
has to pass both windows and be refused again, hence a clock to 7 with windows 2
and 3. An address has to be banned, to expire, to be lifted by one caller while
another holds the old expiry, and to be banned again, hence a clock to 5 with
bans of length 1. With bans that short a zone of one unit is a shift by a whole
ban; the two zones differ so that neither conversion is the identity. Two links are enough for a server that reconnects before its
old link is gone; two shards for a sweep with a shard behind and a shard ahead,
the user being in the one ahead. With limit 1 and window 2 a clock to 4 has room
for a window, its eviction, a second window and a caller that read the clock before
either. Three packets are AuthGG and two logins under way at once, so that the
event loop and two goroutines send; the second connection's Init packet is what a
reused writer spoils.

The algorithms are tried on bytes of 4 values and words of 4 binary digits: all pairs
out of 63 fields (integers of one and two bytes, strings of up to two characters, surrogate
pairs included), each also cut short at every byte; every block under keys of no to
three digits, by the full 16 rounds and key schedule; packets of 4 and 6 words under
every XOR key; payloads of up to 40 bytes; every ciphertext for five RSA keys, with
either prime the larger; every name of up to 5 characters over fields of 3 and 2;
and the modulus at its true size, byte by byte.

In the handoff run the overwriting of one client's handoff by another's (the same
ID) also stands for a client's own second handoff. Workers, connections and
links are interchangeable, so runs of safety properties use symmetry; the runs
with liveness properties do not. Deadlock is not checked: connections, clocks and
handoffs are bounded, so every instance runs out of steps.

Four runs show a statement of the repository that the code does not keep; each is
a finding in `PROJECT.json`:

- **gauge_after_kick** (`GaugeDrains`): KickAccount takes a client out of the map
  and does not decrement the gauge; OnClose then finds nothing to decrement.
- **overlapping_logins** (`OneClientPerUser`): a user refused once takes the
  session over at the next attempt, and may do so while the first login has
  registered but not yet called SetAccount; KickAccount looks for the account name and finds nobody,
  so two clients are logged in as the user at once. `SingleLogin` is what does hold: logins that do not overlap leave one client.
- **session_without_client** (`NoGhostSession`): Register runs although the
  connection has closed; the entry stays until a take-over.
- **silent_game_server** (`ServerGoneAfterClose`): the idle timeout deletes the
  link before OnClose looks for it, so the server stays listed and its players
  stay in the registry. `ClosedServerIsCleared` is what holds for the other ways
  to close.

Some properties name cases they do not speak of, because the code does not keep
them there and no document says it would. `SentIsOwn`: an Init packet whose writer
was taken again before gnet wrote it. `HandledInOrder`: connections a chunk of which
cut a packet; OnTraffic has then thrown the rest away and takes what follows for a
header. `WindowsApart`: a call that read the clock before the last clean-up did and
decides after it, which may open a window that overlaps one already evicted.
`LimitPerWindow`: windows that began before the last clean-up's cut-off; a call that
has waited for the lock longer than a window can open such a one again, with its
count forgotten (without the exception TLC finds it).
`ListIsTruthful`: a server ID that several links, or one link after another ID,
have given, and numbers of players beyond an int16. `ReportKeepsOthers` lets a
report that arrives after RemoveAccount stay until the account's next close.
`BanStored` excludes three cases by the history variable `lost`: the writes of
the table are not ordered, and with two of them under way, or one failed or cut
off, the row of a ban in force can be missing at the next start. `BanServed`
lets a new ban replace a loaded one that ends later, which happens ahead of UTC only.
`MemoryCoversTable` and `BanStored` are about a process that is neither behind UTC
nor behind its database session (`ZonesKeepBans`), UTC everywhere included. Elsewhere
the zone-less column loses bans, against NewBanManager's comment that it "loads
existing active bans from the database": with `ProcessZone` -1 and `SessionZone` 0 TLC
finds a ban in force that the next start does not load; with both -1, one that is
loaded and ends early. A host behind UTC should store `time.Now().UTC()`, with a
session in UTC, or the column should be TIMESTAMP WITH TIME ZONE.

### Fairness

`LoginServer!Fairness` assumes that an event loop gets to run a close that is
queued on it (strongly, because OnClose waits for `clientMu`, and sync.Mutex
hands the lock over to a waiter that starves), that a goroutine with nothing to
wait for goes on, which includes that the database calls of Authenticate return,
and that waiting senders on the semaphore channel are served (Go queues them in
order). Clients need not do anything. `Handoff!FairSpec` assumes that the ticker
fires again and the collector gets the lock of a shard.

## 4. What is proved

For all values of the constants that satisfy the ASSUMEs (any number of users,
connections, workers, links, shards, any windows and durations):

- `SessionRegistry_proofs` holds the lemmas about the methods of the registry that
  the proofs on both sides cite: which entries a method writes, which it leaves,
  and when a session can come to be on a game server.
- `LoginServer_proofs`: **TypeCorrect**; **ReservationsOwned**, which is inductive
  with the types: a reservation is only written by TryReserve, whose worker is
  then at `register` and leaves it only by overwriting the entry;
  **IdentitiesAuthenticated**, with `JobAuthenticated` (a worker past TryRegister
  works for a connection that authenticated); **ListedStatesHaveAccounts**, with
  `PublishedInOrder` (a worker that has yet to write the state has written the
  account, one that has yet to write the account has written its ID);
  **ClosesTakeOwn**, from the SessionID that Unregister compares.
- Also there: **SingleLogins**. A user whose logins never overlapped and
  whom no game server touched is in one of a few situations, `OneAdmittedFor`:
  at most one login past TryRegister; from Register on nobody is logged in as the
  user; whoever is logged in owns the session. The last part is what makes a
  take-over find its predecessor. **OpenAreListed** and
  **GaugeIsExactButForKicks** use `NewIsUnknown` and `ClosingIsUnlisted` (a
  connection being closed, or kicked, is no longer in the map, and not both) and
  the cardinality theorems for finite sets.
- `SessionRegistryTimed_proofs`: **TimedImplementsRegistry**: initial states map
  to initial states, every method to the method of the same name, the ticking of
  the clock to `Elapse`.
- `BanManager_proofs`: **BanTypeCorrect**, **TableIsCovered**, **BansAreServed**
  from `BanInv`: no expiry is more than a ban's length ahead (and, loaded, the
  zone's distance), so a new ban never ends before an older one; the writes on the
  way are covered by memory like the rows; a stopped process has nothing under
  way. **BansAreStored** from `StoredOrOnTheWay`: for a ban that is not over, the
  row is there or on its way, no other write of the address threatens it, and memory
  does not lift it early. TableIsCovered and BansAreStored have `ZonesKeepBans` for
  a hypothesis, for all distances from UTC; BansAreServed holds in every zone.
- `ServerList_proofs`: **LinkTypeCorrect**; **ClosedServersAreCleared** from
  `LinksInOrder` (the ID of a link is one it gave; a link whose OnClose has not
  begun is in the map unless the timeout dropped it, and has swept no shard) and
  `ShardsBehindAreClear`: the shards a sweep has passed hold no session of the
  server, and only SetGS by a link with the same ID could bring one back;
  **LogoutsSpareNewLogins**. **ListImplementsLinks** carries these over to the list:
  its steps are steps of the links, or none. **ListTypeCorrect** needs
  `Conversions`, what Int16 and Byte return for any width. **ListsAreTruthful** is
  inductive as `EntryIsReport`: the entry of a listed server is what its only link
  last said, in the widths of the entry; reports of other links go to other entries
  by `LinksInOrder`. **UnlistedStaysBlank** and **ReportsKeepOthers** follow from
  the types.
- `Admission_proofs`: each step is one of the limiter or one of Authenticate.
  **AdmissionTypeCorrect**; **WindowsAreLimited** and **WindowsStayApart** from
  `EntryIsLastWindow` (an entry is the window opened last and, from the cut-off on,
  counts all the calls it ever admitted; the window of an address without entry
  began before the cut-off), `NoneBeyondLast` (no window from the cut-off on is later
  than the one opened last, so a window that opens from there on has admitted nobody
  yet) and `CutoffIsPast` (the cut-off is a window behind the clock, so it only grows);
  **OnePasswordPerName** from `AcceptedHasRow`: rows are never removed and keep
  their password, so what FindAccount read is still true when Authenticate decides.
- `Wire_proofs`: **WireTypeCorrect**; **PacketsInOrder** from `OrderInv` (the
  packets handled and those of the chunk are the first of the stream, two pieces
  each), by lemmas about what a chunk, a handled packet and a new packet make of
  such a prefix; **PacketsAreOwn** from `WritersOwned` (a writer in use is out of
  the pool, has one sender and holds its packet; the bytes of an Init packet are
  there or were built over); **FirstPacketIsXored** from `FirstPacketsInv`: until
  the first packet with the connection's key is handed over only the event loop
  sends, since AuthGG, which lets a login start, is still sending its answer, so
  both readings of `updatedKey` in one Encrypt agree.
- Also there, the algorithms: **PacketsRefineWire** (a call is a stuttering step of
  the connections, so all of the above holds of WirePackets too) and one theorem per
  algorithm, for every input and width. The library's induction theorems take an
  operator and cannot be instantiated here; `SetInduction` states induction for a
  *set* of numbers instead, from the well-foundedness of the naturals, and
  `RecursionExists` builds from it the function that a recursive definition chooses.
  **PacketsReadBackHolds**: what PacketWriter writes, field after field and at any
  offset, PacketReader reads; from `GetPut` and `SignedBack` for integers of 1 to 8
  bytes, `DecodeCodeUnits` for code points, surrogate pairs included, and
  `NoEarlierTerminator`, that no two zero bytes stand at an even place of a string
  before its end. **CipherUndoneHolds**: DecryptRange takes EncryptRange back
  (`RoundUndone`, then a block, then a range); inductive with `TablesTyped`, that
  setKey, pair by pair, keeps tables of words. **FirstPacketUndoneHolds**: the XOR
  pass can be undone from its stored key, by induction from the back
  (`XorPassUndone`). **PaddingSparesHolds**, **NameDecodedHolds** (a name over two
  fields of any size), **ModulusRecoveredHolds** (four XORs and a swap, in reverse).
  **CredentialsDecryptHolds**: RSADecrypt is c^d mod N; congruences carry the power
  modulo N to those modulo the primes (`PowModReduced`), and the recombination
  (`Recombined`) is right whichever prime is larger, so adding p once suffices.
- `Handoff_proofs`: **HandoffTypeCorrect**; **HandoffsAreSingleUse** from
  `TakenOnce` (a handoff is in the map, or with one link, or answered; numbers of
  handoffs make them distinct); **LiveHandoffsAreStored** from
  `CollectorIsBehind` (the collector's clock reading is never ahead).

The assumptions say that the markers (`NoSession`, `Reserved`, ...) are not
ordinary values, and that counts and times are numbers. `Reserved \notin
SessionIDs` and the identification of a connection with its SessionID are
assumptions about `generateSessionID` that the code makes likely but not certain.

`Limit` may be any integer: a limit of zero or below admits nobody. `Window` is
positive (main.go passes 30 seconds). A zone's distance from UTC may be any integer
and is taken not to change: there is no summer time in the model.

Of the algorithms: a base is at least 2 and a word has at least one digit; integers
are of 1 to 8 bytes; the surrogates are two adjacent ranges of code units, the first
not at 0; strings consist of code points outside them, as valid UTF-8 does, and without
NUL, where a reader would stop; a first packet has at least
three words. `IsRSAKey` is what `rsa.GenerateKey` makes: q has an inverse modulo p
and, Fermat's theorem, the exponent may be reduced modulo p - 1 and q - 1. Fermat's
theorem itself is not proved; TLC evaluates it for the keys of the run.

Only model-checked: the liveness properties `LoginFinishes`, `DroppedCloses` and
`ExpiredIsCollected`, since the prover has neither fairness nor ENABLED.

## 5. What is not modelled

- LastServer and last_ip, which are stored and shown and decide nothing; the
  addresses, ports, types and flags of game servers, which are copied through; what
  packets say beyond what a handler decides on; logging, configuration, wiring.
- The three parties of a handover together. `LoginServer`, `Handoff` and
  `GameServerLink` each see the others as general actions, so two hazards have no
  property: a game server that reports a player between Get and Unregister of the
  client's OnClose, and AccountID and Account of a handoff that stem from two
  overlapping logins of one connection.
- Floats, raw bytes and WriteSizedString of reader and writer; the packet loop of
  the game-server listener, which is that of the client listener without
  decryption; headers with a size below 2; the content of the padding.
- The pools of keys, filled at start; bcrypt, which a stored password stands for;
  the generated code of the database access beyond the queries named in the map.
- The Go memory model is taken as interleaving: the unsynchronised fields of Client
  (State, AccountID) and of Crypt (updatedKey) are read and written in single steps.
- gnet, the database and the clock are external; the modules say what the code
  relies on.

## 6. Plan

In this order:

1. *Handover*: LoginServer, Handoff and GameServerLink composed, with the client's
   account and account ID carried into the handoff: what a player who reaches the
   game keeps of its session, and when AccountID and Account belong together.
2. Larger instances of `game_server_links` (reports that do not fit, two users),
   which the proofs cover and TLC does not reach in time.
