---- MODULE BanManager ----
(***************************************************************************)
(* The ban manager (src/internal/service/ban_manager.go) and the ip_banned *)
(* table behind it (src/internal/db/l2auth.sql.go).  Login workers call    *)
(* RecordFailure and ResetAttempts, OnOpen of the client listener calls    *)
(* IsBanned on several event loops at once.                                *)
(*                                                                         *)
(* RecordFailure and ResetAttempts hold the write lock throughout and are  *)
(* one step each.  IsBanned looks three times: it reads the expiry under   *)
(* the read lock, compares it with the clock without a lock, and looks     *)
(* again under the write lock.  Changes of the table are made by           *)
(* goroutines of their own, in any order, and their errors are ignored.    *)
(* Memory is lost on a restart and the table is not.                       *)
(*                                                                         *)
(* The column expiry_date has no time zone.  The program stores a local    *)
(* time.Now(), of which pgx keeps what the clock on the wall shows; pgx    *)
(* reads it back as UTC, and the database compares it with now() in the    *)
(* zone of the session.  Times are instants, in UTC; the two zones are     *)
(* parameters, by their distance from UTC, which is taken not to change.   *)
(***************************************************************************)
EXTENDS Integers

CONSTANTS
    IPs,          \* addresses
    Loopback,     \* the addresses that are never banned
    Callers,      \* event loops that call IsBanned
    MaxAttempts,  \* ATTEMPTS_LOGIN_COUNT
    BanDuration,
    ProcessZone,  \* how far the local time of the process is ahead of UTC
    SessionZone,  \* how far the TimeZone of the database session is
    NoBan,        \* no expiry: not in the map, not in the table
    NoIP,
    MaxTime       \* bound on the clock

ASSUME LoopbackAssumption == Loopback \subseteq IPs
ASSUME MaxAttemptsAssumption == MaxAttempts \in Nat \ {0}
ASSUME BanDurationAssumption == BanDuration \in Nat
ASSUME ZonesAssumption == ProcessZone \in Int /\ SessionZone \in Int
ASSUME MaxTimeAssumption == MaxTime \in Nat
ASSUME NoBanAssumption == NoBan \notin Int
ASSUME NoIPAssumption == NoIP \notin IPs

VARIABLES
    now,       \* the wall clock, which the program and the database share
    up,        \* the process is running
    ipBans,    \* BanManager.ipBans: the expiry of each ban in memory
    attempts,  \* BanManager.attempts; a missing entry is 0
    table,     \* ip_banned: the expiry_date of each ban in the database
    writes,    \* the goroutines that have yet to run their query
    call,      \* call[k]: the IsBanned call of k, how far it is and what it read
    due,       \* history: the expiry that RecordFailure set last for an address
    loaded,    \* history: the bans were loaded when the process started
    lost       \* history: the addresses one of whose writes failed, was cut off or
               \* may have overtaken another

vars == <<now, up, ipBans, attempts, table, writes, call, due, loaded, lost>>
memory == <<ipBans, attempts>>
history == <<due, loaded, lost>>

Expiries == Int \cup {NoBan}
Adds == [op : {"AddIPBan"}, ip : IPs, expiry : Nat]
Removes == [op : {"RemoveIPBan"}, ip : IPs, expiry : {NoBan}]
Calls == [step : {"compare", "recheck"}, ip : IPs, expiry : Int]
Returned == [step |-> "returned", ip |-> NoIP, expiry |-> NoBan]

TypeOK ==
    /\ now \in Nat
    /\ up \in BOOLEAN
    /\ ipBans \in [IPs -> Expiries]
    /\ attempts \in [IPs -> 0 .. MaxAttempts - 1]
    /\ table \in [IPs -> Expiries]
    /\ writes \subseteq Adds \cup Removes
    /\ call \in [Callers -> Calls \cup {Returned}]
    /\ due \in [IPs -> Nat \cup {NoBan}]
    /\ loaded \in BOOLEAN
    /\ lost \subseteq IPs

Forgotten == [ip \in IPs |-> NoBan]

Init ==
    /\ now = 0
    /\ up = FALSE
    /\ ipBans = Forgotten
    /\ attempts = [ip \in IPs |-> 0]
    /\ table = Forgotten
    /\ writes = {}
    /\ call = [k \in Callers |-> Returned]
    /\ due = Forgotten
    /\ loaded = FALSE
    /\ lost = {}

\* A ban is in force: time.Now().After(expiry) is false.
InForce(expiry) == expiry # NoBan /\ now <= expiry

Banned(ip) == InForce(ipBans[ip])
----
(***************************************************************************)
(* NewBanManager: GetActiveIPBans takes the rows with expiry_date > now(), *)
(* which PostgreSQL reads in the zone of the session, and scans them as    *)
(* UTC.  When the query fails the manager starts without bans.             *)
(***************************************************************************)
ActiveRows == [ip \in IPs |-> IF table[ip] # NoBan /\ table[ip] > now + SessionZone
                              THEN table[ip] ELSE NoBan]

NewBanManager ==
    /\ ~up
    /\ up' = TRUE
    /\ ipBans' = ActiveRows
    /\ loaded' = TRUE
    /\ UNCHANGED <<now, attempts, table, writes, call, due, lost>>

NewBanManagerLoadFails ==
    /\ ~up
    /\ up' = TRUE
    /\ loaded' = FALSE
    /\ UNCHANGED <<now, ipBans, attempts, table, writes, call, due, lost>>

\* The process ends, with the writes it still had to make.
Shutdown ==
    /\ up
    /\ up' = FALSE
    /\ ipBans' = Forgotten
    /\ attempts' = [ip \in IPs |-> 0]
    /\ writes' = {}
    /\ call' = [k \in Callers |-> Returned]
    /\ loaded' = FALSE
    /\ lost' = lost \cup {w.ip : w \in writes}
    /\ UNCHANGED <<now, table, due>>
----
(***************************************************************************)
(* IsBanned.                                                               *)
(***************************************************************************)
Return(k) == call' = [call EXCEPT ![k] = Returned]

\* The address is the host's own, or not in the map: false at once.
IsBannedUnknown(k, ip) ==
    /\ up
    /\ call[k] = Returned
    /\ ip \in Loopback \/ ipBans[ip] = NoBan
    /\ UNCHANGED vars

IsBannedRead(k, ip) ==
    /\ up
    /\ call[k] = Returned
    /\ ip \notin Loopback
    /\ ipBans[ip] # NoBan
    /\ call' = [call EXCEPT ![k] = [step |-> "compare", ip |-> ip, expiry |-> ipBans[ip]]]
    /\ UNCHANGED <<now, up, memory, table, writes, history>>

\* The expiry read has not passed: true.
IsBannedInForce(k) ==
    /\ call[k].step = "compare"
    /\ InForce(call[k].expiry)
    /\ Return(k)
    /\ UNCHANGED <<now, up, memory, table, writes, history>>

IsBannedExpired(k) ==
    /\ call[k].step = "compare"
    /\ ~InForce(call[k].expiry)
    /\ call' = [call EXCEPT ![k].step = "recheck"]
    /\ UNCHANGED <<now, up, memory, table, writes, history>>

Lift(ip) ==
    /\ ipBans' = [ipBans EXCEPT ![ip] = NoBan]
    /\ writes' = writes \cup {[op |-> "RemoveIPBan", ip |-> ip, expiry |-> NoBan]}

\* The broken form: the entry is removed on the strength of the first read.
IsBannedLiftStale(k) ==
    /\ call[k].step = "recheck"
    /\ ipBans[call[k].ip] # NoBan
    /\ Lift(call[k].ip)
    /\ Return(k)
    /\ UNCHANGED <<now, up, attempts, table, history>>

\* The ban is still there and still expired: it is removed, false.
IsBannedLift(k) ==
    /\ call[k].step = "recheck"
    /\ ipBans[call[k].ip] # NoBan
    /\ ~Banned(call[k].ip)
    /\ Lift(call[k].ip)
    /\ Return(k)
    /\ UNCHANGED <<now, up, attempts, table, history>>

\* The entry has gone or has been renewed: true in both cases.
IsBannedChanged(k) ==
    /\ call[k].step = "recheck"
    /\ ipBans[call[k].ip] = NoBan \/ Banned(call[k].ip)
    /\ Return(k)
    /\ UNCHANGED <<now, up, memory, table, writes, history>>
----
(***************************************************************************)
(* RecordFailure and ResetAttempts.                                        *)
(***************************************************************************)

\* The broken form: the failure that reaches the threshold is only counted.
RecordFailureCountsOn(ip) ==
    /\ up
    /\ ip \notin Loopback
    /\ attempts[ip] + 1 <= MaxAttempts
    /\ attempts' = [attempts EXCEPT ![ip] = @ + 1]
    /\ UNCHANGED <<now, up, ipBans, table, writes, call, history>>

\* One failure more, below the threshold.
RecordFailureCounts(ip) ==
    /\ up
    /\ ip \notin Loopback
    /\ attempts[ip] + 1 < MaxAttempts
    /\ attempts' = [attempts EXCEPT ![ip] = @ + 1]
    /\ UNCHANGED <<now, up, ipBans, table, writes, call, history>>

\* A write of the row of ip is under way: it may undo a write that follows.
WritePending(ip) == \E w \in writes : w.ip = ip

\* The broken form: an address that is banned already keeps its old expiry.
RecordFailureKeeps(ip) ==
    /\ up
    /\ ip \notin Loopback
    /\ attempts[ip] + 1 >= MaxAttempts
    /\ ipBans' = [ipBans EXCEPT ![ip] = IF @ = NoBan THEN now + BanDuration ELSE @]
    /\ attempts' = [attempts EXCEPT ![ip] = 0]
    /\ writes' = writes \cup {[op |-> "AddIPBan", ip |-> ip, expiry |-> now + BanDuration]}
    /\ due' = [due EXCEPT ![ip] = now + BanDuration]
    /\ lost' = IF WritePending(ip) THEN lost \cup {ip} ELSE lost
    /\ UNCHANGED <<now, up, table, call, loaded>>

\* The failure that reaches the threshold: ban, forget the count, store.
RecordFailureBans(ip) ==
    /\ up
    /\ ip \notin Loopback
    /\ attempts[ip] + 1 >= MaxAttempts
    /\ ipBans' = [ipBans EXCEPT ![ip] = now + BanDuration]
    /\ attempts' = [attempts EXCEPT ![ip] = 0]
    /\ writes' = writes \cup {[op |-> "AddIPBan", ip |-> ip, expiry |-> now + BanDuration]}
    /\ due' = [due EXCEPT ![ip] = now + BanDuration]
    /\ lost' = IF WritePending(ip) THEN lost \cup {ip} ELSE lost
    /\ UNCHANGED <<now, up, table, call, loaded>>

ResetAttempts(ip) ==
    /\ up
    /\ attempts' = [attempts EXCEPT ![ip] = 0]
    /\ UNCHANGED <<now, up, ipBans, table, writes, call, history>>
----
(***************************************************************************)
(* The goroutines that write the table.                                    *)
(***************************************************************************)

\* The broken form: the row is written in UTC and compared in local time.
StoredAsUTC(expiry) == expiry

\* What a column without a zone keeps of an instant: the local time.
Stored(expiry) == expiry + ProcessZone

\* AddIPBan inserts or overwrites the row, RemoveIPBan deletes it whatever
\* its expiry.
ExecWrite(w) ==
    /\ table' = [table EXCEPT ![w.ip] = IF w.op = "AddIPBan" THEN Stored(w.expiry) ELSE NoBan]
    /\ writes' = writes \ {w}
    /\ UNCHANGED <<now, up, memory, call, history>>

\* The query fails or runs into its 5 second timeout.
ExecFails(w) ==
    /\ writes' = writes \ {w}
    /\ lost' = lost \cup {w.ip}
    /\ UNCHANGED <<now, up, memory, table, call, due, loaded>>

Tick ==
    /\ now < MaxTime
    /\ now' = now + 1
    /\ UNCHANGED <<up, memory, table, writes, call, history>>

Next ==
    \/ NewBanManager
    \/ NewBanManagerLoadFails
    \/ Shutdown
    \/ \E k \in Callers :
          \/ \E ip \in IPs : IsBannedUnknown(k, ip) \/ IsBannedRead(k, ip)
          \/ IsBannedInForce(k)
          \/ IsBannedExpired(k)
          \/ IsBannedLift(k)
          \/ IsBannedChanged(k)
    \/ \E ip \in IPs :
          \/ RecordFailureCounts(ip)
          \/ RecordFailureBans(ip)
          \/ ResetAttempts(ip)
    \/ \E w \in writes : ExecWrite(w) \/ ExecFails(w)
    \/ Tick

Spec == Init /\ [][Next]_vars
----
(***************************************************************************)
(* Properties.                                                             *)
(***************************************************************************)

\* As long as the process runs, a ban leaves memory only after it expired,
\* and a new one never ends earlier: neither a call of IsBanned that read an
\* older ban nor a login that succeeds meanwhile lifts or shortens it.  (Ahead
\* of UTC a ban that was loaded may end later than a new one does; the new one,
\* of full length, takes its place.)
BanServed ==
    [][up /\ up' =>
         \A ip \in IPs : Banned(ip) =>
            /\ ipBans'[ip] # NoBan
            /\ \/ ipBans'[ip] >= ipBans[ip]
               \/ ProcessZone > 0 /\ ipBans'[ip] >= now + BanDuration]_vars

\* The instant at which the ban of a row ends.
Instant(row) == row - ProcessZone

\* The zones in which a row that is in force is found, and not cut short: a
\* process that is neither behind UTC nor behind the session of its database.
ZonesKeepBans == ProcessZone >= 0 /\ ProcessZone >= SessionZone

\* A ban still in force in the table is in force in memory at least as long,
\* when the bans could be loaded: the start takes every active one over, for
\* all of its time, and late, reordered and failed writes never make the table
\* stricter than the running process.
MemoryCoversTable ==
    up /\ loaded =>
       \A ip \in IPs : table[ip] # NoBan /\ Instant(table[ip]) > now =>
          ipBans[ip] # NoBan /\ ipBans[ip] >= Instant(table[ip])

\* A ban that is not over and has no write under way is found by a process
\* that starts now, for all of its time, unless a write of that address
\* failed, was cut off by the end of the process, or overlapped with another:
\* the goroutines are not ordered, and in these cases the row can be gone.
BanStored ==
    \A ip \in IPs \ lost :
       due[ip] # NoBan /\ due[ip] > now /\ ~WritePending(ip) =>
          ActiveRows[ip] # NoBan /\ ActiveRows[ip] >= due[ip]

\* What makes BanStored inductive: the row is there or on its way, no other
\* write of the address threatens it, and memory will not remove it early.
StoredOrOnTheWay ==
    \A ip \in IPs \ lost : due[ip] # NoBan /\ due[ip] > now =>
       /\ \A w \in writes : w.ip = ip => w.op = "AddIPBan" /\ w.expiry = due[ip]
       /\ table[ip] = Stored(due[ip]) \/ WritePending(ip)
       /\ ipBans[ip] # NoBan => ipBans[ip] >= due[ip]

\* No expiry, in memory, in the table or on the way, is more than a ban's
\* length ahead, and the distance of the local time when it was loaded.
ExpiriesBounded ==
    LET last == now + BanDuration IN
    /\ \A ip \in IPs : ipBans[ip] # NoBan => ipBans[ip] <= last \/ ipBans[ip] <= Stored(last)
    /\ \A ip \in IPs : table[ip] # NoBan => table[ip] <= Stored(last)
    /\ \A w \in writes : w.op = "AddIPBan" => w.expiry <= last

\* What makes MemoryCoversTable inductive: the same for the writes on the way.
MemoryCoversWrites ==
    up => \A w \in writes :
       w.op = "AddIPBan" /\ w.expiry > now =>
          ipBans[w.ip] # NoBan /\ ipBans[w.ip] >= w.expiry

\* A process that is down has no bans, no writes and no calls under way.
DownIsIdle ==
    ~up => ipBans = Forgotten /\ writes = {} /\ \A k \in Callers : call[k] = Returned
====
