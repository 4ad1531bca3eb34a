---- MODULE RateLimiter ----
(***************************************************************************)
(* The fixed-window limiter of src/internal/middleware/rate_limiter.go.    *)
(* Allow reads the clock before it takes the lock of the address's shard,  *)
(* so callers may decide in another order than they read, and long after;  *)
(* cleanup reads it once and then goes through the shards.                 *)
(*                                                                         *)
(* time.Now().UnixNano() is the wall clock, taken to never go back.  An    *)
(* address without an entry has windowStart 0 in the code, a time so far   *)
(* back that its window is over: NoEntry.                                  *)
(***************************************************************************)
EXTENDS Integers

CONSTANTS
    IPs,       \* addresses
    Callers,   \* connections whose OnOpen calls Allow
    Limit,     \* limit, as an int32
    Window,    \* window
    Shards,    \* the shards
    ShardFor,  \* shardFor
    NoEntry,   \* the address has no entry
    NoCall,    \* the caller is not inside Allow
    MaxTime    \* bound of the model on the clock

ASSUME LimitAssumption == Limit \in Int
ASSUME WindowAssumption == Window \in Nat \ {0}
ASSUME MaxTimeAssumption == MaxTime \in Nat
ASSUME ShardForAssumption == ShardFor \in [IPs -> Shards]

Times == 0 .. MaxTime

\* rlEntry.
Entries == [windowStart : Times, count : Nat]

\* A call that has read the clock.
Calls == [ip : IPs, now : Times]

ASSUME NoEntryAssumption == NoEntry \notin Entries /\ NoEntry \notin Nat
ASSUME NoCallAssumption == NoCall \notin Calls

VARIABLES
    clock,     \* the wall clock
    entries,   \* rlShard.entries of all shards
    calls,     \* calls[k]: what Allow has read for caller k
    cutoff,    \* cleanup's cutoff, kept after the pass
    toClean,   \* the shards the running cleanup has not visited
    opened,    \* history: opened[ip], the start of the window opened last
    granted    \* history: granted[ip][t], the calls ever admitted to the window
               \* of ip that began at t

limiterVars == <<clock, entries, calls, cutoff, toClean, opened, granted>>

LimiterTypeOK ==
    /\ clock \in Times
    /\ entries \in [IPs -> Entries \cup {NoEntry}]
    /\ calls \in [Callers -> Calls \cup {NoCall}]
    /\ cutoff \in Int
    /\ toClean \subseteq Shards
    /\ opened \in [IPs -> Times \cup {NoEntry}]
    /\ granted \in [IPs -> [Times -> Nat]]

LimiterInit ==
    /\ clock = 0
    /\ entries = [ip \in IPs |-> NoEntry]
    /\ calls = [k \in Callers |-> NoCall]
    /\ cutoff = -Window
    /\ toClean = {}
    /\ opened = [ip \in IPs |-> NoEntry]
    /\ granted = [ip \in IPs |-> [t \in Times |-> 0]]
----
\* Allow up to the lock.
Allow(k, ip) ==
    /\ calls[k] = NoCall
    /\ calls' = [calls EXCEPT ![k] = [ip |-> ip, now |-> clock]]
    /\ UNCHANGED <<clock, entries, cutoff, toClean, opened, granted>>

\* now - e.windowStart >= win: the call starts a new window.
WindowOver(k) ==
    LET e == entries[calls[k].ip]
    IN  e = NoEntry \/ calls[k].now - e.windowStart >= Window

\* The calls already admitted in the window that call k falls into.
Count(k) == IF WindowOver(k) THEN 0 ELSE entries[calls[k].ip].count

\* Allow under the lock returns true.
AllowAdmits(k) ==
    /\ calls[k] # NoCall
    /\ Count(k) < Limit
    /\ LET ip == calls[k].ip
           start == IF WindowOver(k) THEN calls[k].now ELSE entries[ip].windowStart
       IN  /\ entries' = [entries EXCEPT ![ip] =
                            [windowStart |-> start, count |-> Count(k) + 1]]
           /\ opened' = [opened EXCEPT ![ip] = start]
           /\ granted' = [granted EXCEPT ![ip][start] = @ + 1]
    /\ calls' = [calls EXCEPT ![k] = NoCall]
    /\ UNCHANGED <<clock, cutoff, toClean>>

\* Allow under the lock returns false: the map is left as it was, even when
\* the call would have started a window.
AllowRefuses(k) ==
    /\ calls[k] # NoCall
    /\ Count(k) >= Limit
    /\ calls' = [calls EXCEPT ![k] = NoCall]
    /\ UNCHANGED <<clock, entries, cutoff, toClean, opened, granted>>

\* The ticker of startCleanup fires.
Cleanup ==
    /\ toClean = {}
    /\ cutoff' = clock - Window
    /\ toClean' = Shards
    /\ UNCHANGED <<clock, entries, calls, opened, granted>>

\* The broken form: a window is taken for over when it began before the
\* clock reading, not a window's length before it.
CleanupShardRunning(sh) ==
    /\ sh \in toClean
    /\ entries' = [ip \in IPs |->
                     IF /\ ShardFor[ip] = sh
                        /\ entries[ip] # NoEntry
                        /\ entries[ip].windowStart < cutoff + Window
                     THEN NoEntry ELSE entries[ip]]
    /\ toClean' = toClean \ {sh}
    /\ UNCHANGED <<clock, calls, cutoff, opened, granted>>

\* cleanup under the lock of shard sh.
CleanupShard(sh) ==
    /\ sh \in toClean
    /\ entries' = [ip \in IPs |->
                     IF /\ ShardFor[ip] = sh
                        /\ entries[ip] # NoEntry
                        /\ entries[ip].windowStart < cutoff
                     THEN NoEntry ELSE entries[ip]]
    /\ toClean' = toClean \ {sh}
    /\ UNCHANGED <<clock, calls, cutoff, opened, granted>>

ClockTick ==
    /\ clock < MaxTime
    /\ clock' = clock + 1
    /\ UNCHANGED <<entries, calls, cutoff, toClean, opened, granted>>
----
(***************************************************************************)
(* Properties.                                                             *)
(***************************************************************************)

\* No window admits more than Limit calls in all: it is not opened a second
\* time, by a call that read the clock when the first did, with its count
\* forgotten.  Only windows that began before the last cleanup's cutoff can be,
\* by a call that has been waiting for the lock since then.
LimitPerWindow ==
    \A ip \in IPs, t \in Times :
       t >= cutoff /\ granted[ip][t] > 0 => granted[ip][t] <= Limit

\* A window opens only when the one opened before it is over: neither a
\* delayed call nor cleanup cuts a window short.  The exception is a call
\* that read the clock before the last cleanup did and decides after it.
WindowsApart ==
    [][\A ip \in IPs :
         opened'[ip] # opened[ip] /\ opened[ip] # NoEntry =>
            \/ opened'[ip] >= opened[ip] + Window
            \/ opened'[ip] < cutoff + Window]_limiterVars

\* What makes the two inductive: an entry is the window opened last and, if
\* the cutoff has not passed it, counts all of its calls; an address without
\* one has had its window end before the last cleanup; and no window later
\* than the last, since the cutoff, has admitted anybody.
LastWindow(ip) ==
    /\ entries[ip] # NoEntry =>
          /\ opened[ip] = entries[ip].windowStart
          /\ opened[ip] >= cutoff => granted[ip][opened[ip]] = entries[ip].count
    /\ entries[ip] = NoEntry /\ opened[ip] # NoEntry => opened[ip] < cutoff

EntryIsLastWindow == \A ip \in IPs : LastWindow(ip)

NoneBeyondLast ==
    \A ip \in IPs, t \in Times :
       t >= cutoff /\ granted[ip][t] > 0 => opened[ip] # NoEntry /\ t <= opened[ip]
====
