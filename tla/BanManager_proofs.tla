---- MODULE BanManager_proofs ----
(***************************************************************************)
(* Bans are served, and the table never holds a ban that the running       *)
(* process does not enforce: for any number of addresses, callers and      *)
(* restarts, any threshold and any length of a ban.  Each theorem names    *)
(* the time zones for which it holds.                                      *)
(***************************************************************************)
EXTENDS BanManager, TLAPS

USE MaxAttemptsAssumption, BanDurationAssumption, NoBanAssumption, NoIPAssumption, ZonesAssumption

\* Every step of the ban manager and of its database writes keeps the types;
\* in particular the count of failures stays below the threshold.
THEOREM BanTypeCorrect == Spec => []TypeOK
<1> USE DEF TypeOK, Expiries
<1>1. Init => TypeOK
  <2> SUFFICES ASSUME Init PROVE TypeOK
    OBVIOUS
  <2>1. attempts \in [IPs -> 0 .. MaxAttempts - 1]
    BY DEF Init
  <2> QED
    BY <2>1 DEF Init, Forgotten
<1>2. TypeOK /\ [Next]_vars => TypeOK'
  <2> SUFFICES ASSUME TypeOK, [Next]_vars PROVE TypeOK'
    OBVIOUS
  <2>1. CASE NewBanManager
    BY <2>1 DEF NewBanManager, ActiveRows
  <2>2. CASE NewBanManagerLoadFails
    BY <2>2 DEF NewBanManagerLoadFails
  <2>3. CASE Shutdown
    <3>1. attempts' \in [IPs -> 0 .. MaxAttempts - 1]
      BY <2>3 DEF Shutdown
    <3>2. lost' \subseteq IPs
      BY <2>3 DEF Shutdown, Adds, Removes
    <3> QED
      BY <2>3, <3>1, <3>2 DEF Shutdown, Forgotten
  <2>4. ASSUME NEW k \in Callers, NEW ip \in IPs,
               IsBannedUnknown(k, ip) \/ IsBannedRead(k, ip)
        PROVE  TypeOK'
    BY <2>4 DEF IsBannedUnknown, IsBannedRead, Calls, memory, history, vars
  <2>5. ASSUME NEW k \in Callers, IsBannedInForce(k) PROVE TypeOK'
    BY <2>5 DEF IsBannedInForce, Return, memory, history
  <2>6. ASSUME NEW k \in Callers, IsBannedExpired(k) PROVE TypeOK'
    <3>1. call[k] \in Calls
      BY <2>6 DEF IsBannedExpired, Returned
    <3>2. [call[k] EXCEPT !.step = "recheck"] \in Calls
      BY <3>1 DEF Calls
    <3> QED
      BY <2>6, <3>2 DEF IsBannedExpired, memory, history
  <2>7. ASSUME NEW k \in Callers, IsBannedLift(k) PROVE TypeOK'
    <3>1. call[k] \in Calls
      BY <2>7 DEF IsBannedLift, Returned
    <3>2. call[k].ip \in IPs
      BY <3>1 DEF Calls
    <3> QED
      BY <2>7, <3>2 DEF IsBannedLift, Lift, Return, Removes, history
  <2>8. ASSUME NEW k \in Callers, IsBannedChanged(k) PROVE TypeOK'
    BY <2>8 DEF IsBannedChanged, Return, memory, history
  <2>9. ASSUME NEW ip \in IPs, RecordFailureCounts(ip) PROVE TypeOK'
    BY <2>9 DEF RecordFailureCounts, history
  <2>10. ASSUME NEW ip \in IPs, RecordFailureBans(ip) PROVE TypeOK'
    BY <2>10 DEF RecordFailureBans, Adds, history
  <2>11. ASSUME NEW ip \in IPs, ResetAttempts(ip) PROVE TypeOK'
    BY <2>11 DEF ResetAttempts, history
  <2>12. ASSUME NEW w \in writes, ExecWrite(w) PROVE TypeOK'
    <3>1. (IF w.op = "AddIPBan" THEN Stored(w.expiry) ELSE NoBan) \in Expiries
      BY <2>12 DEF Adds, Removes, Stored
    <3>2. table' \in [IPs -> Expiries]
      BY <2>12, <3>1 DEF ExecWrite
    <3> QED
      BY <2>12, <3>2 DEF ExecWrite, memory, history
  <2>13. ASSUME NEW w \in writes, ExecFails(w) PROVE TypeOK'
    BY <2>13 DEF ExecFails, memory, Adds, Removes
  <2>14. CASE Tick
    BY <2>14 DEF Tick, memory, history
  <2>15. CASE UNCHANGED vars
    BY <2>15 DEF vars
  <2> QED
    BY <2>1, <2>2, <2>3, <2>4, <2>5, <2>6, <2>7, <2>8, <2>9, <2>10, <2>11,
       <2>12, <2>13, <2>14, <2>15 DEF Next
<1> QED
  BY <1>1, <1>2, PTL DEF Spec
----
(***************************************************************************)
(* The inductive invariant.                                                *)
(***************************************************************************)
BanParts ==
    /\ ExpiriesBounded
    /\ ZonesKeepBans => MemoryCoversTable
    /\ MemoryCoversWrites
    /\ DownIsIdle

BanInv == TypeOK /\ BanParts

\* The conjuncts of BanInv depend only on the clock, the process, the bans,
\* the table and the writes: the other steps keep them.
LEMMA BanFrame ==
  ASSUME BanInv, UNCHANGED <<now, up, ipBans, table, writes, loaded>>, DownIsIdle'
  PROVE  BanParts'
BY DEF BanInv, BanParts, ExpiriesBounded, MemoryCoversTable, MemoryCoversWrites

\* A write on the way is for a known address and carries an expiry only when
\* it adds a ban.
LEMMA WriteIsTyped ==
  ASSUME TypeOK, NEW w \in writes
  PROVE  /\ w.ip \in IPs
         /\ w.op = "AddIPBan" => w.expiry \in Nat
         /\ w.op # "AddIPBan" => w.expiry = NoBan
BY DEF TypeOK, Adds, Removes

LEMMA BanStep ==
  ASSUME BanInv, [Next]_vars
  PROVE  BanParts'
<1> USE DEF BanParts, ExpiriesBounded, MemoryCoversTable, MemoryCoversWrites, DownIsIdle,
            Stored, Instant
<1>0. TypeOK /\ BanParts
  BY DEF BanInv
<1>1. CASE NewBanManager
  <2>1. /\ ~up /\ writes = {}
        /\ UNCHANGED <<now, table, writes, call>> /\ up'
    BY <1>0, <1>1 DEF NewBanManager
  <2>2. \A ip \in IPs :
           ipBans'[ip] = IF table[ip] # NoBan /\ table[ip] > now + SessionZone
                         THEN table[ip] ELSE NoBan
    BY <1>1 DEF NewBanManager, ActiveRows
  <2>3. \A ip \in IPs : table[ip] # NoBan => table[ip] \in Int
    BY <1>0 DEF TypeOK, Expiries
  <2>4. ExpiriesBounded'
    BY <1>0, <2>1, <2>2
  <2>5. ZonesKeepBans => MemoryCoversTable'
    BY <1>0, <2>1, <2>2, <2>3 DEF ZonesKeepBans, TypeOK
  <2> QED
    BY <2>1, <2>4, <2>5
<1>2. CASE NewBanManagerLoadFails
  BY <1>0, <1>2 DEF NewBanManagerLoadFails
<1>3. CASE Shutdown
  BY <1>0, <1>3 DEF Shutdown, Forgotten
<1>4. ASSUME NEW k \in Callers, NEW ip \in IPs,
             IsBannedUnknown(k, ip) \/ IsBannedRead(k, ip)
      PROVE  BanParts'
  <2>1. UNCHANGED <<now, up, ipBans, table, writes, loaded>> /\ up
    BY <1>4 DEF IsBannedUnknown, IsBannedRead, memory, history, vars
  <2> QED
    BY <2>1, BanFrame
<1>5. ASSUME NEW k \in Callers,
             IsBannedInForce(k) \/ IsBannedExpired(k) \/ IsBannedChanged(k)
      PROVE  BanParts'
  <2>1. UNCHANGED <<now, up, ipBans, table, writes, loaded>> /\ call[k] # Returned
    BY <1>5 DEF IsBannedInForce, IsBannedExpired, IsBannedChanged, memory, history, Returned
  <2>2. up
    BY <1>0, <2>1
  <2> QED
    BY <2>1, <2>2, BanFrame
<1>6. ASSUME NEW k \in Callers, IsBannedLift(k)
      PROVE  BanParts'
  <2> DEFINE ip == call[k].ip
  <2>1. ipBans' = [ipBans EXCEPT ![ip] = NoBan] /\ ~(now <= ipBans[ip])
    BY <1>6 DEF IsBannedLift, Lift, Banned, InForce
  <2>2. UNCHANGED <<now, up, table, loaded>>
    BY <1>6 DEF IsBannedLift, history
  <2>3. \A w \in writes' : w.op = "AddIPBan" => w \in writes
    BY <1>6 DEF IsBannedLift, Lift
  <2>4. up /\ ip \in IPs /\ ipBans[ip] \in Int
    <3>1. call[k] \in Calls
      BY <1>0, <1>6 DEF IsBannedLift, Returned, TypeOK
    <3>2. call[k] # Returned
      BY <1>6 DEF IsBannedLift, Returned
    <3>3. up
      BY <1>0, <3>2
    <3> QED
      BY <1>0, <1>6, <3>1, <3>3 DEF IsBannedLift, TypeOK, Calls, Expiries
  <2>5. ExpiriesBounded'
    BY <1>0, <2>1, <2>2, <2>3 DEF TypeOK
  <2>6. ZonesKeepBans => MemoryCoversTable'
    BY <1>0, <2>1, <2>2, <2>4 DEF TypeOK, Expiries
  <2>7. MemoryCoversWrites'
    BY <1>0, <2>1, <2>2, <2>3, <2>4, WriteIsTyped DEF TypeOK
  <2> QED
    BY <2>2, <2>4, <2>5, <2>6, <2>7
<1>7. ASSUME NEW ip \in IPs, RecordFailureCounts(ip) \/ ResetAttempts(ip)
      PROVE  BanParts'
  BY <1>0, <1>7, BanFrame DEF RecordFailureCounts, ResetAttempts, history
<1>8. ASSUME NEW ip \in IPs, RecordFailureBans(ip)
      PROVE  BanParts'
  <2> DEFINE add == [op |-> "AddIPBan", ip |-> ip, expiry |-> now + BanDuration]
  <2>1. /\ up /\ ipBans' = [ipBans EXCEPT ![ip] = now + BanDuration]
        /\ writes' = writes \cup {add}
        /\ UNCHANGED <<now, up, table, loaded>>
    BY <1>8 DEF RecordFailureBans, history
  <2>2. now + BanDuration \in Nat
    BY <1>0 DEF TypeOK
  <2>3. ExpiriesBounded'
    BY <1>0, <2>1, <2>2 DEF TypeOK
  <2>4. ZonesKeepBans => MemoryCoversTable'
    BY <1>0, <2>1, <2>2 DEF TypeOK, Expiries
  <2>5. MemoryCoversWrites'
    BY <1>0, <2>1, <2>2, WriteIsTyped DEF TypeOK, Expiries
  <2> QED
    BY <2>1, <2>3, <2>4, <2>5
<1>9. ASSUME NEW w \in writes, ExecWrite(w)
      PROVE  BanParts'
  <2>1. /\ table' = [table EXCEPT ![w.ip] = IF w.op = "AddIPBan" THEN Stored(w.expiry) ELSE NoBan]
        /\ writes' \subseteq writes
        /\ UNCHANGED <<now, up, ipBans, loaded>>
    BY <1>9 DEF ExecWrite, memory, history
  <2>2. up
    BY <1>0
  <2> QED
    BY <1>0, <2>1, <2>2, WriteIsTyped DEF TypeOK
<1>10. ASSUME NEW w \in writes, ExecFails(w)
       PROVE  BanParts'
  BY <1>0, <1>10 DEF ExecFails, memory
<1>11. CASE Tick
  BY <1>0, <1>11, WriteIsTyped DEF Tick, memory, history, TypeOK, Expiries
<1>12. CASE UNCHANGED vars
  BY <1>0, <1>12, BanFrame DEF vars
<1> QED
  BY <1>1, <1>2, <1>3, <1>4, <1>5, <1>6, <1>7, <1>8, <1>9, <1>10, <1>11, <1>12
  DEF Next

LEMMA BanInvariant == Spec => []BanInv
<1>1. Init => BanParts
  BY DEF Init, Forgotten, BanParts, ExpiriesBounded, MemoryCoversTable,
         MemoryCoversWrites, DownIsIdle
<1>2. BanInv /\ [Next]_vars => BanParts'
  BY BanStep
<1> QED
  BY <1>1, <1>2, BanTypeCorrect, PTL DEF Spec, BanInv

\* Whatever order the writes are made in, and whether they are made at all,
\* a ban in the table that is still in force is enforced by the process, if
\* that is neither behind UTC nor behind the database session.
THEOREM TableIsCovered ==
  ASSUME ZonesKeepBans
  PROVE  Spec => []MemoryCoversTable
<1>1. BanInv => MemoryCoversTable
  BY DEF BanInv, BanParts
<1> QED
  BY <1>1, BanInvariant, PTL

----
\* The steps that keep StoredOrOnTheWay, over BanInv.
LEMMA StoredStep ==
  ASSUME ZonesKeepBans, BanInv, StoredOrOnTheWay, [Next]_vars
  PROVE  StoredOrOnTheWay'
<1> USE DEF StoredOrOnTheWay, WritePending
<1>0. TypeOK /\ DownIsIdle
  BY DEF BanInv, BanParts
<1>1. CASE NewBanManager
  <2>1. writes = {} /\ UNCHANGED <<now, table, writes, due, lost>>
    BY <1>0, <1>1 DEF NewBanManager, DownIsIdle
  <2>2. \A ip \in IPs : ipBans'[ip] # NoBan => ipBans'[ip] = table[ip]
    BY <1>1 DEF NewBanManager, ActiveRows
  <2>3. \A ip \in IPs : due[ip] # NoBan => Stored(due[ip]) >= due[ip]
    BY <1>0 DEF Stored, ZonesKeepBans, TypeOK
  <2> QED
    BY <2>1, <2>2, <2>3
<1>2. CASE NewBanManagerLoadFails
  BY <1>2 DEF NewBanManagerLoadFails
<1>3. CASE Shutdown
  <2>1. \A ip \in IPs \ lost' : \A w \in writes : w.ip # ip
    BY <1>3 DEF Shutdown
  <2> QED
    BY <1>3, <2>1 DEF Shutdown, Forgotten
<1>4. CASE UNCHANGED <<now, ipBans, table, writes, due, lost>>
  BY <1>4
<1>5. ASSUME NEW k \in Callers, IsBannedLift(k) PROVE StoredOrOnTheWay'
  <2> DEFINE a == call[k].ip
  <2>1. /\ ipBans' = [ipBans EXCEPT ![a] = NoBan] /\ ~(now <= ipBans[a]) /\ ipBans[a] # NoBan
        /\ writes' = writes \cup {[op |-> "RemoveIPBan", ip |-> a, expiry |-> NoBan]}
        /\ UNCHANGED <<now, table, due, lost>>
    BY <1>5 DEF IsBannedLift, Lift, Banned, InForce, history
  <2> SUFFICES ASSUME NEW ip \in IPs \ lost, due[ip] # NoBan, due[ip] > now
               PROVE  /\ \A w \in writes' : w.ip = ip => w.op = "AddIPBan" /\ w.expiry = due[ip]
                      /\ table[ip] = Stored(due[ip]) \/ WritePending(ip)'
                      /\ ipBans'[ip] # NoBan => ipBans'[ip] >= due[ip]
    BY <2>1
  <2>2. ip # a
    BY <1>0, <2>1 DEF TypeOK, Expiries
  <2> QED
    BY <1>0, <2>1, <2>2 DEF TypeOK
<1>6. ASSUME NEW a \in IPs, RecordFailureBans(a) PROVE StoredOrOnTheWay'
  <2> DEFINE add == [op |-> "AddIPBan", ip |-> a, expiry |-> now + BanDuration]
  <2>1. /\ ipBans' = [ipBans EXCEPT ![a] = now + BanDuration]
        /\ due' = [due EXCEPT ![a] = now + BanDuration]
        /\ writes' = writes \cup {add}
        /\ lost' = IF WritePending(a) THEN lost \cup {a} ELSE lost
        /\ UNCHANGED <<now, table>>
    BY <1>6 DEF RecordFailureBans
  <2> SUFFICES ASSUME NEW ip \in IPs \ lost', due'[ip] # NoBan, due'[ip] > now
               PROVE  /\ \A w \in writes' : w.ip = ip => w.op = "AddIPBan" /\ w.expiry = due'[ip]
                      /\ table[ip] = Stored(due'[ip]) \/ WritePending(ip)'
                      /\ ipBans'[ip] # NoBan => ipBans'[ip] >= due'[ip]
    BY <2>1
  <2>2. CASE ip = a
    <3>1. \A w \in writes : w.ip # a
      BY <2>1, <2>2
    <3>2. /\ ipBans'[a] = now + BanDuration /\ due'[a] = now + BanDuration
          /\ now + BanDuration \in Nat /\ add \in writes'
      BY <1>0, <2>1 DEF TypeOK
    <3>3. \A w \in writes' : w.ip = a => w.op = "AddIPBan" /\ w.expiry = now + BanDuration
      BY <2>1, <3>1
    <3>4. WritePending(a)'
      BY <3>2
    <3> QED
      BY <2>2, <3>2, <3>3, <3>4
  <2>3. CASE ip # a
    <3>1. ipBans'[ip] = ipBans[ip] /\ due'[ip] = due[ip] /\ ip \in IPs \ lost
      BY <1>0, <2>1, <2>3 DEF TypeOK
    <3> QED
      BY <2>1, <2>3, <3>1
  <2> QED
    BY <2>2, <2>3
<1>7. ASSUME NEW v \in writes, ExecWrite(v) PROVE StoredOrOnTheWay'
  <2>1. /\ table' = [table EXCEPT ![v.ip] =
                       IF v.op = "AddIPBan" THEN Stored(v.expiry) ELSE NoBan]
        /\ writes' = writes \ {v}
        /\ UNCHANGED <<now, ipBans, due, lost>>
    BY <1>7 DEF ExecWrite, memory, history
  <2> SUFFICES ASSUME NEW ip \in IPs \ lost, due[ip] # NoBan, due[ip] > now
               PROVE  /\ \A w \in writes' : w.ip = ip => w.op = "AddIPBan" /\ w.expiry = due[ip]
                      /\ table'[ip] = Stored(due[ip]) \/ WritePending(ip)'
                      /\ ipBans[ip] # NoBan => ipBans[ip] >= due[ip]
    BY <2>1
  <2>2. CASE ip = v.ip
    BY <1>0, <2>1, <2>2 DEF TypeOK
  <2>3. CASE ip # v.ip
    BY <1>0, <2>1, <2>3 DEF TypeOK
  <2> QED
    BY <2>2, <2>3
<1>8. ASSUME NEW v \in writes, ExecFails(v) PROVE StoredOrOnTheWay'
  BY <1>8 DEF ExecFails, memory
<1>9. CASE Tick
  BY <1>0, <1>9 DEF Tick, memory, history, TypeOK
<1> QED
  BY <1>1, <1>2, <1>3, <1>4, <1>5, <1>6, <1>7, <1>8, <1>9
  DEF Next, IsBannedUnknown, IsBannedRead, IsBannedInForce, IsBannedExpired,
      IsBannedChanged, RecordFailureCounts, ResetAttempts, memory, history, vars

\* A ban that is not over, whose writes neither failed nor overlapped, is found
\* by the next start and for all of its time: if the process is neither behind
\* UTC nor behind the database session.
THEOREM BansAreStored ==
  ASSUME ZonesKeepBans
  PROVE  Spec => []BanStored
<1>1. Init => StoredOrOnTheWay
  BY DEF Init, StoredOrOnTheWay, Forgotten
<1>2. BanInv /\ StoredOrOnTheWay /\ [Next]_vars => StoredOrOnTheWay'
  BY StoredStep
<1>3. BanInv /\ StoredOrOnTheWay => BanStored
  <2> SUFFICES ASSUME BanInv, StoredOrOnTheWay, NEW ip \in IPs \ lost,
                      due[ip] # NoBan, due[ip] > now, ~WritePending(ip)
               PROVE  ActiveRows[ip] # NoBan /\ ActiveRows[ip] >= due[ip]
    BY DEF BanStored
  <2>1. table[ip] = due[ip] + ProcessZone
    BY DEF StoredOrOnTheWay, Stored
  <2>2. due[ip] \in Nat /\ now \in Nat
    BY DEF BanInv, TypeOK
  <2>3. table[ip] \in Int /\ table[ip] > now + SessionZone /\ table[ip] >= due[ip]
    BY <2>1, <2>2 DEF ZonesKeepBans
  <2> QED
    BY <2>3 DEF ActiveRows
<1> QED
  BY <1>1, <1>2, <1>3, BanInvariant, PTL DEF Spec
----
\* While the process runs, a ban in force is neither lifted nor shortened by
\* any interleaving of IsBanned, RecordFailure and ResetAttempts, whatever the
\* zones; only ahead of UTC does a new ban replace a loaded one that ends later.
THEOREM BansAreServed == Spec => BanServed
<1> DEFINE Served(ip) ==
             /\ ipBans'[ip] # NoBan
             /\ \/ ipBans'[ip] >= ipBans[ip]
                \/ ProcessZone > 0 /\ ipBans'[ip] >= now + BanDuration
           Kept == up /\ up' => \A ip \in IPs : Banned(ip) => Served(ip)
<1>1. ASSUME BanInv, [Next]_vars PROVE Kept
  <2> SUFFICES ASSUME up, up', NEW ip \in IPs, Banned(ip)
               PROVE  Served(ip)
    OBVIOUS
  <2> USE <1>1 DEF BanInv, BanParts
  <2>0. ipBans[ip] \in Int /\ ipBans[ip] # NoBan
    BY DEF Banned, InForce, TypeOK, Expiries
  <2>1. CASE UNCHANGED ipBans
    BY <2>0, <2>1
  <2>2. CASE NewBanManager \/ NewBanManagerLoadFails \/ Shutdown
    BY <2>2 DEF NewBanManager, NewBanManagerLoadFails, Shutdown
  <2>3. ASSUME NEW k \in Callers, IsBannedLift(k)
        PROVE  Served(ip)
    BY <2>0, <2>3 DEF IsBannedLift, Lift, Banned, TypeOK
  <2>4. ASSUME NEW a \in IPs, RecordFailureBans(a)
        PROVE  Served(ip)
    <3>1. (ProcessZone > 0 \/ ipBans[ip] <= now + BanDuration) /\ now \in Nat
      BY <2>0 DEF ExpiriesBounded, Stored, TypeOK
    <3> QED
      BY <2>0, <2>4, <3>1 DEF RecordFailureBans, TypeOK
  <2> QED
    BY <2>1, <2>2, <2>3, <2>4
    DEF Next, IsBannedUnknown, IsBannedRead, IsBannedInForce, IsBannedExpired,
        IsBannedChanged, RecordFailureCounts, ResetAttempts, ExecWrite, ExecFails,
        Tick, memory, vars
<1> QED
  BY <1>1, BanInvariant, PTL DEF Spec, BanServed
====
