---- MODULE Admission_proofs ----
(***************************************************************************)
(* Theorems about Admission, for any number of addresses, connections,     *)
(* logins and names, and any limit and window.                             *)
(***************************************************************************)
EXTENDS Admission, TLAPS

USE MaxTimeAssumption

\* The step that admits call k to the window of ip that began at start.
AdmitsTo(k, ip, start) ==
    /\ calls[k] \in Calls /\ ip = calls[k].ip
    /\ start = IF WindowOver(k) THEN calls[k].now ELSE entries[ip].windowStart
    /\ ~WindowOver(k) => entries[ip] \in Entries
    /\ Count(k) \in Nat
    /\ entries' = [entries EXCEPT ![ip] = [windowStart |-> start, count |-> Count(k) + 1]]
    /\ opened' = [opened EXCEPT ![ip] = start]
    /\ granted' = [granted EXCEPT ![ip][start] = @ + 1]
    /\ UNCHANGED <<clock, cutoff, toClean>>
    /\ calls' = [calls EXCEPT ![k] = NoCall]

LEMMA Admitted ==
    ASSUME LimiterTypeOK, NEW k \in Callers, AllowAdmits(k)
    PROVE  \E ip \in IPs, start \in Times : AdmitsTo(k, ip, start)
  <1>1. calls[k] \in Calls /\ calls[k].ip \in IPs /\ calls[k].now \in Times
    BY DEF LimiterTypeOK, AllowAdmits, Calls
  <1>2. ~WindowOver(k) => entries[calls[k].ip] \in Entries
    BY <1>1 DEF LimiterTypeOK, WindowOver
  <1>3. (IF WindowOver(k) THEN calls[k].now ELSE entries[calls[k].ip].windowStart) \in Times
    BY <1>1, <1>2 DEF Entries
  <1>4. Count(k) \in Nat
    BY <1>1, <1>2 DEF Count, Entries
  <1> QED BY <1>1, <1>2, <1>3, <1>4 DEF AllowAdmits, AdmitsTo

\* The steps of the limiter, and what the other steps leave alone.
LimiterNext ==
    \/ \E k \in Callers :
          \/ \E ip \in IPs : Allow(k, ip)
          \/ AllowAdmits(k)
          \/ AllowRefuses(k)
    \/ Cleanup
    \/ \E sh \in Shards : CleanupShard(sh)
    \/ ClockTick

\* The steps of Authenticate, and of the operator.
AuthNext ==
    \/ \E k \in Logins, n \in Names, p \in Passwords : FindAccount(k, n, p)
    \/ \E k \in Logins : Authenticate(k)
    \/ \E n \in Names : SetBanned(n)

\* Every step is one of the limiter or one of Authenticate, and leaves the
\* other's variables alone.
LEMMA StepsApart ==
    ASSUME [AdmissionNext]_admissionVars
    PROVE  [LimiterNext]_limiterVars /\ [AuthNext]_authVars
  BY DEF AdmissionNext, admissionVars, LimiterNext, AuthNext, OnOpenAsks, OnOpenAdmits,
         OnOpenRefuses, OnClose, ProcessLogin, FindAccountFails

----
(***************************************************************************)
(* Type correctness.                                                       *)
(***************************************************************************)
LEMMA LimiterTyping ==
    ASSUME LimiterTypeOK, [LimiterNext]_limiterVars
    PROVE  LimiterTypeOK'
  <1>1. ASSUME NEW k \in Callers, NEW ip \in IPs, Allow(k, ip) PROVE LimiterTypeOK'
    BY <1>1 DEF Allow, LimiterTypeOK, Calls
  <1>2. ASSUME NEW k \in Callers, AllowAdmits(k) PROVE LimiterTypeOK'
    <2>1. PICK ip \in IPs, start \in Times : AdmitsTo(k, ip, start)
      BY <1>2, Admitted
    <2> USE DEF AdmitsTo
    <2>2. entries' \in [IPs -> Entries \cup {NoEntry}]
      BY <2>1 DEF LimiterTypeOK, Entries
    <2>3. opened' \in [IPs -> Times \cup {NoEntry}]
      BY <2>1 DEF LimiterTypeOK
    <2>4. granted' \in [IPs -> [Times -> Nat]]
      BY <2>1 DEF LimiterTypeOK
    <2> QED BY <2>1, <2>2, <2>3, <2>4 DEF LimiterTypeOK
  <1>3. ASSUME NEW k \in Callers, AllowRefuses(k) PROVE LimiterTypeOK'
    BY <1>3 DEF AllowRefuses, LimiterTypeOK
  <1>4. CASE Cleanup
    BY <1>4, WindowAssumption DEF Cleanup, LimiterTypeOK, Times
  <1>5. ASSUME NEW sh \in Shards, CleanupShard(sh) PROVE LimiterTypeOK'
    BY <1>5 DEF CleanupShard, LimiterTypeOK
  <1>6. CASE ClockTick
    BY <1>6 DEF ClockTick, LimiterTypeOK, Times
  <1>7. CASE UNCHANGED limiterVars
    BY <1>7 DEF limiterVars, LimiterTypeOK
  <1> QED BY <1>1, <1>2, <1>3, <1>4, <1>5, <1>6, <1>7 DEF LimiterNext

LEMMA AuthTyping ==
    ASSUME AuthTypeOK, [AuthNext]_authVars
    PROVE  AuthTypeOK'
  <1> USE DEF AuthTypeOK
  <1>1. ASSUME NEW k \in Logins, NEW n \in Names, NEW p \in Passwords, FindAccount(k, n, p)
        PROVE  AuthTypeOK'
    BY <1>1 DEF FindAccount, Lookups
  <1>2. ASSUME NEW k \in Logins, Authenticate(k) PROVE AuthTypeOK'
    <2>0. lookup[k] # NoLogin => lookup[k].name \in Names /\ lookup[k].pwd \in Passwords
      BY DEF Lookups
    <2>1. CASE RegisterAccount(k)
      <3>1. [pwd |-> lookup[k].pwd, banned |-> FALSE] \in Rows
        BY <2>0, <2>1 DEF RegisterAccount, Rows
      <3> QED BY <2>0, <2>1, <3>1 DEF RegisterAccount, Done
    <2>2. CASE Accept(k)
      BY <2>0, <2>2 DEF Accept, Done
    <2>3. CASE AccountNotFound(k) \/ RegisterAccountFails(k) \/ Deny(k)
      BY <2>3 DEF AccountNotFound, RegisterAccountFails, Deny, Done
    <2> QED BY <1>2, <2>1, <2>2, <2>3 DEF Authenticate
  <1>3. ASSUME NEW n \in Names, SetBanned(n) PROVE AuthTypeOK'
    <2>1. accounts[n] \in Rows
      BY <1>3 DEF SetBanned
    <2>2. [accounts[n] EXCEPT !.banned = ~@] \in Rows
      BY <2>1 DEF Rows
    <2> QED BY <1>3, <2>2 DEF SetBanned
  <1>4. CASE UNCHANGED authVars
    BY <1>4 DEF authVars
  <1> QED BY <1>1, <1>2, <1>3, <1>4 DEF AuthNext

\* The limiter's table, the account table and the calls and logins under way
\* keep their types.
THEOREM AdmissionTypeCorrect == AdmissionSpec => []AdmissionTypeOK
  <1>1. AdmissionInit => AdmissionTypeOK
    BY WindowAssumption
    DEF AdmissionInit, AdmissionTypeOK, LimiterInit, LimiterTypeOK, AuthInit, AuthTypeOK, Times
  <1>2. AdmissionTypeOK /\ [AdmissionNext]_admissionVars => AdmissionTypeOK'
    <2> SUFFICES ASSUME AdmissionTypeOK, [AdmissionNext]_admissionVars
                 PROVE  AdmissionTypeOK'
      OBVIOUS
    <2>1. LimiterTypeOK' /\ AuthTypeOK'
      BY StepsApart, LimiterTyping, AuthTyping DEF AdmissionTypeOK
    <2>2. admitted' \subseteq Callers
      BY DEF AdmissionTypeOK, AdmissionNext, admissionVars, OnOpenAsks, OnOpenAdmits,
             OnOpenRefuses, OnClose, ProcessLogin
    <2> QED BY <2>1, <2>2 DEF AdmissionTypeOK
  <1> QED BY <1>1, <1>2, PTL DEF AdmissionSpec
----
(***************************************************************************)
(* The windows of the limiter.                                             *)
(***************************************************************************)

\* A cleanup's cutoff never goes back: it was taken from an earlier clock.
CutoffIsPast == cutoff <= clock - Window

\* The invariant of the limiter.
WindowParts == EntryIsLastWindow /\ NoneBeyondLast /\ LimitPerWindow

LimiterInv == LimiterTypeOK /\ CutoffIsPast /\ WindowParts

LEMMA CutoffStep ==
    ASSUME LimiterTypeOK, CutoffIsPast, [LimiterNext]_limiterVars
    PROVE  CutoffIsPast' /\ cutoff <= cutoff'
  <1> USE DEF LimiterTypeOK, CutoffIsPast, Times
  <1>1. CASE Cleanup
    BY <1>1, WindowAssumption DEF Cleanup
  <1>2. CASE ClockTick
    BY <1>2, WindowAssumption DEF ClockTick
  <1>3. CASE UNCHANGED <<clock, cutoff>>
    BY <1>3
  <1> QED
    BY <1>1, <1>2, <1>3
    DEF LimiterNext, limiterVars, Allow, AllowAdmits, AllowRefuses, CleanupShard

\* A call that opens a window opens one that has admitted nobody, unless the
\* cutoff has passed it; one that does not adds to the count of its entry.
LEMMA GrantedIsCount ==
    ASSUME LimiterInv, NEW k \in Callers, NEW ip \in IPs, NEW start \in Times,
           calls[k] \in Calls, ip = calls[k].ip,
           start = IF WindowOver(k) THEN calls[k].now ELSE entries[ip].windowStart,
           start >= cutoff
    PROVE  /\ granted[ip][start] = Count(k)
           /\ opened[ip] # NoEntry => opened[ip] <= start \/ opened[ip] < cutoff
  <1>0. /\ EntryIsLastWindow /\ NoneBeyondLast /\ LimiterTypeOK
        /\ granted[ip][start] \in Nat /\ start \in Int /\ cutoff \in Int
        /\ opened[ip] # NoEntry => opened[ip] \in Int
    BY DEF LimiterInv, WindowParts, LimiterTypeOK, Times
  <1>1. CASE ~WindowOver(k)
    <2>1. entries[ip] # NoEntry /\ start = entries[ip].windowStart /\ Count(k) = entries[ip].count
      BY <1>1 DEF WindowOver, Count
    <2> QED BY <1>0, <2>1 DEF EntryIsLastWindow, LastWindow
  <1>2. CASE WindowOver(k) /\ entries[ip] # NoEntry
    <2>1. opened[ip] = entries[ip].windowStart
      BY <1>0, <1>2 DEF EntryIsLastWindow, LastWindow
    <2>2. start - opened[ip] >= Window
      BY <1>2, <2>1 DEF WindowOver
    <2>3. opened[ip] \in Int
      BY <1>0, <1>2, <2>1, NoEntryAssumption DEF LimiterTypeOK, Entries, Times
    <2>4. opened[ip] < start
      BY <1>0, <2>2, <2>3, WindowAssumption
    <2>5. ~(granted[ip][start] > 0)
      BY <1>0, <2>3, <2>4 DEF NoneBeyondLast
    <2> QED BY <1>0, <1>2, <2>3, <2>4, <2>5 DEF Count
  <1>3. CASE entries[ip] = NoEntry
    <2>1. opened[ip] # NoEntry => opened[ip] < cutoff
      BY <1>0, <1>3 DEF EntryIsLastWindow, LastWindow
    <2>2. ~(granted[ip][start] > 0)
      BY <1>0, <2>1 DEF NoneBeyondLast
    <2>3. WindowOver(k)
      BY <1>3 DEF WindowOver
    <2> QED BY <1>0, <2>1, <2>2, <2>3 DEF Count
  <1> QED BY <1>1, <1>2, <1>3

\* An entry stays the window opened last, and the count of its calls.
LEMMA WindowStep ==
    ASSUME LimiterInv, [LimiterNext]_limiterVars
    PROVE  WindowParts'
  <1> USE DEF WindowParts
  <1>0. LimiterTypeOK /\ EntryIsLastWindow /\ NoneBeyondLast /\ LimitPerWindow
    BY DEF LimiterInv
  <1>1. ASSUME NEW k \in Callers, AllowAdmits(k)
        PROVE  WindowParts'
    <2>1. PICK ip \in IPs, start \in Times : AdmitsTo(k, ip, start)
      BY <1>0, <1>1, Admitted
    <2> USE DEF AdmitsTo
    <2>2. start >= cutoff => /\ granted[ip][start] = Count(k)
                             /\ opened[ip] # NoEntry => opened[ip] <= start \/ opened[ip] < cutoff
      BY <2>1, GrantedIsCount
    <2>3. Count(k) + 1 <= Limit
      BY <1>1, <2>1, LimitAssumption DEF AllowAdmits
    <2>4. opened'[ip] = start /\ entries'[ip] = [windowStart |-> start, count |-> Count(k) + 1]
      BY <1>0, <2>1 DEF LimiterTypeOK
    <2>5. entries'[ip] # NoEntry /\ opened'[ip] # NoEntry
      BY <2>1, <2>4, NoEntryAssumption DEF Entries, Times
    <2>6. /\ granted'[ip][start] = granted[ip][start] + 1
          /\ \A t \in Times \ {start} : granted'[ip][t] = granted[ip][t]
      BY <1>0, <2>1 DEF LimiterTypeOK
    <2>7. \A i \in IPs \ {ip} : /\ entries'[i] = entries[i]
                                /\ opened'[i] = opened[i]
                                /\ granted'[i] = granted[i]
      BY <1>0, <2>1 DEF LimiterTypeOK
    <2>8. start >= cutoff => granted'[ip][start] = Count(k) + 1
      BY <2>2, <2>6
    <2>9. EntryIsLastWindow'
      <3>1. entries'[ip].windowStart = start /\ entries'[ip].count = Count(k) + 1
        BY <2>4
      <3>2. LastWindow(ip)'
        BY <2>1, <2>4, <2>5, <2>8, <3>1 DEF LastWindow
      <3>3. ASSUME NEW i \in IPs \ {ip} PROVE LastWindow(i)'
        BY <1>0, <2>1, <2>7, <3>3 DEF EntryIsLastWindow, LastWindow
      <3> QED BY <3>2, <3>3 DEF EntryIsLastWindow
    <2>10. NoneBeyondLast'
      <3>1. ASSUME NEW t \in Times, t >= cutoff, granted'[ip][t] > 0 PROVE t <= start
        <4>1. CASE t = start
          BY <4>1 DEF Times
        <4>2. CASE t # start
          <5>1. opened[ip] # NoEntry /\ t <= opened[ip] /\ opened[ip] \in Int
            <6>1. granted[ip][t] > 0
              BY <2>6, <3>1, <4>2
            <6>2. opened[ip] # NoEntry /\ t <= opened[ip]
              BY <1>0, <3>1, <6>1 DEF NoneBeyondLast
            <6> QED BY <1>0, <6>2 DEF LimiterTypeOK, Times
          <5>2. start < cutoff => entries[ip] = NoEntry \/ opened[ip] < cutoff \/ opened[ip] <= start
            <6>1. CASE entries[ip] # NoEntry /\ WindowOver(k)
              <7>1. opened[ip] = entries[ip].windowStart
                BY <1>0, <6>1 DEF EntryIsLastWindow, LastWindow
              <7>2. start - opened[ip] >= Window
                BY <2>1, <6>1, <7>1 DEF WindowOver
              <7> QED BY <5>1, <7>2, WindowAssumption DEF Times
            <6>2. CASE ~WindowOver(k)
              BY <1>0, <2>1, <5>1, <6>2 DEF EntryIsLastWindow, LastWindow, WindowOver, Times
            <6> QED BY <6>1, <6>2
          <5>3. entries[ip] = NoEntry => opened[ip] < cutoff
            BY <1>0, <5>1 DEF EntryIsLastWindow, LastWindow
          <5>4. start \in Int /\ cutoff \in Int /\ t \in Int
            BY <1>0 DEF LimiterTypeOK, Times
          <5> QED BY <2>2, <3>1, <5>1, <5>2, <5>3, <5>4
        <4> QED BY <4>1, <4>2
      <3> QED BY <1>0, <2>1, <2>4, <2>5, <2>7, <3>1 DEF NoneBeyondLast
    <2>11. LimitPerWindow'
      <3> SUFFICES ASSUME NEW i \in IPs, NEW t \in Times, t >= cutoff, granted'[i][t] > 0
                   PROVE  granted'[i][t] <= Limit
        BY <2>1 DEF LimitPerWindow
      <3>1. CASE i = ip /\ t = start
        BY <2>3, <2>8, <3>1
      <3>2. CASE ~(i = ip /\ t = start)
        <4>1. granted'[i][t] = granted[i][t]
          BY <2>6, <2>7, <3>2
        <4> QED BY <1>0, <4>1 DEF LimitPerWindow
      <3> QED BY <3>1, <3>2
    <2> QED BY <2>9, <2>10, <2>11
  <1>2. CASE Cleanup
    <2>1. UNCHANGED <<entries, opened, granted>> /\ cutoff <= cutoff'
      BY <1>2, CutoffStep DEF Cleanup, LimiterNext, LimiterInv
    <2>2. cutoff' \in Int /\ cutoff \in Int /\ \A t \in Times : t \in Int
      BY <1>0, <1>2, WindowAssumption DEF Cleanup, LimiterTypeOK, Times
    <2>3. \A t \in Times : t >= cutoff' => t >= cutoff
      BY <2>1, <2>2
    <2>4. NoneBeyondLast' /\ LimitPerWindow'
      BY <1>0, <2>1, <2>3 DEF NoneBeyondLast, LimitPerWindow
    <2>5. EntryIsLastWindow'
      <3>1. \A ip \in IPs : /\ entries[ip] # NoEntry => entries[ip].windowStart \in Times
                            /\ opened[ip] # NoEntry => opened[ip] \in Times
        BY <1>0 DEF LimiterTypeOK, Entries
      <3>2. \A t \in Times : t < cutoff => t < cutoff'
        BY <2>1, <2>2
      <3>3. ASSUME NEW ip \in IPs, entries[ip] # NoEntry
            PROVE  LastWindow(ip)'
        <4>1. opened[ip] = entries[ip].windowStart /\ entries[ip].windowStart \in Times
          BY <1>0, <3>1, <3>3 DEF EntryIsLastWindow, LastWindow
        <4>2. entries[ip].windowStart >= cutoff' =>
                 granted[ip][entries[ip].windowStart] = entries[ip].count
          BY <1>0, <2>3, <3>3, <4>1 DEF EntryIsLastWindow, LastWindow
        <4> QED BY <2>1, <3>3, <4>1, <4>2 DEF LastWindow
      <3>4. ASSUME NEW ip \in IPs, entries[ip] = NoEntry
            PROVE  LastWindow(ip)'
        BY <1>0, <2>1, <3>1, <3>2, <3>4 DEF EntryIsLastWindow, LastWindow
      <3> QED BY <3>3, <3>4 DEF EntryIsLastWindow
    <2> QED BY <2>4, <2>5
  <1>3. ASSUME NEW sh \in Shards, CleanupShard(sh)
        PROVE  WindowParts'
    <2>1. NoneBeyondLast' /\ LimitPerWindow'
      BY <1>0, <1>3 DEF CleanupShard, NoneBeyondLast, LimitPerWindow
    <2>2. EntryIsLastWindow'
      BY <1>0, <1>3 DEF CleanupShard, EntryIsLastWindow, LastWindow, LimiterTypeOK
    <2> QED BY <2>1, <2>2
  <1>4. CASE UNCHANGED <<entries, opened, granted, cutoff>>
    BY <1>0, <1>4 DEF EntryIsLastWindow, LastWindow, NoneBeyondLast, LimitPerWindow
  <1> QED
    BY <1>1, <1>2, <1>3, <1>4 DEF LimiterNext, limiterVars, Allow, AllowRefuses, ClockTick

\* The limiter's invariant holds, whatever the logins do.
LEMMA LimiterInvariant == AdmissionSpec => []LimiterInv
  <1>1. AdmissionInit => CutoffIsPast /\ WindowParts
    BY WindowAssumption
    DEF AdmissionInit, LimiterInit, CutoffIsPast, WindowParts, EntryIsLastWindow, LastWindow,
        NoneBeyondLast, LimitPerWindow
  <1>2. AdmissionTypeOK => LimiterTypeOK
    BY DEF AdmissionTypeOK
  <1>3. LimiterInv /\ [AdmissionNext]_admissionVars
          => CutoffIsPast' /\ WindowParts'
    BY StepsApart, CutoffStep, WindowStep DEF LimiterInv
  <1> QED BY <1>1, <1>2, <1>3, AdmissionTypeCorrect, PTL DEF AdmissionSpec, LimiterInv

\* No window of Allow, counted over all times it was opened, admits more than
\* the limit, unless it began before the last cleanup's cutoff: for any limit and
\* window, and however late callers decide.
THEOREM WindowsAreLimited == AdmissionSpec => []LimitPerWindow
  BY LimiterInvariant, PTL DEF LimiterInv, WindowParts

\* Allow opens a window only when the one before it is over, except for a
\* call that read the clock before the last cleanup did.
THEOREM WindowsStayApart == AdmissionSpec => WindowsApart
  <1> DEFINE Apart ==
        \A ip \in IPs :
          opened'[ip] # opened[ip] /\ opened[ip] # NoEntry =>
             \/ opened'[ip] >= opened[ip] + Window
             \/ opened'[ip] < cutoff + Window
  <1>1. ASSUME LimiterInv, [AdmissionNext]_admissionVars PROVE [Apart]_limiterVars
    <2> USE <1>1 DEF LimiterInv, WindowParts
    <2> SUFFICES Apart
      OBVIOUS
    <2>1. ASSUME NEW k \in Callers, AllowAdmits(k) PROVE Apart
      <3>1. PICK ip \in IPs, start \in Times : AdmitsTo(k, ip, start)
        BY <2>1, Admitted
      <3> USE DEF AdmitsTo
      <3>2. SUFFICES ASSUME start # opened[ip], opened[ip] # NoEntry
                     PROVE  start >= opened[ip] + Window \/ start < cutoff + Window
        BY <3>1 DEF LimiterTypeOK
      <3>3. opened[ip] \in Nat /\ cutoff \in Int /\ start \in Nat
        BY <3>2 DEF LimiterTypeOK, Times
      <3>4. CASE entries[ip] = NoEntry
        BY <3>2, <3>3, <3>4, WindowAssumption DEF EntryIsLastWindow, LastWindow
      <3>5. CASE entries[ip] # NoEntry
        <4>1. opened[ip] = entries[ip].windowStart
          BY <3>5 DEF EntryIsLastWindow, LastWindow
        <4>2. WindowOver(k) /\ start = calls[k].now
          BY <3>1, <3>2, <4>1
        <4>3. start - opened[ip] >= Window
          BY <3>1, <3>5, <4>1, <4>2 DEF WindowOver
        <4> QED BY <3>3, <4>3, WindowAssumption
      <3> QED BY <3>4, <3>5
    <2>2. CASE UNCHANGED opened
      BY <2>2
    <2> QED
      BY <2>1, <2>2, StepsApart
      DEF LimiterNext, limiterVars, Allow, AllowRefuses, Cleanup, CleanupShard, ClockTick
  <1> QED BY <1>1, LimiterInvariant, PTL DEF AdmissionSpec, WindowsApart
----
(***************************************************************************)
(* The passwords.                                                          *)
(***************************************************************************)

\* A row that is there stays, with its password.
RowsStay ==
    \A n \in Names :
       accounts[n] # NoRow => accounts'[n] # NoRow /\ accounts'[n].pwd = accounts[n].pwd

LEMMA RowStep ==
    ASSUME AuthTypeOK, [AuthNext]_authVars
    PROVE  RowsStay
  <1>1. ASSUME NEW k \in Logins, RegisterAccount(k) PROVE RowsStay
    BY <1>1 DEF RegisterAccount, RowsStay, AuthTypeOK
  <1>2. ASSUME NEW n \in Names, SetBanned(n) PROVE RowsStay
    <2>1. accounts[n] \in Rows
      BY <1>2 DEF SetBanned, AuthTypeOK
    <2>2. accounts'[n] \in Rows /\ accounts'[n].pwd = accounts[n].pwd
      BY <1>2, <2>1 DEF SetBanned, AuthTypeOK, Rows
    <2>3. \A m \in Names \ {n} : accounts'[m] = accounts[m]
      BY <1>2 DEF SetBanned, AuthTypeOK
    <2> QED BY <2>2, <2>3, NoRowAssumption DEF RowsStay
  <1>3. CASE UNCHANGED accounts
    BY <1>3 DEF RowsStay
  <1> QED
    BY <1>1, <1>2, <1>3
    DEF AuthNext, authVars, FindAccount, Authenticate, AccountNotFound,
        RegisterAccountFails, Deny, Accept

LEMMA AcceptedStep ==
    ASSUME AuthTypeOK, AcceptedHasRow, [AuthNext]_authVars
    PROVE  AcceptedHasRow'
  <1>0. RowsStay
    BY RowStep
  <1>a. \A a \in accepted : a[1] \in Names
    BY DEF AuthTypeOK
  <1>b. \A k \in Logins : lookup[k] # NoLogin => lookup[k].name \in Names
    BY DEF AuthTypeOK, Lookups
  <1>c. \A a \in accepted : accounts'[a[1]] # NoRow /\ accounts'[a[1]].pwd = a[2]
    BY <1>0, <1>a DEF RowsStay, AcceptedHasRow
  <1>d. \A k \in Logins :
           lookup[k] # NoLogin /\ lookup[k].row # NoRow =>
              /\ accounts'[lookup[k].name] # NoRow
              /\ accounts'[lookup[k].name].pwd = lookup[k].row.pwd
    BY <1>0, <1>b DEF RowsStay, AcceptedHasRow
  <1>1. ASSUME NEW k \in Logins, NEW n \in Names, NEW p \in Passwords, FindAccount(k, n, p)
        PROVE  AcceptedHasRow'
    <2>1. lookup'[k] = [name |-> n, pwd |-> p, row |-> accounts[n]]
      BY <1>1 DEF FindAccount, AuthTypeOK
    <2>2. \A j \in Logins \ {k} : lookup'[j] = lookup[j]
      BY <1>1 DEF FindAccount, AuthTypeOK
    <2> QED BY <1>1, <1>c, <1>d, <2>1, <2>2 DEF FindAccount, AcceptedHasRow
  <1>2. ASSUME NEW k \in Logins, Authenticate(k) PROVE AcceptedHasRow'
    <2>1. \A j \in Logins : lookup'[j] # NoLogin => lookup'[j] = lookup[j]
      BY <1>2 DEF Authenticate, AccountNotFound, RegisterAccount, RegisterAccountFails,
                  Deny, Accept, Done, AuthTypeOK
    <2>2. ASSUME NEW a \in accepted', a \notin accepted
          PROVE  accounts'[a[1]] # NoRow /\ accounts'[a[1]].pwd = a[2]
      <3>1. CASE RegisterAccount(k)
        <4>1. a = <<lookup[k].name, lookup[k].pwd>> /\ lookup[k].name \in Names
          BY <1>b, <2>2, <3>1 DEF RegisterAccount
        <4>2. accounts'[lookup[k].name] = [pwd |-> lookup[k].pwd, banned |-> FALSE]
          BY <3>1, <4>1 DEF RegisterAccount, AuthTypeOK
        <4>3. [pwd |-> lookup[k].pwd, banned |-> FALSE] \in Rows
          BY <3>1 DEF RegisterAccount, AuthTypeOK, Lookups, Rows
        <4> QED BY <4>1, <4>2, <4>3, NoRowAssumption
      <3>2. CASE Accept(k)
        <4>1. a = <<lookup[k].name, lookup[k].pwd>>
          BY <2>2, <3>2 DEF Accept
        <4> QED BY <1>d, <3>2, <4>1 DEF Accept
      <3> QED
        BY <1>2, <2>2, <3>1, <3>2
        DEF Authenticate, AccountNotFound, RegisterAccountFails, Deny
    <2>3. \A a \in accepted' : accounts'[a[1]] # NoRow /\ accounts'[a[1]].pwd = a[2]
      BY <1>c, <2>2
    <2> QED BY <1>d, <2>1, <2>3 DEF AcceptedHasRow
  <1>3. ASSUME NEW n \in Names, SetBanned(n) PROVE AcceptedHasRow'
    BY <1>3, <1>c, <1>d DEF SetBanned, AcceptedHasRow
  <1>4. CASE UNCHANGED authVars
    BY <1>4, <1>c, <1>d DEF authVars, AcceptedHasRow
  <1> QED BY <1>1, <1>2, <1>3, <1>4 DEF AuthNext

\* However many first logins race to create an account, Authenticate lets
\* only one password through for it: the insert finds the other's row.
THEOREM OnePasswordPerName == AdmissionSpec => []OnePassword
  <1>1. AdmissionInit => AcceptedHasRow
    BY NoLoginAssumption DEF AdmissionInit, AuthInit, AcceptedHasRow
  <1>2. AdmissionTypeOK /\ AcceptedHasRow /\ [AdmissionNext]_admissionVars
          => AcceptedHasRow'
    BY StepsApart, AcceptedStep DEF AdmissionTypeOK
  <1>3. AcceptedHasRow => OnePassword
    BY DEF AcceptedHasRow, OnePassword
  <1> QED BY <1>1, <1>2, <1>3, AdmissionTypeCorrect, PTL DEF AdmissionSpec
====
