---- MODULE Admission ----
(***************************************************************************)
(* How a connection is let in: OnOpen asks the rate limiter, and only a    *)
(* connection it admits may log in, as often as its client sends a login   *)
(* packet and several times at once (a login goroutine is an element of    *)
(* Logins; LoginOf gives its connection).                                  *)
(***************************************************************************)
EXTENDS RateLimiter, Authenticator

CONSTANT LoginOf   \* LoginOf[k]: the connection of login goroutine k

ASSUME LoginOfAssumption == LoginOf \in [Logins -> Callers]

VARIABLE admitted   \* the connections OnOpen let in

admissionVars == <<limiterVars, authVars, admitted>>

AdmissionTypeOK ==
    /\ LimiterTypeOK
    /\ AuthTypeOK
    /\ admitted \subseteq Callers

AdmissionInit == LimiterInit /\ AuthInit /\ admitted = {}
----
OnOpenAsks(k, ip) ==
    /\ k \notin admitted
    /\ Allow(k, ip)
    /\ UNCHANGED <<authVars, admitted>>

OnOpenAdmits(k) ==
    /\ AllowAdmits(k)
    /\ admitted' = admitted \cup {k}
    /\ UNCHANGED authVars

OnOpenRefuses(k) ==
    /\ AllowRefuses(k)
    /\ UNCHANGED <<authVars, admitted>>

\* The client goes; its login goroutines go on.
OnClose(k) ==
    /\ k \in admitted
    /\ admitted' = admitted \ {k}
    /\ UNCHANGED <<limiterVars, authVars>>

ProcessLogin(k) ==
    /\ LoginOf[k] \in admitted
    /\ \/ \E n \in Names, p \in Passwords : FindAccount(k, n, p)
       \/ FindAccountFails(k)
    /\ UNCHANGED <<limiterVars, admitted>>

AdmissionNext ==
    \/ \E k \in Callers :
          \/ \E ip \in IPs : OnOpenAsks(k, ip)
          \/ OnOpenAdmits(k)
          \/ OnOpenRefuses(k)
          \/ OnClose(k)
    \/ \E k \in Logins :
          \/ ProcessLogin(k)
          \/ Authenticate(k) /\ UNCHANGED <<limiterVars, admitted>>
    \/ \E n \in Names : SetBanned(n) /\ UNCHANGED <<limiterVars, admitted>>
    \/ /\ Cleanup \/ (\E sh \in Shards : CleanupShard(sh)) \/ ClockTick
       /\ UNCHANGED <<authVars, admitted>>

AdmissionSpec == AdmissionInit /\ [][AdmissionNext]_admissionVars
====
