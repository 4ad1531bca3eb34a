---- MODULE Authenticator ----
(***************************************************************************)
(* Authenticate (src/internal/service/authenticator.go) on the account     *)
(* table (src/internal/db): FindAccount and RegisterAccount are two round  *)
(* trips to the database, between which other logins and the operator      *)
(* change the table.                                                       *)
(*                                                                         *)
(* A row is a password and whether the account is shut out (banned, or an  *)
(* access level below 0).  A hash stands for the password it was made of;  *)
(* last_ip and last_server, which no decision reads, are left out.         *)
(***************************************************************************)
CONSTANTS
    Names,       \* user names in lower case
    Passwords,   \* passwords
    Logins,      \* login goroutines
    NoRow,       \* no row for the name
    NoLogin      \* the goroutine is not inside Authenticate

Rows == [pwd : Passwords, banned : BOOLEAN]

\* The arguments of Authenticate and the row FindAccount returned.
Lookups == [name : Names, pwd : Passwords, row : Rows \cup {NoRow}]

ASSUME NoRowAssumption == NoRow \notin Rows
ASSUME NoLoginAssumption == NoLogin \notin Lookups

VARIABLES
    autoCreate,  \* Authenticator.autoCreate, set once
    accounts,    \* l2auth.account, one row per lower(name)
    lookup,      \* lookup[k]: where login k is in Authenticate
    accepted     \* history: the <<name, password>> pairs that logged in

authVars == <<autoCreate, accounts, lookup, accepted>>

AuthTypeOK ==
    /\ autoCreate \in BOOLEAN
    /\ accounts \in [Names -> Rows \cup {NoRow}]
    /\ lookup \in [Logins -> Lookups \cup {NoLogin}]
    /\ accepted \subseteq Names \X Passwords

\* NewAuthenticator, on a table that may have accounts.
AuthInit ==
    /\ autoCreate \in BOOLEAN
    /\ accounts \in [Names -> Rows \cup {NoRow}]
    /\ lookup = [k \in Logins |-> NoLogin]
    /\ accepted = {}
----
Done(k) == lookup' = [lookup EXCEPT ![k] = NoLogin]

\* Authenticate up to the answer of FindAccount.
FindAccount(k, n, p) ==
    /\ lookup[k] = NoLogin
    /\ lookup' = [lookup EXCEPT ![k] = [name |-> n, pwd |-> p, row |-> accounts[n]]]
    /\ UNCHANGED <<autoCreate, accounts, accepted>>

\* FindAccount fails: Authenticate returns the error.
FindAccountFails(k) ==
    /\ lookup[k] = NoLogin
    /\ UNCHANGED authVars

\* The account does not exist.
AccountNotFound(k) ==
    /\ lookup[k] # NoLogin /\ lookup[k].row = NoRow
    /\ ~autoCreate
    /\ Done(k)
    /\ UNCHANGED <<autoCreate, accounts, accepted>>

\* The broken form: the table has no unique index, or the insert is an upsert.
RegisterAccountOver(k) ==
    LET in == lookup[k] IN
    /\ in # NoLogin /\ in.row = NoRow /\ autoCreate
    /\ accounts' = [accounts EXCEPT ![in.name] = [pwd |-> in.pwd, banned |-> FALSE]]
    /\ accepted' = accepted \cup {<<in.name, in.pwd>>}
    /\ Done(k)
    /\ UNCHANGED autoCreate

\* The broken form: the hash's error is ignored, and the row has no password.
RegisterAccountUnhashed(k) ==
    LET in == lookup[k] IN
    /\ in # NoLogin /\ in.row = NoRow /\ autoCreate
    /\ accounts[in.name] = NoRow
    /\ accounts' = [accounts EXCEPT ![in.name] = [pwd |-> NoRow, banned |-> FALSE]]
    /\ accepted' = accepted \cup {<<in.name, in.pwd>>}
    /\ Done(k)
    /\ UNCHANGED autoCreate

\* createAccount: the insert succeeds unless a row has come in since
\* FindAccount; the login goes on with the row it wrote.
RegisterAccount(k) ==
    LET in == lookup[k] IN
    /\ in # NoLogin /\ in.row = NoRow /\ autoCreate
    /\ accounts[in.name] = NoRow
    /\ accounts' = [accounts EXCEPT ![in.name] = [pwd |-> in.pwd, banned |-> FALSE]]
    /\ accepted' = accepted \cup {<<in.name, in.pwd>>}
    /\ Done(k)
    /\ UNCHANGED autoCreate

\* createAccount fails: the unique index on lower(name) refuses a second row,
\* or the database is away.
RegisterAccountFails(k) ==
    /\ lookup[k] # NoLogin /\ lookup[k].row = NoRow /\ autoCreate
    /\ Done(k)
    /\ UNCHANGED <<autoCreate, accounts, accepted>>

\* The password is wrong, or the account is shut out.
Deny(k) ==
    LET in == lookup[k] IN
    /\ in # NoLogin /\ in.row # NoRow
    /\ in.row.pwd # in.pwd \/ in.row.banned
    /\ Done(k)
    /\ UNCHANGED <<autoCreate, accounts, accepted>>

\* The row that FindAccount returned lets the login through.
Accept(k) ==
    LET in == lookup[k] IN
    /\ in # NoLogin /\ in.row # NoRow
    /\ in.row.pwd = in.pwd /\ ~in.row.banned
    /\ accepted' = accepted \cup {<<in.name, in.pwd>>}
    /\ Done(k)
    /\ UNCHANGED <<autoCreate, accounts>>

\* The operator bans an account or pardons it.
SetBanned(n) ==
    /\ accounts[n] # NoRow
    /\ accounts' = [accounts EXCEPT ![n].banned = ~@]
    /\ UNCHANGED <<autoCreate, lookup, accepted>>

Authenticate(k) ==
    \/ AccountNotFound(k)
    \/ RegisterAccount(k)
    \/ RegisterAccountFails(k)
    \/ Deny(k)
    \/ Accept(k)
----
\* An account has one password: every login that was let through as one name
\* gave the same, however many first logins raced to create the account.
OnePassword ==
    \A a, b \in accepted : a[1] = b[1] => a[2] = b[2]

\* What makes OnePassword inductive: an accepted login has its row, with the
\* password it gave, and a row that was read still has that password.
AcceptedHasRow ==
    /\ \A a \in accepted : accounts[a[1]] # NoRow /\ accounts[a[1]].pwd = a[2]
    /\ \A k \in Logins :
          lookup[k] # NoLogin /\ lookup[k].row # NoRow =>
             /\ accounts[lookup[k].name] # NoRow
             /\ accounts[lookup[k].name].pwd = lookup[k].row.pwd
====
