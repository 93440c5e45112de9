------------------------------- MODULE TeamAccess ------------------------------
(***************************************************************************)
(* The team's accounts: the dashboard's logins and sessions, its team      *)
(* administration, and the password manager, a second process on the same  *)
(* file.                                                                   *)
(*                                                                         *)
(* Each process has a TeamStore: it loads wolfpak_team.json once, and with *)
(* every change writes all it has in memory.  The dashboard's handlers run *)
(* to their end without giving up the event loop, so each is one step.  A  *)
(* request that is refused and counts for nothing changes nothing and is   *)
(* left out.                                                               *)
(***************************************************************************)
EXTENDS Naturals, Sequences

CONSTANTS
    Names,        \* the user names, as they are stored
    Admin,        \* "admin"
    Dotted,       \* the names with a dot in them
    Passwords,
    Bootstrap,    \* the password admin gets at every start of the dashboard
    MaxAttempts,  \* counted attempts that throttle an address (5)
    Window,       \* ticks an attempt counts (300 s)
    Lifetime,     \* ticks a session lasts (3600 s)
    Faults,       \* subset of {"save", "read"}
    MaxChanges    \* bound: account changes

ASSUME TeamAssumption ==
    /\ Admin \in Names
    /\ Dotted \subseteq Names
    /\ Bootstrap \in Passwords
    /\ MaxAttempts \in Nat \ {0}
    /\ Window \in Nat \ {0}
    /\ Lifetime \in Nat \ {0}
    /\ Faults \subseteq {"save", "read"}
    /\ MaxChanges \in Nat

VARIABLES
    store,        \* the accounts each process has in memory: TeamStore._data
    disk,         \* wolfpak_team.json
    open,         \* the password manager runs
    session,      \* ticks for which a session of each user is still accepted
    attempts,     \* _login_attempts of an address, as the ticks each still counts
    changes,      \* the number of account changes
    behind,       \* history: processes whose memory misses a write of the other
    overwritten,  \* history: such a process has saved, or the file was lost
    allowed,      \* history: what each account may be: as last acknowledged, or tried since
    guesses,      \* history: wrong passwords of an address in the window, since its last success
    demoted       \* history: an admin was given another role, in this run of the dashboard

accountVars == <<store, disk, open, changes, behind, overwritten, allowed, demoted>>
vars        == <<accountVars, session, attempts, guesses>>

Dashboard == "dashboard"
Manager   == "manager"
Processes == {Dashboard, Manager}

Roles     == {"admin", "operator"}
Account   == [role : Roles, password : Passwords]
NoAccount == [role |-> "none", password |-> Bootstrap]
Accounts  == [Names -> Account \cup {NoAccount}]

Empty == [n \in Names |-> NoAccount]

(* ensure_default_admin(force_reset=True). *)
WithAdmin(s) == [s EXCEPT ![Admin] = [role |-> "admin", password |-> Bootstrap]]

TypeOK ==
    /\ store \in [Processes -> Accounts]
    /\ disk \in Accounts
    /\ open \in BOOLEAN
    /\ session \in [Names -> 0 .. Lifetime]
    /\ attempts \in UNION {[1 .. k -> 1 .. Window] : k \in 0 .. MaxAttempts}
    /\ changes \in 0 .. MaxChanges
    /\ behind \subseteq Processes
    /\ overwritten \in BOOLEAN
    /\ allowed \in [Names -> SUBSET (Account \cup {NoAccount})]
    /\ guesses \in UNION {[1 .. k -> 1 .. Window] : k \in 0 .. MaxAttempts + 1}
    /\ demoted \in BOOLEAN

(* The dashboard has started for the first time. *)
Init ==
    /\ store = [p \in Processes |-> IF p = Dashboard THEN WithAdmin(Empty) ELSE Empty]
    /\ disk = WithAdmin(Empty)
    /\ open = FALSE
    /\ session = [n \in Names |-> 0]
    /\ attempts = <<>>
    /\ changes = 0
    /\ behind = {}
    /\ overwritten = FALSE
    /\ allowed = [n \in Names |-> {disk[n]}]
    /\ guesses = <<>>
    /\ demoted = FALSE

--------------------------------------------------------------------------------
(* Changes of accounts. *)

Exists(p, n) == store[p][n] # NoAccount

(* In memory. *)
Put(p, n, account) == store' = [store EXCEPT ![p] = [@ EXCEPT ![n] = account]]

(* _save succeeds: the file is what this process has in memory. *)
Save(p, n, account) ==
    /\ disk' = store'[p]
    /\ behind' = (behind \ {p}) \cup (IF p = Dashboard /\ ~open THEN {} ELSE Processes \ {p})
    /\ overwritten' = (overwritten \/ p \in behind)
    /\ allowed' = [allowed EXCEPT ![n] = {account}]

(* _save raises, in the dashboard: the file stays, the memory stays changed, *)
(* and the request is not answered.                                          *)
SaveFails(n, account) ==
    /\ "save" \in Faults
    /\ allowed' = [allowed EXCEPT ![n] = @ \cup {account}]
    /\ UNCHANGED <<disk, behind, overwritten>>

CountChange == changes < MaxChanges /\ changes' = changes + 1

(* A change of account n by the dashboard. *)
DashboardPut(n, account) ==
    /\ CountChange
    /\ Put(Dashboard, n, account)
    /\ Save(Dashboard, n, account) \/ SaveFails(n, account)
    /\ UNCHANGED <<open>>

Demotes(n, role) == store[Dashboard][n].role = "admin" /\ role # "admin"

(* Mutant: the role is not looked at. *)
ActsForAnyone(u) == session[u] > 0 /\ Exists(Dashboard, u)

(* A request with a session of u passes verify_session_token and the check   *)
(* of the role in _team_route.                                               *)
ActsAsAdmin(u) == session[u] > 0 /\ store[Dashboard][u].role = "admin"

(* add_member replaces an account of that name. *)
TeamAdd(u, n, account) ==
    /\ ActsAsAdmin(u)
    /\ DashboardPut(n, account)
    /\ demoted' = (demoted \/ Demotes(n, account.role))
    /\ UNCHANGED <<session, attempts, guesses>>

(* Mutant: one may remove oneself. *)
TeamRemoveAny(u, n) ==
    /\ ActsAsAdmin(u)
    /\ Exists(Dashboard, n)
    /\ DashboardPut(n, NoAccount)
    /\ UNCHANGED <<session, attempts, guesses, demoted>>

(* Mutant: the removal is not saved. *)
TeamRemoveUnsaved(u, n) ==
    /\ ActsAsAdmin(u)
    /\ n # u
    /\ Exists(Dashboard, n)
    /\ CountChange
    /\ Put(Dashboard, n, NoAccount)
    /\ allowed' = [allowed EXCEPT ![n] = {NoAccount}]
    /\ UNCHANGED <<disk, behind, overwritten, open, session, attempts, guesses, demoted>>

TeamRemove(u, n) ==
    /\ ActsAsAdmin(u)
    /\ n # u
    /\ Exists(Dashboard, n)
    /\ DashboardPut(n, NoAccount)
    /\ UNCHANGED <<session, attempts, guesses, demoted>>

(* Mutant: it is not asked whether there is such a member. *)
TeamResetPasswordOfAny(u, n, new) ==
    /\ ActsAsAdmin(u)
    /\ DashboardPut(n, [store[Dashboard][n] EXCEPT !.password = new])
    /\ UNCHANGED <<session, attempts, guesses, demoted>>

(* Sessions of n go on. *)
TeamResetPassword(u, n, new) ==
    /\ ActsAsAdmin(u)
    /\ Exists(Dashboard, n)
    /\ DashboardPut(n, [store[Dashboard][n] EXCEPT !.password = new])
    /\ UNCHANGED <<session, attempts, guesses, demoted>>

--------------------------------------------------------------------------------
(* Logins and changes of one's own password, from one address. *)

Throttled == Len(attempts) >= MaxAttempts

(* authenticate. *)
Authentic(n, password) ==
    Exists(Dashboard, n) /\ store[Dashboard][n].password = password

(* One more attempt is counted. *)
Counted == attempts' = Append(attempts, Window)

(* A wrong password was tried. *)
Guessed == guesses' = IF Len(guesses) > MaxAttempts THEN guesses ELSE Append(guesses, Window)

(* A login that succeeds; one with a password older than 60 days is refused  *)
(* without being counted.                                                    *)
(* The token has the name as it was typed.  verify_session_token looks it up *)
(* in that spelling and splits the token at dots, so that only a session     *)
(* under the stored name, without a dot, is ever accepted.                   *)
Login(n, password, asStored) ==
    /\ ~Throttled
    /\ Authentic(n, password)
    /\ attempts' = <<>>
    /\ guesses' = <<>>
    /\ session' = IF asStored /\ n \notin Dotted
                  THEN [session EXCEPT ![n] = Lifetime] ELSE session
    /\ UNCHANGED accountVars

(* Mutant: an attempt while the address is throttled counts as well. *)
LoginFailsCounted(n, password) ==
    /\ ~Authentic(n, password)
    /\ attempts' = IF Throttled THEN Append(Tail(attempts), Window)
                   ELSE Append(attempts, Window)
    /\ IF Throttled THEN UNCHANGED guesses ELSE Guessed
    /\ UNCHANGED <<accountVars, session>>

LoginFails(n, password) ==
    /\ ~Throttled
    /\ ~Authentic(n, password)
    /\ Counted
    /\ Guessed
    /\ UNCHANGED <<accountVars, session>>

(* Without a name or a password. *)
LoginBlank ==
    /\ ~Throttled
    /\ Counted
    /\ UNCHANGED <<accountVars, session, guesses>>

(* The count stays, whether or not the password was old. *)
ChangePassword(n, old, new) ==
    /\ ~Throttled
    /\ Authentic(n, old)
    /\ DashboardPut(n, [store[Dashboard][n] EXCEPT !.password = new])
    /\ UNCHANGED <<session, attempts, guesses, demoted>>

(* Mutant: only logins are counted. *)
ChangePasswordFailsUncounted(n, old) ==
    /\ ~Throttled
    /\ ~Authentic(n, old)
    /\ Guessed
    /\ UNCHANGED <<accountVars, session, attempts>>

ChangePasswordFails(n, old) ==
    /\ ~Throttled
    /\ ~Authentic(n, old)
    /\ Counted
    /\ Guessed
    /\ UNCHANGED <<accountVars, session>>

--------------------------------------------------------------------------------
(* Processes. *)

(* _load.  A file that cannot be read is replaced by one without members,    *)
(* since that one needs a new secret.                                        *)
Loaded(s) ==
    \/ s = disk /\ overwritten' = overwritten
    \/ "read" \in Faults /\ s = Empty /\ overwritten' = TRUE

(* The dashboard starts again.  The nonce of its sessions is new, and admin  *)
(* is reset and saved.  A start whose save raises comes to nothing.          *)
DashboardStart ==
    \E s \in {disk, Empty} :
        /\ Loaded(s)
        /\ store' = [store EXCEPT ![Dashboard] = WithAdmin(s)]
        /\ disk' = WithAdmin(s)
        /\ behind' = IF open THEN {Manager} ELSE {}
        /\ allowed' = [allowed EXCEPT ![Admin] = {WithAdmin(s)[Admin]}]
        /\ session' = [n \in Names |-> 0]
        /\ attempts' = <<>>
        /\ guesses' = <<>>
        /\ demoted' = FALSE
        /\ UNCHANGED <<open, changes>>

ManagerStart ==
    /\ ~open
    /\ open' = TRUE
    /\ \E s \in {disk, Empty} :
        /\ Loaded(s)
        /\ store' = [store EXCEPT ![Manager] = s]
        /\ disk' = s
        /\ behind' = (behind \ {Manager}) \cup (IF s = disk THEN {} ELSE {Dashboard})
    /\ UNCHANGED <<session, attempts, changes, allowed, guesses, demoted>>

(* The operator quits, or a save raises, which ends the password manager.    *)
ManagerQuit ==
    /\ open
    /\ open' = FALSE
    /\ store' = [store EXCEPT ![Manager] = Empty]
    /\ behind' = behind \ {Manager}
    /\ UNCHANGED <<disk, session, attempts, changes, overwritten, allowed, guesses, demoted>>

(* Menu entries 5, 6 and 8: add, change the password, remove. *)
ManagerPut(n, account) ==
    /\ open
    /\ \/ account \in Account
       \/ Exists(Manager, n) /\ account = NoAccount
    /\ CountChange
    /\ Put(Manager, n, account)
    /\ Save(Manager, n, account)
    /\ UNCHANGED <<open, session, attempts, guesses, demoted>>

(* What is left of times s after a tick: those still in the window. *)
Aged(s) ==
    LET kept[i \in 0 .. Len(s)] ==
            IF i = 0 THEN <<>>
            ELSE IF s[i] > 1 THEN Append(kept[i - 1], s[i] - 1) ELSE kept[i - 1]
    IN  kept[Len(s)]

(* Time passes: sessions run out and attempts leave the window. *)
Tick ==
    /\ session' = [n \in Names |-> IF session[n] = 0 THEN 0 ELSE session[n] - 1]
    /\ attempts' = Aged(attempts)
    /\ guesses' = Aged(guesses)
    /\ UNCHANGED accountVars

Administer ==
    \E u, n \in Names :
        \/ \E account \in Account : TeamAdd(u, n, account)
        \/ TeamRemove(u, n)
        \/ \E new \in Passwords : TeamResetPassword(u, n, new)

Authenticate ==
    \E n \in Names, password \in Passwords :
        \/ \E asStored \in BOOLEAN : Login(n, password, asStored)
        \/ LoginFails(n, password)
        \/ \E new \in Passwords : ChangePassword(n, password, new)
        \/ ChangePasswordFails(n, password)

Manage ==
    \/ ManagerStart
    \/ ManagerQuit
    \/ \E n \in Names, account \in Account \cup {NoAccount} : ManagerPut(n, account)

Next ==
    \/ Administer
    \/ Authenticate
    \/ LoginBlank
    \/ Manage
    \/ DashboardStart
    \/ Tick

Spec == Init /\ [][Next]_vars

(* The clock goes on. *)
FairSpec == Spec /\ WF_vars(Tick)

--------------------------------------------------------------------------------
(* Properties. *)

(* The dashboard always has members.  verify_session_token does not ask for  *)
(* the member when there is none, so the last one must never be removed: an  *)
(* admin removes the others, one after the other, but never itself           *)
(* (_team_route, remove_member, ensure_default_admin).                       *)
HasMembers == \E n \in Names : Exists(Dashboard, n)

(* The dashboard always has an admin, unless one was given another role by   *)
(* adding the account again since the dashboard started (_team_route,        *)
(* add_member, ensure_default_admin).                                        *)
AdminRemains == demoted \/ \E n \in Names : store[Dashboard][n].role = "admin"

(* A change that was acknowledged is in the file, whatever saves failed and  *)
(* however the processes restart, as long as no process saves that has not   *)
(* seen the other's last write and the file can be read.  What is in the     *)
(* file otherwise is a later change whose save failed at first (_save).      *)
AcknowledgedIsSaved == overwritten \/ \A n \in Names : disk[n] \in allowed[n]

(* No more than MaxAttempts wrong passwords are compared for an address in   *)
(* any window, by logins and changes of a password together, unless it has   *)
(* logged in meanwhile or the dashboard has restarted (_auth_login,          *)
(* _auth_change_password).                                                   *)
GuessesAreLimited == Len(guesses) <= MaxAttempts

(* An address that is throttled is let in again, however often it tries      *)
(* meanwhile (_auth_login, _auth_change_password).                           *)
ThrottleEnds == Throttled ~> ~Throttled

================================================================================
