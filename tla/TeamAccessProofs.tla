---------------------------- MODULE TeamAccessProofs ---------------------------
(***************************************************************************)
(* Theorems about TeamAccess, for any users, passwords and faults: the     *)
(* dashboard never loses its last member, nor its last admin unless an     *)
(* admin is demoted, what was acknowledged is in the team file, and no     *)
(* address guesses more often in a window than the throttle allows.        *)
(***************************************************************************)
EXTENDS TeamAccess, SequenceTheorems, WellFoundedInduction, TLAPS

AccountTypes ==
    /\ store \in [Processes -> Accounts]
    /\ disk \in Accounts
    /\ allowed \in [Names -> SUBSET (Account \cup {NoAccount})]
    /\ open \in BOOLEAN

Running == IF open THEN Processes ELSE {Dashboard}

(* Also the memory of a process that has seen the last write has only what   *)
(* is allowed: that is what its next save writes.                            *)
SavedInv ==
    overwritten \/ \A n \in Names :
        /\ disk[n] \in allowed[n]
        /\ \A p \in Running \ behind : store[p][n] \in allowed[n]

TeamInv == AccountTypes /\ HasMembers /\ AdminRemains /\ SavedInv

--------------------------------------------------------------------------------
(* Accounts. *)

LEMMA AccountExists ==
    ASSUME NEW account \in Account
    PROVE  account # NoAccount /\ account.role # "none"
BY DEF Account, NoAccount, Roles

LEMMA AdminExists ==
    ASSUME NEW p \in Processes, NEW n \in Names, store[p][n].role = "admin"
    PROVE  Exists(p, n)
BY DEF Exists, NoAccount

LEMMA WithAdminAccount ==
    ASSUME TeamAssumption, NEW s \in Accounts
    PROVE  /\ WithAdmin(s) \in Accounts
           /\ WithAdmin(s)[Admin] = [role |-> "admin", password |-> Bootstrap]
           /\ \A n \in Names \ {Admin} : WithAdmin(s)[n] = s[n]
BY DEF TeamAssumption, WithAdmin, Accounts, Account, Roles

LEMMA EmptyAccounts ==
    Empty \in Accounts
BY DEF Empty, Accounts

(* A new password for an account that exists. *)
LEMMA NewPassword ==
    ASSUME AccountTypes, NEW n \in Names, Exists(Dashboard, n), NEW new \in Passwords
    PROVE  /\ [store[Dashboard][n] EXCEPT !.password = new] \in Account
           /\ [store[Dashboard][n] EXCEPT !.password = new].role = store[Dashboard][n].role
<1>1. store[Dashboard][n] \in Account
    BY DEF AccountTypes, Accounts, Exists, Processes, Dashboard
<1>. QED BY <1>1 DEF Account

--------------------------------------------------------------------------------
(* A change in memory. *)
LEMMA PutAccounts ==
    ASSUME AccountTypes, NEW p \in Processes, NEW n \in Names,
           NEW account \in Account \cup {NoAccount}, Put(p, n, account)
    PROVE  /\ store' \in [Processes -> Accounts]
           /\ store'[p][n] = account
           /\ \A m \in Names : m # n => store'[p][m] = store[p][m]
           /\ \A q \in Processes : q # p => store'[q] = store[q]
BY DEF AccountTypes, Put, Accounts

(* What a save leaves, also when it fails. *)
LEMMA SaveKeepsSaved ==
    ASSUME TeamInv, NEW p \in Running, NEW n \in Names,
           NEW account \in Account \cup {NoAccount}, Put(p, n, account),
           Save(p, n, account), UNCHANGED open
    PROVE  AccountTypes' /\ SavedInv'
<1>0. p \in Processes /\ Running' = Running /\ Running \subseteq Processes
    BY DEF Running, Processes
<1>1. /\ store' \in [Processes -> Accounts]
      /\ store'[p][n] = account
      /\ \A m \in Names : m # n => store'[p][m] = store[p][m]
    BY <1>0, PutAccounts DEF TeamInv
<1>2. /\ allowed' \in [Names -> SUBSET (Account \cup {NoAccount})]
      /\ allowed'[n] = {account}
      /\ \A m \in Names : m # n => allowed'[m] = allowed[m]
    BY DEF Save, TeamInv, AccountTypes
<1>3. AccountTypes'
    <2>1. disk' \in Accounts
        BY <1>0, <1>1 DEF Save
    <2>. QED BY <1>1, <1>2, <2>1 DEF TeamInv, AccountTypes
<1>4. SavedInv'
    <2>1. CASE overwritten \/ p \in behind
        BY <2>1 DEF Save, SavedInv
    <2>2. CASE ~overwritten /\ p \notin behind
        <3>1. \A m \in Names : store[p][m] \in allowed[m]
            BY <2>2 DEF TeamInv, SavedInv
        <3>2. \A m \in Names : store'[p][m] \in allowed'[m]
            BY <1>1, <1>2, <3>1
        <3>3. Running \ behind' \subseteq {p}
            BY DEF Save, Running, Processes, Dashboard, Manager
        <3>4. disk' = store'[p]
            BY DEF Save
        <3>. QED BY <1>0, <3>2, <3>3, <3>4 DEF SavedInv
    <2>. QED BY <2>1, <2>2
<1>. QED BY <1>3, <1>4

LEMMA SaveFailsKeepsSaved ==
    ASSUME TeamInv, NEW n \in Names, NEW account \in Account \cup {NoAccount},
           Put(Dashboard, n, account), SaveFails(n, account), UNCHANGED open
    PROVE  AccountTypes' /\ SavedInv'
<1>0. Dashboard \in Processes /\ Running' = Running /\ Running \subseteq Processes
    BY DEF Running, Processes
<1>1. /\ store' \in [Processes -> Accounts]
      /\ store'[Dashboard][n] = account
      /\ \A m \in Names : m # n => store'[Dashboard][m] = store[Dashboard][m]
      /\ \A q \in Processes : q # Dashboard => store'[q] = store[q]
    BY <1>0, PutAccounts DEF TeamInv
<1>2. /\ allowed' \in [Names -> SUBSET (Account \cup {NoAccount})]
      /\ account \in allowed'[n]
      /\ \A m \in Names : allowed[m] \subseteq allowed'[m]
    BY DEF SaveFails, TeamInv, AccountTypes
<1>3. AccountTypes'
    BY <1>1, <1>2 DEF SaveFails, TeamInv, AccountTypes
<1>4. disk' = disk /\ behind' = behind /\ overwritten' = overwritten
    BY DEF SaveFails
<1>5. ASSUME ~overwritten, NEW m \in Names
      PROVE  /\ disk'[m] \in allowed'[m]
             /\ \A p \in Running' \ behind' : store'[p][m] \in allowed'[m]
    <2>1. disk[m] \in allowed[m] /\ \A p \in Running \ behind : store[p][m] \in allowed[m]
        BY <1>5 DEF TeamInv, SavedInv
    <2>2. disk'[m] \in allowed'[m]
        BY <1>2, <1>4, <2>1
    <2>3. ASSUME NEW p \in Running \ behind PROVE store'[p][m] \in allowed'[m]
        BY <1>0, <1>1, <1>2, <2>1, <2>3
    <2>. QED BY <1>0, <1>4, <2>2, <2>3
<1>6. SavedInv'
    BY <1>4, <1>5 DEF SavedInv
<1>. QED BY <1>3, <1>6

(* A change by the dashboard. *)
LEMMA DashboardPutKeepsSaved ==
    ASSUME TeamInv, NEW n \in Names, NEW account \in Account \cup {NoAccount},
           DashboardPut(n, account)
    PROVE  /\ AccountTypes' /\ SavedInv'
           /\ store'[Dashboard][n] = account
           /\ \A m \in Names : m # n => store'[Dashboard][m] = store[Dashboard][m]
<1>1. Dashboard \in Running /\ Dashboard \in Processes
    BY DEF Running, Processes
<1>2. Put(Dashboard, n, account) /\ UNCHANGED open
    BY DEF DashboardPut
<1>3. AccountTypes' /\ SavedInv'
    <2>1. CASE Save(Dashboard, n, account)
        BY <1>1, <1>2, <2>1, SaveKeepsSaved
    <2>2. CASE SaveFails(n, account)
        BY <1>2, <2>2, SaveFailsKeepsSaved
    <2>. QED BY <2>1, <2>2 DEF DashboardPut
<1>4. /\ store'[Dashboard][n] = account
      /\ \A m \in Names : m # n => store'[Dashboard][m] = store[Dashboard][m]
    BY <1>1, <1>2, PutAccounts DEF TeamInv
<1>. QED BY <1>3, <1>4

--------------------------------------------------------------------------------
(* The steps. *)

LEMMA InitTeamInv ==
    ASSUME TeamAssumption, Init
    PROVE  TeamInv
<1>1. Empty \in Accounts /\ WithAdmin(Empty) \in Accounts
    BY EmptyAccounts, WithAdminAccount
<1>2. AccountTypes
    <2>1. store \in [Processes -> Accounts]
        BY <1>1 DEF Init
    <2>2. \A n \in Names : disk[n] \in Account \cup {NoAccount}
        BY <1>1 DEF Init, Accounts
    <2>3. allowed \in [Names -> SUBSET (Account \cup {NoAccount})]
        BY <2>2 DEF Init
    <2>. QED BY <1>1, <2>1, <2>3 DEF Init, AccountTypes
<1>3. Admin \in Names /\ store[Dashboard][Admin].role = "admin" /\ Dashboard \in Processes
    BY <1>1, WithAdminAccount, EmptyAccounts DEF Init, TeamAssumption, Processes
<1>4. HasMembers /\ AdminRemains
    BY <1>3, AdminExists DEF HasMembers, AdminRemains
<1>5. SavedInv
    <2>1. Running = {Dashboard} /\ store[Dashboard] = disk
        BY DEF Init, Running, Processes
    <2>2. \A n \in Names : disk[n] \in allowed[n]
        BY DEF Init
    <2>. QED BY <2>1, <2>2 DEF SavedInv
<1>. QED BY <1>2, <1>4, <1>5 DEF TeamInv

LEMMA AddKeepsInv ==
    ASSUME TeamInv, NEW u \in Names, NEW n \in Names, NEW account \in Account,
           TeamAdd(u, n, account)
    PROVE  TeamInv'
<1>1. /\ AccountTypes' /\ SavedInv'
      /\ store'[Dashboard][n] = account
      /\ \A m \in Names : m # n => store'[Dashboard][m] = store[Dashboard][m]
    BY DashboardPutKeepsSaved DEF TeamAdd
<1>2. HasMembers'
    BY <1>1, AccountExists DEF HasMembers, Exists
<1>3. AdminRemains'
    <2>1. CASE demoted \/ Demotes(n, account.role)
        BY <2>1 DEF TeamAdd, AdminRemains
    <2>2. CASE ~demoted /\ ~Demotes(n, account.role)
        <3>1. PICK m \in Names : store[Dashboard][m].role = "admin"
            BY <2>2 DEF TeamInv, AdminRemains
        <3>2. store'[Dashboard][m].role = "admin"
            BY <1>1, <2>2, <3>1 DEF Demotes
        <3>. QED BY <3>2 DEF AdminRemains
    <2>. QED BY <2>1, <2>2
<1>. QED BY <1>1, <1>2, <1>3 DEF TeamInv

(* Who removes another is an admin and stays one. *)
LEMMA RemoveKeepsInv ==
    ASSUME TeamInv, NEW u \in Names, NEW n \in Names, TeamRemove(u, n)
    PROVE  TeamInv'
<1>1. /\ AccountTypes' /\ SavedInv'
      /\ \A m \in Names : m # n => store'[Dashboard][m] = store[Dashboard][m]
    BY DashboardPutKeepsSaved DEF TeamRemove
<1>2. store[Dashboard][u].role = "admin" /\ u # n
    BY DEF TeamRemove, ActsAsAdmin
<1>3. store'[Dashboard][u].role = "admin"
    BY <1>1, <1>2
<1>4. Exists(Dashboard, u)'
    BY <1>3 DEF Exists, NoAccount
<1>. QED BY <1>1, <1>3, <1>4 DEF TeamInv, HasMembers, AdminRemains

(* A new password leaves the role alone. *)
LEMMA PasswordKeepsInv ==
    ASSUME TeamInv, NEW n \in Names, NEW new \in Passwords,
           Exists(Dashboard, n),
           DashboardPut(n, [store[Dashboard][n] EXCEPT !.password = new]),
           UNCHANGED demoted
    PROVE  TeamInv'
<1> DEFINE account == [store[Dashboard][n] EXCEPT !.password = new]
<1>1. account \in Account /\ account.role = store[Dashboard][n].role
    BY NewPassword DEF TeamInv
<1>2. DashboardPut(n, account)
    OBVIOUS
<1>. HIDE DEF account
<1>3. /\ AccountTypes' /\ SavedInv'
      /\ store'[Dashboard][n] = account
      /\ \A m \in Names : m # n => store'[Dashboard][m] = store[Dashboard][m]
    BY <1>1, <1>2, DashboardPutKeepsSaved
<1>4. HasMembers'
    BY <1>1, <1>3, AccountExists DEF HasMembers, Exists
<1>5. AdminRemains'
    <2>1. CASE demoted
        BY <2>1 DEF AdminRemains
    <2>2. CASE ~demoted
        <3>1. PICK m \in Names : store[Dashboard][m].role = "admin"
            BY <2>2 DEF TeamInv, AdminRemains
        <3>2. store'[Dashboard][m].role = "admin"
            BY <1>1, <1>3, <3>1
        <3>. QED BY <3>2 DEF AdminRemains
    <2>. QED BY <2>1, <2>2
<1>. QED BY <1>3, <1>4, <1>5 DEF TeamInv

LEMMA DashboardStartKeepsInv ==
    ASSUME TeamAssumption, TeamInv, DashboardStart
    PROVE  TeamInv'
<1>1. PICK s \in {disk, Empty} :
          /\ Loaded(s)
          /\ store' = [store EXCEPT ![Dashboard] = WithAdmin(s)]
          /\ disk' = WithAdmin(s)
          /\ behind' = IF open THEN {Manager} ELSE {}
          /\ allowed' = [allowed EXCEPT ![Admin] = {WithAdmin(s)[Admin]}]
          /\ demoted' = FALSE
          /\ open' = open
    BY DEF DashboardStart
<1>2. s \in Accounts
    BY EmptyAccounts DEF TeamInv, AccountTypes
<1>3. /\ WithAdmin(s) \in Accounts
      /\ WithAdmin(s)[Admin] = [role |-> "admin", password |-> Bootstrap]
      /\ \A n \in Names \ {Admin} : WithAdmin(s)[n] = s[n]
    BY <1>2, WithAdminAccount
<1>4. Dashboard \in Processes /\ Admin \in Names
    BY DEF Processes, TeamAssumption
<1>5. WithAdmin(s)[Admin] \in Account
    BY <1>3 DEF Account, Roles, TeamAssumption
<1>6. AccountTypes'
    <2>1. store' \in [Processes -> Accounts]
        BY <1>1, <1>3 DEF TeamInv, AccountTypes
    <2>2. allowed' \in [Names -> SUBSET (Account \cup {NoAccount})]
        BY <1>1, <1>5 DEF TeamInv, AccountTypes
    <2>. QED BY <1>1, <1>3, <2>1, <2>2 DEF TeamInv, AccountTypes
<1>7. store'[Dashboard] = WithAdmin(s)
    BY <1>1, <1>4 DEF TeamInv, AccountTypes
<1>8. HasMembers' /\ AdminRemains'
    <2>1. store'[Dashboard][Admin].role = "admin"
        BY <1>3, <1>7
    <2>. QED BY <1>4, <2>1 DEF HasMembers, AdminRemains, Exists, NoAccount
<1>9. SavedInv'
    <2>1. CASE overwritten'
        BY <2>1 DEF SavedInv
    <2>2. CASE ~overwritten'
        <3>1. s = disk /\ ~overwritten
            BY <1>1, <2>2 DEF Loaded
        <3>2. \A n \in Names : disk[n] \in allowed[n]
            BY <3>1 DEF TeamInv, SavedInv
        <3>3. \A n \in Names : WithAdmin(s)[n] \in allowed'[n]
            BY <1>1, <1>3, <3>1, <3>2 DEF TeamInv, AccountTypes
        <3>4. Running' \ behind' \subseteq {Dashboard}
            BY <1>1 DEF Running, Processes, Dashboard, Manager
        <3>. QED BY <1>1, <1>7, <3>3, <3>4 DEF SavedInv
    <2>. QED BY <2>1, <2>2
<1>. QED BY <1>6, <1>8, <1>9 DEF TeamInv

LEMMA ManagerStartKeepsInv ==
    ASSUME TeamInv, ManagerStart
    PROVE  TeamInv'
<1>1. PICK s \in {disk, Empty} :
          /\ Loaded(s)
          /\ store' = [store EXCEPT ![Manager] = s]
          /\ disk' = s
          /\ behind' = (behind \ {Manager}) \cup (IF s = disk THEN {} ELSE {Dashboard})
    BY DEF ManagerStart
<1>2. s \in Accounts /\ open' = TRUE /\ allowed' = allowed /\ demoted' = demoted
    BY EmptyAccounts DEF TeamInv, AccountTypes, ManagerStart
<1>3. AccountTypes'
    BY <1>1, <1>2 DEF TeamInv, AccountTypes
<1>4. store'[Dashboard] = store[Dashboard] /\ store'[Manager] = s
    BY <1>1 DEF TeamInv, AccountTypes, Processes, Dashboard, Manager
<1>5. HasMembers' /\ AdminRemains'
    BY <1>2, <1>4 DEF TeamInv, HasMembers, AdminRemains, Exists
<1>6. SavedInv'
    <2>1. CASE overwritten'
        BY <2>1 DEF SavedInv
    <2>2. CASE ~overwritten'
        <3>1. s = disk /\ ~overwritten /\ behind' = behind \ {Manager}
            BY <1>1, <2>2 DEF Loaded
        <3>2. \A n \in Names : disk[n] \in allowed[n]
            BY <3>1 DEF TeamInv, SavedInv
        <3>3. \A p \in Running' \ behind' : p = Manager \/ p \in Running \ behind
            BY <3>1 DEF Running, Processes
        <3>4. \A n \in Names : \A p \in Running' \ behind' : store'[p][n] \in allowed[n]
            <4>1. \A n \in Names : store'[Manager][n] \in allowed[n]
                BY <1>4, <3>1, <3>2
            <4>2. ASSUME NEW n \in Names, NEW p \in Running \ behind, p # Manager
                  PROVE  store'[p][n] \in allowed[n]
                <5>1. p = Dashboard
                    BY <4>2 DEF Running, Processes
                <5>2. store[p][n] \in allowed[n]
                    BY <3>1, <4>2 DEF TeamInv, SavedInv
                <5>. QED BY <1>4, <5>1, <5>2
            <4>. QED BY <3>3, <4>1, <4>2
        <3>. QED BY <1>1, <1>2, <3>1, <3>2, <3>4 DEF SavedInv
    <2>. QED BY <2>1, <2>2
<1>. QED BY <1>3, <1>5, <1>6 DEF TeamInv

LEMMA ManagerQuitKeepsInv ==
    ASSUME TeamInv, ManagerQuit
    PROVE  TeamInv'
<1>1. AccountTypes'
    BY EmptyAccounts DEF ManagerQuit, TeamInv, AccountTypes
<1>2. store'[Dashboard] = store[Dashboard]
    BY DEF ManagerQuit, TeamInv, AccountTypes, Processes, Dashboard, Manager
<1>3. HasMembers' /\ AdminRemains'
    BY <1>2 DEF ManagerQuit, TeamInv, HasMembers, AdminRemains, Exists
<1>4. Running' = {Dashboard} /\ (Dashboard \in behind' => Dashboard \in behind)
      /\ behind' = behind \ {Manager} /\ Dashboard # Manager
    BY DEF ManagerQuit, Running, Dashboard, Manager
<1>5. SavedInv'
    <2>1. \A p \in Running' \ behind' : p = Dashboard /\ p \in Running \ behind
        BY <1>4 DEF Running, Processes
    <2>. QED BY <1>2, <2>1 DEF ManagerQuit, TeamInv, SavedInv
<1>. QED BY <1>1, <1>3, <1>5 DEF TeamInv

LEMMA ManagerPutKeepsInv ==
    ASSUME TeamInv, NEW n \in Names, NEW account \in Account \cup {NoAccount},
           ManagerPut(n, account)
    PROVE  TeamInv'
<1>1. Manager \in Running /\ Manager \in Processes /\ Dashboard \in Processes
      /\ Dashboard # Manager
    BY DEF ManagerPut, Running, Processes, Dashboard, Manager
<1>2. AccountTypes' /\ SavedInv'
    BY <1>1, SaveKeepsSaved DEF ManagerPut
<1>3. store'[Dashboard] = store[Dashboard]
    BY <1>1, PutAccounts DEF ManagerPut, TeamInv
<1>4. HasMembers' /\ AdminRemains'
    BY <1>3 DEF ManagerPut, TeamInv, HasMembers, AdminRemains, Exists
<1>. QED BY <1>2, <1>4 DEF TeamInv

LEMMA AccountsUntouched ==
    ASSUME TeamInv, UNCHANGED accountVars
    PROVE  TeamInv'
BY DEF TeamInv, accountVars, AccountTypes, HasMembers, AdminRemains, SavedInv, Running, Exists

LEMMA NextKeepsTeamInv ==
    ASSUME TeamAssumption, TeamInv, [Next]_vars
    PROVE  TeamInv'
<1>1. CASE Administer
    <2>1. ASSUME NEW u \in Names, NEW n \in Names, NEW account \in Account, TeamAdd(u, n, account)
          PROVE  TeamInv'
        BY <2>1, AddKeepsInv
    <2>2. ASSUME NEW u \in Names, NEW n \in Names, TeamRemove(u, n)
          PROVE  TeamInv'
        BY <2>2, RemoveKeepsInv
    <2>3. ASSUME NEW u \in Names, NEW n \in Names, NEW new \in Passwords,
                 TeamResetPassword(u, n, new)
          PROVE  TeamInv'
        BY <2>3, PasswordKeepsInv DEF TeamResetPassword
    <2>. QED BY <1>1, <2>1, <2>2, <2>3 DEF Administer
<1>2. CASE Authenticate
    <2>1. ASSUME NEW n \in Names, NEW old \in Passwords, NEW new \in Passwords,
                 ChangePassword(n, old, new)
          PROVE  TeamInv'
        BY <2>1, PasswordKeepsInv DEF ChangePassword, Authentic
    <2>2. ASSUME NEW n \in Names, NEW password \in Passwords, NEW asStored \in BOOLEAN,
                 \/ Login(n, password, asStored) \/ LoginFails(n, password)
                 \/ ChangePasswordFails(n, password)
          PROVE  TeamInv'
        BY <2>2, AccountsUntouched DEF Login, LoginFails, ChangePasswordFails
    <2>. QED BY <1>2, <2>1, <2>2 DEF Authenticate
<1>3. CASE LoginBlank \/ Tick \/ UNCHANGED vars
    BY <1>3, AccountsUntouched DEF LoginBlank, Tick, vars
<1>4. CASE Manage
    BY <1>4, ManagerStartKeepsInv, ManagerQuitKeepsInv, ManagerPutKeepsInv DEF Manage
<1>5. CASE DashboardStart
    BY <1>5, DashboardStartKeepsInv
<1>. QED BY <1>1, <1>2, <1>3, <1>4, <1>5 DEF Next

LEMMA TeamInvInvariant == Spec => []TeamInv
<1>1. Init => TeamInv
    BY TeamAssumption, InitTeamInv
<1>2. TeamInv /\ [Next]_vars => TeamInv'
    BY TeamAssumption, NextKeepsTeamInv
<1>. QED BY <1>1, <1>2, PTL DEF Spec

--------------------------------------------------------------------------------
(* The dashboard is never without members, whatever admins do to one another *)
(* and however often it restarts (_team_route, ensure_default_admin).        *)
THEOREM HasMembersTheorem == Spec => []HasMembers
<1>1. TeamInv => HasMembers
    BY DEF TeamInv
<1>. QED BY <1>1, TeamInvInvariant, PTL

(* Without a demotion the dashboard is never without an admin (_team_route,  *)
(* add_member).                                                              *)
THEOREM AdminRemainsTheorem == Spec => []AdminRemains
<1>1. TeamInv => AdminRemains
    BY DEF TeamInv
<1>. QED BY <1>1, TeamInvInvariant, PTL

(* Changes that were acknowledged are only lost by a process that saves      *)
(* without having seen them, or with the file (_save, _load).                *)
THEOREM AcknowledgedIsSavedTheorem == Spec => []AcknowledgedIsSaved
<1>1. TeamInv => AcknowledgedIsSaved
    BY DEF TeamInv, SavedInv, AcknowledgedIsSaved
<1>. QED BY <1>1, TeamInvInvariant, PTL

--------------------------------------------------------------------------------
(* The filter of the attempts. *)

(* A set of natural numbers has a least element. *)
LEMMA NatMin ==
    ASSUME NEW T, T \subseteq Nat, T # {}
    PROVE  \E n \in T : \A m \in T : n <= m
<1>1. IsWellFoundedOn(OpToRel(<, Nat), Nat)
    BY NatLessThanWellFounded
<1>2. PICK n \in T : \A m \in T : ~ (<<m, n>> \in OpToRel(<, Nat))
    BY <1>1, WFMin, Zenon
<1>3. \A m, k \in Nat : m < k => <<m, k>> \in OpToRel(<, Nat)
    BY DEF OpToRel
<1>4. \A m \in T : ~ (m < n)
    BY <1>2, <1>3
<1>. QED BY <1>4

(* One time of s is looked at. *)
AgeOne(kept, k) == IF k > 1 THEN Append(kept, k - 1) ELSE kept

(* g is what is left of the first i times of s, for i up to n. *)
Ages(g, s, n) ==
    g = [i \in 0 .. n |-> IF i = 0 THEN <<>>
                          ELSE IF s[i] > 1 THEN Append(g[i - 1], s[i] - 1) ELSE g[i - 1]]

(* All of them. *)
Aging(s) ==
    LET kept[i \in 0 .. Len(s)] ==
            IF i = 0 THEN <<>>
            ELSE IF s[i] > 1 THEN Append(kept[i - 1], s[i] - 1) ELSE kept[i - 1]
    IN  kept

(* There is such a g for every n: of those without one there is no least. *)
LEMMA AgingExists ==
    ASSUME NEW s, NEW n \in Nat
    PROVE  \E g : Ages(g, s, n)
<1>. DEFINE T == {k \in Nat : ~ \E g : Ages(g, s, k)}
<1>1. SUFFICES ASSUME T # {} PROVE FALSE
    OBVIOUS
<1>2. PICK k \in T : \A m \in T : k <= m
    BY <1>1, NatMin
<1>3. CASE k = 0
    <2>. DEFINE g == [i \in 0 .. 0 |-> <<>>]
    <2>1. Ages(g, s, 0)
        BY DEF Ages
    <2>. QED BY <2>1, <1>3
<1>4. CASE k # 0
    <2>1. k - 1 \in Nat /\ k \in Nat /\ ~(k <= k - 1)
        BY <1>2, <1>4
    <2>2. k - 1 \notin T
        BY <1>2, <2>1
    <2>3. PICK h : Ages(h, s, k - 1)
        BY <2>1, <2>2
    <2>. DEFINE next(f, i) == IF s[i] > 1 THEN Append(f, s[i] - 1) ELSE f
                g == [i \in 0 .. k |-> IF i = k THEN next(h[k - 1], k) ELSE h[i]]
    <2>. HIDE DEF next
    <2>4. h = [i \in 0 .. k - 1 |-> IF i = 0 THEN <<>> ELSE next(h[i - 1], i)]
        BY <2>3 DEF Ages, next
    <2>5. \A i \in 0 .. k : g[i] = IF i = 0 THEN <<>> ELSE next(g[i - 1], i)
        BY <1>4, <2>1, <2>4
    <2>6. g = [i \in 0 .. k |-> IF i = 0 THEN <<>> ELSE next(g[i - 1], i)]
        BY <2>5
    <2>. HIDE DEF g
    <2>7. Ages(g, s, k)
        BY <2>6 DEF Ages, next
    <2>. QED BY <2>7, <1>2
<1>. QED BY <1>3, <1>4

(* The filter of _auth_login looks at one time after the other. *)
LEMMA AgingIs ==
    ASSUME NEW s, Len(s) \in Nat
    PROVE  /\ Aging(s)[0] = <<>>
           /\ \A i \in 1 .. Len(s) : Aging(s)[i] = AgeOne(Aging(s)[i - 1], s[i])
           /\ Aged(s) = Aging(s)[Len(s)]
<1>1. Aging(s) = CHOOSE g : Ages(g, s, Len(s))
    BY DEF Aging, Ages
<1>2. \E g : Ages(g, s, Len(s))
    BY AgingExists
<1>3. Ages(Aging(s), s, Len(s))
    BY <1>1, <1>2, Zenon
<1>4. Aged(s) = Aging(s)[Len(s)]
    BY DEF Aged, Aging
<1>. DEFINE g == Aging(s)
<1>5. Ages(g, s, Len(s))
    BY <1>3
<1>. HIDE DEF g
<1>6. g = [i \in 0 .. Len(s) |-> IF i = 0 THEN <<>> ELSE AgeOne(g[i - 1], s[i])]
    BY <1>5 DEF Ages, AgeOne
<1>7. g[0] = <<>> /\ \A i \in 1 .. Len(s) : g[i] = AgeOne(g[i - 1], s[i])
    BY <1>6
<1>. QED BY <1>4, <1>7 DEF g

(* Oldest first: the times still to count never decrease. *)
InTurn(s) == \A i, j \in 1 .. Len(s) : i <= j => s[i] <= s[j]

Times == 1 .. Window

(* t is s without its first d times, which are over, a tick later. *)
Drops(s, t, n, d) ==
    /\ Len(t) = n - d
    /\ \A j \in 1 .. n - d : s[j + d] > 1 /\ t[j] = s[j + d] - 1
    /\ \A j \in 1 .. d : s[j] <= 1

(* A filter keeps what is in the window; of times in turn it keeps the last. *)
LEMMA AgedIs ==
    ASSUME TeamAssumption, NEW s \in Seq(Times), InTurn(s)
    PROVE  \E d \in 0 .. Len(s) : Aged(s) \in Seq(Times) /\ Drops(s, Aged(s), Len(s), d)
<1>. DEFINE g == Aging(s)
            Ok(i) == g[i] \in Seq(Times) /\ \E d \in 0 .. i : Drops(s, g[i], i, d)
            T == {i \in 0 .. Len(s) : ~Ok(i)}
<1>1. Len(s) \in Nat /\ \A i \in 1 .. Len(s) : s[i] \in Times
    OBVIOUS
<1>2. g[0] = <<>> /\ (\A i \in 1 .. Len(s) : g[i] = AgeOne(g[i - 1], s[i])) /\ Aged(s) = g[Len(s)]
    BY <1>1, AgingIs
<1>. HIDE DEF g
<1>3. ASSUME T # {} PROVE FALSE
    <2>1. T \subseteq Nat
        OBVIOUS
    <2>2. PICK i \in T : \A j \in T : i <= j
        <3>. HIDE DEF T
        <3>. QED BY <1>3, <2>1, NatMin
    <2>3. i # 0
        <3>1. Drops(s, <<>>, 0, 0) /\ <<>> \in Seq(Times)
            BY DEF Drops
        <3>2. Ok(0)
            BY <1>2, <3>1
        <3>3. Ok(0) => 0 \notin T
            OBVIOUS
        <3>. QED BY <2>2, <3>2, <3>3
    <2>4. i \in 1 .. Len(s) /\ i - 1 \in 0 .. Len(s) /\ ~(i <= i - 1)
        BY <2>2, <2>3
    <2>5. i - 1 \notin T
        BY <2>2, <2>4
    <2>6. PICK d \in 0 .. i - 1 : g[i - 1] \in Seq(Times) /\ Drops(s, g[i - 1], i - 1, d)
        BY <2>4, <2>5
    <2>. DEFINE f == g[i - 1]
                k == s[i]
    <2>7. /\ f \in Seq(Times) /\ Len(f) = i - 1 - d
          /\ \A j \in 1 .. i - 1 - d : s[j + d] > 1 /\ f[j] = s[j + d] - 1
          /\ \A j \in 1 .. d : s[j] <= 1
        BY <2>6 DEF Drops
    <2>8. g[i] = AgeOne(f, k) /\ k \in Times
        BY <1>1, <1>2, <2>4
    <2>9. CASE k > 1
        <3>1. k - 1 \in Times
            BY <2>8, <2>9 DEF Times, TeamAssumption
        <3>. HIDE DEF f
        <3>2. /\ g[i] \in Seq(Times) /\ Len(g[i]) = i - d
              /\ \A j \in 1 .. i - 1 - d : g[i][j] = f[j]
              /\ g[i][i - d] = k - 1
            BY <2>4, <2>6, <2>7, <2>8, <2>9, <3>1 DEF AgeOne
        <3>3. ASSUME NEW j \in 1 .. i - d PROVE s[j + d] > 1 /\ g[i][j] = s[j + d] - 1
            <4>1. CASE j = i - d
                <5>1. j + d = i
                    BY <4>1, <2>4
                <5>. QED BY <2>9, <3>2, <4>1, <5>1
            <4>2. CASE j # i - d
                <5>1. j \in 1 .. i - 1 - d
                    BY <4>2, <2>4
                <5>. QED BY <2>7, <3>2, <5>1
            <4>. QED BY <4>1, <4>2
        <3>4. Drops(s, g[i], i, d) /\ d \in 0 .. i
            BY <2>4, <2>7, <3>2, <3>3 DEF Drops
        <3>. QED BY <2>2, <3>2, <3>4
    <2>10. CASE ~(k > 1)
        <3>1. d = i - 1
            <4>1. SUFFICES ASSUME d # i - 1 PROVE FALSE
                OBVIOUS
            <4>2. 1 \in 1 .. i - 1 - d /\ 1 + d \in 1 .. Len(s) /\ 1 + d <= i
                BY <2>4, <4>1
            <4>3. s[1 + d] > 1 /\ s[1 + d] <= k
                BY <2>4, <2>7, <4>2 DEF InTurn
            <4>4. s[1 + d] \in Int /\ k \in Int
                BY <1>1, <2>8, <4>2 DEF Times
            <4>. QED BY <2>10, <4>3, <4>4
        <3>2. g[i] = f /\ Len(g[i]) = 0 /\ g[i] \in Seq(Times)
            BY <2>7, <2>8, <2>10, <2>4, <3>1 DEF AgeOne
        <3>3. \A j \in 1 .. i : s[j] <= 1
            <4>1. k <= 1
                BY <2>8, <2>10 DEF Times
            <4>. QED BY <2>4, <2>7, <3>1, <4>1
        <3>4. Drops(s, g[i], i, i) /\ i \in 0 .. i
            BY <2>4, <3>2, <3>3 DEF Drops
        <3>. QED BY <2>2, <3>2, <3>4
    <2>. QED BY <2>9, <2>10
<1>4. Len(s) \notin T
    BY <1>3
<1>. QED BY <1>1, <1>2, <1>4

--------------------------------------------------------------------------------
(* The attempts and the guesses of an address. *)

(* Each of the last guesses has a counted attempt that lasts as long. *)
Covers(a, g) ==
    /\ Len(g) <= Len(a)
    /\ \A i \in 0 .. Len(g) - 1 : g[Len(g) - i] <= a[Len(a) - i]

(* The attempts a that count for an address, and its wrong guesses g. *)
Counting(a, g) ==
    /\ a \in Seq(Times) /\ g \in Seq(Times)
    /\ InTurn(a) /\ InTurn(g)
    /\ Len(a) <= MaxAttempts
    /\ Covers(a, g)

(* The newest time counts longest. *)
LEMMA AppendNewest ==
    ASSUME TeamAssumption, NEW s \in Seq(Times), InTurn(s)
    PROVE  /\ Append(s, Window) \in Seq(Times)
           /\ Len(Append(s, Window)) = Len(s) + 1
           /\ \A i \in 1 .. Len(s) : Append(s, Window)[i] = s[i]
           /\ Append(s, Window)[Len(s) + 1] = Window
           /\ InTurn(Append(s, Window))
<1>. DEFINE t == Append(s, Window)
<1>1. Window \in Times /\ Window \in Nat
    BY DEF Times, TeamAssumption
<1>2. t \in Seq(Times) /\ Len(t) = Len(s) + 1 /\ t[Len(s) + 1] = Window
      /\ \A i \in 1 .. Len(s) : t[i] = s[i]
    BY <1>1, AppendProperties
<1>3. \A i \in 1 .. Len(s) : s[i] \in Nat /\ s[i] <= Window
    BY DEF Times
<1>. HIDE DEF t
<1>4. ASSUME NEW i \in 1 .. Len(t), NEW j \in 1 .. Len(t), i <= j
      PROVE  t[i] <= t[j]
    <2>1. CASE j = Len(s) + 1
        <3>1. t[i] <= Window
            BY <1>1, <1>2, <1>3
        <3>. QED BY <1>2, <2>1, <3>1
    <2>2. CASE j # Len(s) + 1
        <3>1. i \in 1 .. Len(s) /\ j \in 1 .. Len(s)
            BY <1>2, <1>4, <2>2
        <3>. QED BY <1>2, <1>4, <3>1 DEF InTurn
    <2>. QED BY <2>1, <2>2
<1>. QED BY <1>2, <1>4 DEF InTurn, t

(* An attempt is counted, with a guess or without. *)
LEMMA CountedKeeps ==
    ASSUME TeamAssumption, NEW a, NEW g, Counting(a, g), Len(a) < MaxAttempts
    PROVE  /\ Counting(Append(a, Window), g)
           /\ Counting(Append(a, Window), Append(g, Window))
<1>1. a \in Seq(Times) /\ g \in Seq(Times) /\ InTurn(a) /\ InTurn(g) /\ Covers(a, g)
    BY DEF Counting
<1>. DEFINE b == Append(a, Window)
            h == Append(g, Window)
<1>2. /\ b \in Seq(Times) /\ Len(b) = Len(a) + 1 /\ InTurn(b)
      /\ \A i \in 1 .. Len(a) : b[i] = a[i]
      /\ b[Len(a) + 1] = Window
    BY <1>1, AppendNewest
<1>3. /\ h \in Seq(Times) /\ Len(h) = Len(g) + 1 /\ InTurn(h)
      /\ \A i \in 1 .. Len(g) : h[i] = g[i]
      /\ h[Len(g) + 1] = Window
    BY <1>1, AppendNewest
<1>4. Len(a) \in Nat /\ Len(g) \in Nat /\ Len(g) <= Len(a) /\ Window \in Nat
    BY <1>1 DEF Covers, TeamAssumption
<1>5. (\A i \in 1 .. Len(a) : a[i] \in Times) /\ (\A i \in 1 .. Len(g) : g[i] \in Times)
    BY <1>1
<1>. HIDE DEF b, h
<1>6. Covers(b, g)
    <2>1. ASSUME NEW i \in 0 .. Len(g) - 1
          PROVE  g[Len(g) - i] <= b[Len(b) - i]
        <3>1. Len(g) - i \in 1 .. Len(g) /\ Len(a) - i \in 1 .. Len(a)
            BY <1>4
        <3>2. g[Len(g) - i] <= a[Len(a) - i] /\ g[Len(g) - i] \in Times /\ a[Len(a) - i] \in Times
            BY <1>1, <1>5, <3>1 DEF Covers
        <3>3. CASE i = 0
            BY <1>2, <1>4, <3>2, <3>3 DEF Times
        <3>4. CASE i # 0
            <4>1. Len(b) - i \in 1 .. Len(a) /\ Len(a) - i <= Len(b) - i
                BY <1>2, <1>4, <3>1, <3>4
            <4>2. b[Len(b) - i] = a[Len(b) - i] /\ a[Len(b) - i] \in Times
                BY <1>2, <1>5, <4>1
            <4>3. a[Len(a) - i] <= a[Len(b) - i]
                BY <1>1, <3>1, <4>1 DEF InTurn
            <4>. QED BY <3>2, <4>2, <4>3 DEF Times
        <3>. QED BY <3>3, <3>4
    <2>. QED BY <1>2, <1>4, <2>1 DEF Covers
<1>7. Covers(b, h)
    <2>1. ASSUME NEW i \in 0 .. Len(h) - 1
          PROVE  h[Len(h) - i] <= b[Len(b) - i]
        <3>1. CASE i = 0
            BY <1>2, <1>3, <1>4, <3>1
        <3>2. CASE i # 0
            <4>1. i - 1 \in 0 .. Len(g) - 1 /\ Len(h) - i = Len(g) - (i - 1)
                  /\ Len(b) - i = Len(a) - (i - 1)
                BY <1>2, <1>3, <1>4, <3>2
            <4>2. Len(h) - i \in 1 .. Len(g) /\ Len(b) - i \in 1 .. Len(a)
                BY <1>2, <1>3, <1>4, <3>2
            <4>3. g[Len(g) - (i - 1)] <= a[Len(a) - (i - 1)]
                BY <1>1, <4>1 DEF Covers
            <4>. QED BY <1>2, <1>3, <4>1, <4>2, <4>3
        <3>. QED BY <3>1, <3>2
    <2>. QED BY <1>2, <1>3, <1>4, <2>1 DEF Covers
<1>8. Len(b) <= MaxAttempts
    BY <1>2, <1>4 DEF TeamAssumption
<1>. QED BY <1>1, <1>2, <1>3, <1>6, <1>7, <1>8 DEF Counting, b, h

(* A tick later. *)
LEMMA DropsInTurn ==
    ASSUME NEW s \in Seq(Times), InTurn(s), NEW t \in Seq(Times), NEW d \in 0 .. Len(s),
           Drops(s, t, Len(s), d)
    PROVE  InTurn(t)
<1>1. Len(t) = Len(s) - d /\ \A j \in 1 .. Len(s) - d : t[j] = s[j + d] - 1
    BY DEF Drops
<1>2. ASSUME NEW i \in 1 .. Len(t), NEW j \in 1 .. Len(t), i <= j
      PROVE  t[i] <= t[j]
    <2>1. i + d \in 1 .. Len(s) /\ j + d \in 1 .. Len(s) /\ i + d <= j + d
        BY <1>1, <1>2
    <2>2. s[i + d] <= s[j + d] /\ s[i + d] \in Times /\ s[j + d] \in Times
        BY <2>1 DEF InTurn
    <2>3. t[i] = s[i + d] - 1 /\ t[j] = s[j + d] - 1
        BY <1>1
    <2>. QED BY <2>2, <2>3 DEF Times
<1>. QED BY <1>2 DEF InTurn

LEMMA AgedKeeps ==
    ASSUME TeamAssumption, NEW a, NEW g, Counting(a, g)
    PROVE  Counting(Aged(a), Aged(g))
<1>1. a \in Seq(Times) /\ g \in Seq(Times) /\ InTurn(a) /\ InTurn(g) /\ Covers(a, g)
      /\ Len(a) <= MaxAttempts
    BY DEF Counting
<1>2. PICK d \in 0 .. Len(a) : Aged(a) \in Seq(Times) /\ Drops(a, Aged(a), Len(a), d)
    BY <1>1, AgedIs
<1>3. PICK e \in 0 .. Len(g) : Aged(g) \in Seq(Times) /\ Drops(g, Aged(g), Len(g), e)
    BY <1>1, AgedIs
<1>4. InTurn(Aged(a)) /\ InTurn(Aged(g))
    BY <1>1, <1>2, <1>3, DropsInTurn
<1>. DEFINE b == Aged(a)
            h == Aged(g)
<1>5. /\ Len(b) = Len(a) - d
      /\ \A j \in 1 .. Len(a) - d : b[j] = a[j + d] - 1
      /\ \A j \in 1 .. d : a[j] <= 1
    BY <1>2 DEF Drops
<1>6. /\ Len(h) = Len(g) - e
      /\ \A j \in 1 .. Len(g) - e : g[j + e] > 1 /\ h[j] = g[j + e] - 1
    BY <1>3 DEF Drops
<1>7. Len(a) \in Nat /\ Len(g) \in Nat /\ Len(g) <= Len(a)
    BY <1>1 DEF Covers
<1>. HIDE DEF b, h
<1>8. ASSUME NEW i \in 0 .. Len(h) - 1
      PROVE  i <= Len(b) - 1 /\ h[Len(h) - i] <= b[Len(b) - i]
    <2>1. Len(h) - i \in 1 .. Len(g) - e /\ Len(h) - i + e = Len(g) - i /\ i \in 0 .. Len(g) - 1
        BY <1>6, <1>7
    <2>2. g[Len(g) - i] > 1 /\ h[Len(h) - i] = g[Len(g) - i] - 1
        <3>1. g[Len(h) - i + e] > 1 /\ h[Len(h) - i] = g[Len(h) - i + e] - 1
            BY <1>6, <2>1
        <3>. QED BY <2>1, <3>1
    <2>3. g[Len(g) - i] <= a[Len(a) - i]
        BY <1>1, <2>1 DEF Covers
    <2>4. Len(a) - i \in 1 .. Len(a) /\ Len(g) - i \in 1 .. Len(g)
        BY <1>7, <2>1
    <2>5. g[Len(g) - i] \in Nat /\ a[Len(a) - i] \in Nat
        <3>1. g[Len(g) - i] \in Times /\ a[Len(a) - i] \in Times
            BY <1>1, <2>4, ElementOfSeq
        <3>2. Times \subseteq Nat
            BY DEF Times
        <3>. QED BY <3>1, <3>2
    <2>6. ~(Len(a) - i <= d)
        <3>1. SUFFICES ASSUME Len(a) - i <= d PROVE FALSE
            OBVIOUS
        <3>2. a[Len(a) - i] <= 1
            BY <1>5, <2>4, <3>1
        <3>. QED BY <2>2, <2>3, <2>5, <3>2
    <2>7. Len(b) - i \in 1 .. Len(a) - d /\ Len(b) - i + d = Len(a) - i /\ i <= Len(b) - 1
        BY <1>5, <1>7, <2>4, <2>6
    <2>8. b[Len(b) - i] = a[Len(a) - i] - 1
        <3>1. b[Len(b) - i] = a[Len(b) - i + d] - 1
            BY <1>5, <2>7
        <3>. QED BY <2>7, <3>1
    <2>9. g[Len(g) - i] - 1 <= a[Len(a) - i] - 1
        BY <2>3, <2>5
    <2>10. h[Len(h) - i] <= b[Len(b) - i]
        BY <2>2, <2>8, <2>9, Zenon
    <2>. QED BY <2>7, <2>10
<1>9. Len(h) <= Len(b)
    <2>1. CASE Len(h) = 0
        BY <1>5, <1>7, <2>1
    <2>2. CASE Len(h) # 0
        <3>1. Len(h) - 1 \in 0 .. Len(h) - 1
            BY <1>6, <1>7, <2>2
        <3>2. Len(h) - 1 <= Len(b) - 1
            BY <1>8, <3>1
        <3>. QED BY <1>5, <1>6, <1>7, <3>2
    <2>. QED BY <2>1, <2>2
<1>10. Len(b) <= MaxAttempts
    BY <1>1, <1>5, <1>7 DEF TeamAssumption
<1>. QED BY <1>2, <1>3, <1>4, <1>8, <1>9, <1>10 DEF Counting, Covers, b, h

--------------------------------------------------------------------------------
(* The steps. *)

(* The rest of TypeOK. *)
TypeInv ==
    /\ AccountTypes
    /\ session \in [Names -> 0 .. Lifetime]
    /\ changes \in 0 .. MaxChanges
    /\ behind \subseteq Processes
    /\ overwritten \in BOOLEAN
    /\ demoted \in BOOLEAN

(* The attempts that count are never fewer, nor older, than the wrong        *)
(* guesses, and the throttle limits the attempts.                            *)
LimitInv == Counting(attempts, guesses)

LEMMA NothingCounted ==
    ASSUME TeamAssumption
    PROVE  Counting(<<>>, <<>>)
BY DEF Counting, InTurn, Covers, TeamAssumption

LEMMA NextKeepsLimit ==
    ASSUME TeamAssumption, LimitInv, [Next]_vars
    PROVE  LimitInv'
<1>. USE DEF LimitInv
<1>1. CASE UNCHANGED <<attempts, guesses>>
    BY <1>1
<1>2. CASE Tick
    BY <1>2, AgedKeeps DEF Tick
<1>3. CASE attempts' = <<>> /\ guesses' = <<>>
    BY <1>3, NothingCounted
<1>4. CASE ~Throttled /\ Counted /\ (Guessed \/ UNCHANGED guesses)
    <2>1. Len(attempts) < MaxAttempts /\ Len(guesses) <= Len(attempts)
        <3>1. Len(attempts) \in Nat
            BY DEF Counting
        <3>. QED BY <1>4, <3>1 DEF Throttled, TeamAssumption, Counting, Covers
    <2>2. attempts' = Append(attempts, Window)
          /\ (guesses' = guesses \/ guesses' = Append(guesses, Window))
        BY <1>4 DEF Counted, Guessed
    <2>. QED BY <2>1, <2>2, CountedKeeps
<1>5. CASE Administer
    BY <1>1, <1>5 DEF Administer, TeamAdd, TeamRemove, TeamResetPassword
<1>6. CASE Authenticate
    BY <1>1, <1>3, <1>4, <1>6 DEF Authenticate, Login, LoginFails, ChangePassword, ChangePasswordFails
<1>7. CASE LoginBlank
    BY <1>4, <1>7 DEF LoginBlank
<1>8. CASE Manage
    BY <1>1, <1>8 DEF Manage, ManagerStart, ManagerQuit, ManagerPut
<1>9. CASE DashboardStart
    BY <1>3, <1>9 DEF DashboardStart
<1>. QED BY <1>1, <1>2, <1>5, <1>6, <1>7, <1>8, <1>9 DEF Next, vars

LEMMA NextKeepsTypes ==
    ASSUME TeamAssumption, TypeInv, AccountTypes', [Next]_vars
    PROVE  TypeInv'
<1>. USE DEF TypeInv
<1>1. CASE UNCHANGED <<accountVars, session>>
    BY <1>1 DEF accountVars
<1>2. ASSUME NEW p \in Processes, NEW n \in Names, NEW account, Save(p, n, account)
      PROVE  behind' \subseteq Processes /\ overwritten' \in BOOLEAN
    BY <1>2 DEF Save
<1>3. ASSUME CountChange PROVE changes' \in 0 .. MaxChanges
    BY <1>3 DEF CountChange, TeamAssumption
<1>4. ASSUME NEW n \in Names, NEW account, DashboardPut(n, account), UNCHANGED session,
             demoted' \in BOOLEAN
      PROVE  TypeInv'
    <2>1. Dashboard \in Processes
        BY DEF Processes
    <2>2. behind' \subseteq Processes /\ overwritten' \in BOOLEAN
        BY <1>2, <1>4, <2>1 DEF DashboardPut, SaveFails
    <2>. QED BY <1>3, <1>4, <2>2 DEF DashboardPut
<1>5. CASE Administer
    <2>1. \E n \in Names : \E account : DashboardPut(n, account) /\ UNCHANGED session /\ demoted' \in BOOLEAN
        BY <1>5 DEF Administer, TeamAdd, TeamRemove, TeamResetPassword, Demotes
    <2>. QED BY <1>4, <2>1
<1>6. CASE Authenticate
    <2>1. ASSUME NEW n \in Names, NEW password \in Passwords, NEW asStored \in BOOLEAN,
                 Login(n, password, asStored)
          PROVE  TypeInv'
        BY <2>1 DEF Login, accountVars, TeamAssumption
    <2>2. ASSUME NEW n \in Names, NEW old \in Passwords, NEW new \in Passwords,
                 ChangePassword(n, old, new)
          PROVE  TypeInv'
        <3>1. \E account : DashboardPut(n, account)
            BY <2>2 DEF ChangePassword
        <3>. QED BY <1>4, <2>2, <3>1 DEF ChangePassword
    <2>. QED BY <1>1, <1>6, <2>1, <2>2 DEF Authenticate, LoginFails, ChangePasswordFails
<1>7. CASE LoginBlank
    BY <1>1, <1>7 DEF LoginBlank
<1>8. CASE Manage
    <2>1. CASE ManagerStart
        BY <2>1 DEF ManagerStart, Loaded, Processes
    <2>2. CASE ManagerQuit
        BY <2>2 DEF ManagerQuit
    <2>3. ASSUME NEW n \in Names, NEW account, ManagerPut(n, account) PROVE TypeInv'
        <3>1. Manager \in Processes
            BY DEF Processes
        <3>2. behind' \subseteq Processes /\ overwritten' \in BOOLEAN
            BY <1>2, <2>3, <3>1 DEF ManagerPut
        <3>. QED BY <1>3, <2>3, <3>2 DEF ManagerPut
    <2>. QED BY <1>8, <2>1, <2>2, <2>3 DEF Manage
<1>9. CASE DashboardStart
    <2>1. behind' \subseteq Processes
        BY <1>9 DEF DashboardStart, Processes
    <2>2. overwritten' \in BOOLEAN
        BY <1>9 DEF DashboardStart, Loaded
    <2>3. session' = [n \in Names |-> 0] /\ changes' = changes /\ demoted' = FALSE
        BY <1>9 DEF DashboardStart
    <2>4. 0 \in 0 .. Lifetime
        BY DEF TeamAssumption
    <2>. QED BY <2>1, <2>2, <2>3, <2>4
<1>10. CASE Tick
    BY <1>10 DEF Tick, accountVars, TeamAssumption
<1>. QED BY <1>1, <1>5, <1>6, <1>7, <1>8, <1>9, <1>10 DEF Next, vars

(* For any limit and any window: no more wrong passwords are compared for an *)
(* address in a window than the limit, by logins and changes of a password   *)
(* together (_auth_login, _auth_change_password).                            *)
THEOREM GuessesAreLimitedTheorem == Spec => []GuessesAreLimited
<1>1. Init => LimitInv
    BY TeamAssumption, NothingCounted DEF Init, LimitInv
<1>2. LimitInv /\ [Next]_vars => LimitInv'
    BY TeamAssumption, NextKeepsLimit
<1>3. LimitInv => GuessesAreLimited
    BY TeamAssumption DEF LimitInv, Counting, Covers, GuessesAreLimited, TeamAssumption
<1>. QED BY <1>1, <1>2, <1>3, PTL DEF Spec

(* Types are right; in particular the list of attempts of an address never   *)
(* grows beyond the limit (_auth_login, _auth_change_password).              *)
THEOREM TypeCorrect == Spec => []TypeOK
<1>1. Init => TeamInv /\ TypeInv /\ LimitInv
    <2>1. Init => TeamInv
        BY TeamAssumption, InitTeamInv
    <2>2. Init => LimitInv
        BY TeamAssumption, NothingCounted DEF Init, LimitInv
    <2>3. 0 \in 0 .. Lifetime /\ 0 \in 0 .. MaxChanges
        BY TeamAssumption DEF TeamAssumption
    <2>4. Init => /\ session = [n \in Names |-> 0] /\ changes = 0 /\ behind = {}
                  /\ overwritten = FALSE /\ demoted = FALSE
        BY DEF Init
    <2>. QED BY <2>1, <2>2, <2>3, <2>4 DEF TeamInv, TypeInv
<1>2. (TeamInv /\ TypeInv /\ LimitInv) /\ [Next]_vars => (TeamInv /\ TypeInv /\ LimitInv)'
    BY TeamAssumption, NextKeepsTeamInv, NextKeepsTypes, NextKeepsLimit DEF TeamInv
<1>3. TeamInv /\ TypeInv /\ LimitInv => TypeOK
    <2>1. ASSUME NEW s \in Seq(Times), NEW n \in Nat, Len(s) <= n
          PROVE  s \in UNION {[1 .. k -> 1 .. Window] : k \in 0 .. n}
        <3>1. Len(s) \in 0 .. n /\ s \in [1 .. Len(s) -> Times]
            BY <2>1
        <3>. QED BY <3>1 DEF Times
    <2>2. ASSUME LimitInv
          PROVE  /\ attempts \in Seq(Times) /\ Len(attempts) <= MaxAttempts
                 /\ guesses \in Seq(Times) /\ Len(guesses) <= MaxAttempts + 1
                 /\ MaxAttempts \in Nat /\ MaxAttempts + 1 \in Nat
        BY <2>2, TeamAssumption DEF LimitInv, Counting, Covers, TeamAssumption
    <2>3. ASSUME LimitInv
          PROVE  /\ attempts \in UNION {[1 .. k -> 1 .. Window] : k \in 0 .. MaxAttempts}
                 /\ guesses \in UNION {[1 .. k -> 1 .. Window] : k \in 0 .. MaxAttempts + 1}
        BY <2>1, <2>2, <2>3
    <2>. QED BY <2>3 DEF TypeInv, AccountTypes, TypeOK
<1>. QED BY <1>1, <1>2, <1>3, PTL DEF Spec

================================================================================
