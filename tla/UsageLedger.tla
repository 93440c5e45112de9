------------------------------ MODULE UsageLedger ------------------------------
(***************************************************************************)
(* What the control plane promises of the fleet and of what is charged for *)
(* it, with no servers, handlers, transactions or webhook: only customers  *)
(* have agents and reports; what is charged is one registration or one     *)
(* stored report, each charged once or waived by a fault; no charge        *)
(* precedes what it is for; an agent hears that a report was accepted only *)
(* after it was charged; and nothing of this is ever taken back, except    *)
(* that an agent may be registered by another customer.                    *)
(***************************************************************************)
EXTENDS Naturals

CONSTANTS Orgs, Agents, None

VARIABLES
    customers,  \* organizations with an account
    owner,      \* whose agent it is, None before its first registration
    reports,    \* stored reports of each organization and agent
    owed,       \* registrations and reports still to be charged
    charged,    \* those charged
    waived,     \* those a fault kept from being charged
    accepted    \* reports whose agent was told so

vars == <<customers, owner, reports, owed, charged, waived, accepted>>

Metrics == {"agents", "reports"}
Zero    == [o \in Orgs |-> [m \in Metrics |-> 0]]

Init ==
    /\ customers = {}
    /\ owner = [a \in Agents |-> None]
    /\ reports = [o \in Orgs |-> [a \in Agents |-> 0]]
    /\ owed = Zero
    /\ charged = Zero
    /\ waived = Zero
    /\ accepted = [o \in Orgs |-> 0]

Open(o) ==
    /\ o \notin customers
    /\ customers' = customers \cup {o}
    /\ UNCHANGED <<owner, reports, owed, charged, waived, accepted>>

Register(o, a) ==
    /\ o \in customers
    /\ owner' = [owner EXCEPT ![a] = o]
    /\ owed' = [owed EXCEPT ![o]["agents"] = @ + 1]
    /\ UNCHANGED <<customers, reports, charged, waived, accepted>>

Store(o, a) ==
    /\ o \in customers
    /\ owner[a] # None
    /\ reports' = [reports EXCEPT ![o][a] = @ + 1]
    /\ owed' = [owed EXCEPT ![o]["reports"] = @ + 1]
    /\ UNCHANGED <<customers, owner, charged, waived, accepted>>

Settle(o, m) ==
    /\ owed[o][m] > 0
    /\ owed' = [owed EXCEPT ![o][m] = @ - 1]
    /\ UNCHANGED <<customers, owner, reports, accepted>>

Charge(o, m) ==
    /\ Settle(o, m)
    /\ charged' = [charged EXCEPT ![o][m] = @ + 1]
    /\ UNCHANGED waived

Waive(o, m) ==
    /\ Settle(o, m)
    /\ waived' = [waived EXCEPT ![o][m] = @ + 1]
    /\ UNCHANGED charged

Accept(o) ==
    /\ accepted[o] < charged[o]["reports"]
    /\ accepted' = [accepted EXCEPT ![o] = @ + 1]
    /\ UNCHANGED <<customers, owner, reports, owed, charged, waived>>

Next ==
    \E o \in Orgs :
        \/ Open(o) \/ Accept(o)
        \/ \E a \in Agents : Register(o, a) \/ Store(o, a)
        \/ \E m \in Metrics : Charge(o, m) \/ Waive(o, m)

Spec == Init /\ [][Next]_vars

================================================================================
