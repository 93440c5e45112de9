------------------------------ MODULE SaaSControl ------------------------------
(***************************************************************************)
(* The SaaS control plane: signup, API keys, the fleet API, usage and the  *)
(* billing webhook, over one database that several servers may share.      *)
(*                                                                         *)
(* A server handles one request at a time, but a handler of the fleet API  *)
(* commits two to five transactions, so other servers' transactions come   *)
(* between them, and each can fail, or the server die, after any of them.  *)
(* A transaction is one step.  Signup and the webhook write in one         *)
(* transaction each.  Login, tokens and the reads of the web page change   *)
(* nothing and are left out, as is a signup refused by a UNIQUE column.    *)
(***************************************************************************)
EXTENDS Naturals, Sequences, FiniteSetsExt

CONSTANTS
    Servers,
    Orgs,        \* organizations, by their slugs
    Users,       \* people, by their e-mail addresses
    Agents,      \* agent ids
    Plans,
    Starter,     \* the plan of a new organization
    None,
    MaxRequests, \* bound: calls of the fleet API and events of the provider
    MaxEvents,   \* bound: events of the provider
    MaxFaults    \* bound: transactions failed and servers died

Statuses     == {"trialing", "active", "past_due", "canceled"}
Organization == [owner : Users, plan : Plans, status : Statuses]
Subscription == [plan : Plans, status : Statuses]

ASSUME SaaSAssumption ==
    /\ Starter \in Plans
    /\ None \notin Orgs \cup Plans \cup Organization \cup Subscription
    /\ IsFiniteSet(Servers) /\ IsFiniteSet(Agents)
    /\ {MaxRequests, MaxEvents, MaxFaults} \subseteq Nat

VARIABLES
    org,      \* organizations, with the one membership each has
    sub,      \* subscriptions
    keys,     \* the organizations whose agents have an API key
    agent,    \* agents
    stored,   \* agent_reports: how many of each organization and agent
    usage,    \* usage_events: the sum of each organization and metric
    job,      \* what each server is doing
    sent,     \* the provider's events, in the order they happened
    due,      \* those of them it will still deliver
    calls,    \* the number of calls of the fleet API
    faults,   \* the number of faults
    lost,     \* history: counts that a fault kept from usage_events
    acked,    \* history: reports answered with 202
    applied   \* history: events written to the database

accountVars == <<org, sub, keys>>
billingVars == <<sent, due, applied>>
fleetVars   == <<agent, stored, usage, job, calls, lost, acked>>
vars        == <<accountVars, billingVars, fleetVars, faults>>

Metrics  == {"agents", "reports"}

\* What a server does next; each step from "look" on is a transaction.
Steps == {"look", "register", "agents", "insert", "reports", "answer"}
Job   == [step : Steps, call : {"register", "report"}, org : Orgs, agent : Agents]
Idle  == [step |-> "idle"]

\* An event of the provider about the organization org; named says whether
\* its metadata has the organization_id, plan is what it says of the plan.
Event == [kind : {"checkout", "updated", "deleted"}, org : Orgs, named : BOOLEAN,
          plan : Plans \cup {None}, status : Statuses]

Init ==
    /\ org = [o \in Orgs |-> None]
    /\ sub = [o \in Orgs |-> None]
    /\ keys = {}
    /\ agent = [a \in Agents |-> [org |-> None, status |-> "active"]]
    /\ stored = [o \in Orgs |-> [a \in Agents |-> 0]]
    /\ usage = [o \in Orgs |-> [m \in Metrics |-> 0]]
    /\ job = [s \in Servers |-> Idle]
    /\ sent = <<>>
    /\ due = {}
    /\ calls = 0
    /\ faults = 0
    /\ lost = [o \in Orgs |-> [m \in Metrics |-> 0]]
    /\ acked = [o \in Orgs |-> 0]
    /\ applied = {}

(***************************************************************************)
(* Accounts                                                                *)
(***************************************************************************)

\* slug and email are UNIQUE.
Free(u, o) == org[o] = None /\ \A p \in Orgs : org[p] # None => org[p].owner # u

\* create_organization_with_owner.  When the answer is lost the owner has the
\* account all the same and logs in.
Signup(u, o) ==
    /\ Free(u, o)
    /\ org' = [org EXCEPT ![o] = [owner |-> u, plan |-> Starter, status |-> "trialing"]]
    /\ sub' = [sub EXCEPT ![o] = [plan |-> Starter, status |-> "trialing"]]
    /\ UNCHANGED <<keys, billingVars, fleetVars, faults>>

\* An owner makes a key and gives it to the agents.
CreateKey(o) ==
    /\ org[o] # None
    /\ keys' = keys \cup {o}
    /\ UNCHANGED <<org, sub, billingVars, fleetVars, faults>>

(***************************************************************************)
(* Billing                                                                 *)
(***************************************************************************)

\* Something happens at the provider: an owner pays, after that the
\* subscription changes or ends.
Happen(e) ==
    /\ Len(sent) < MaxEvents
    /\ calls + Len(sent) < MaxRequests
    /\ org[e.org] # None
    /\ e.kind = "checkout" => e.named /\ e.plan # None /\ e.status = "active"
    /\ e.kind = "updated" => e.status \in {"active", "past_due"}
    /\ e.kind = "deleted" => e.status = "canceled"
    /\ ~e.named => e.plan = None
    /\ e.kind # "checkout" =>
           \E i \in DOMAIN sent : sent[i].kind = "checkout" /\ sent[i].org = e.org
    /\ sent' = Append(sent, e)
    /\ due' = due \cup {Len(sent) + 1}
    /\ UNCHANGED <<accountVars, applied, fleetVars, faults>>

PlanOf(e)   == IF e.plan = None THEN Starter ELSE e.plan
StatusOf(e) == IF e.kind = "checkout" THEN "active"
               ELSE IF e.kind = "deleted" THEN "canceled" ELSE e.status

\* update_subscription writes plan and status to both tables.
SubscriptionAfter(e) == [plan |-> PlanOf(e), status |-> StatusOf(e)]

\* A mutant of OrganizationAfter: the status is left as it was.
OrganizationPlanOnly(e) == [org[e.org] EXCEPT !.plan = PlanOf(e)]

OrganizationAfter(e) ==
    [owner |-> org[e.org].owner, plan |-> PlanOf(e), status |-> StatusOf(e)]

\* A mutant of StillDue: a failed transaction is answered with 200 too.
AnsweredAnyway(i, outcome) == IF outcome = "lost" THEN due ELSE due \ {i}

\* The provider delivers until it has a 2xx answer; "lost" is one that a
\* fault took after the commit.
StillDue(i, outcome) == IF outcome = "ok" THEN due \ {i} ELSE due

Webhook(i, outcome) ==
    /\ i \in due
    /\ faults' = IF outcome = "ok" THEN faults ELSE faults + 1
    /\ faults' <= MaxFaults
    /\ due' = StillDue(i, outcome)
    /\ IF outcome = "failed" \/ ~sent[i].named
       THEN UNCHANGED <<org, sub, applied>>
       ELSE /\ sub' = [sub EXCEPT ![sent[i].org] = SubscriptionAfter(sent[i])]
            /\ org' = [org EXCEPT ![sent[i].org] = OrganizationAfter(sent[i])]
            /\ applied' = applied \cup {i}
    /\ UNCHANGED <<keys, sent, fleetVars>>

(***************************************************************************)
(* Fleet API                                                               *)
(***************************************************************************)

\* A call with organization o's key reaches server s.
Call(s, call, o, a) ==
    /\ job[s] = Idle
    /\ o \in keys
    /\ calls + Len(sent) < MaxRequests
    /\ calls' = calls + 1
    /\ job' = [job EXCEPT ![s] =
           [step |-> IF call = "register" THEN "register" ELSE "look",
            call |-> call, org |-> o, agent |-> a]]
    /\ UNCHANGED <<accountVars, billingVars, agent, stored, usage, lost, acked, faults>>

At(s, step) == job[s].step = step

\* Mutants of NextStep: usage before the report; no usage for an agent that
\* its first report registers.
NextCountsFirst(step, call) ==
    IF step = "register" THEN "agents"
    ELSE IF step = "agents" /\ call = "report" THEN "reports"
    ELSE IF step = "reports" THEN "insert" ELSE "answer"
NextRegistersFree(step, call) ==
    IF step = "register" THEN IF call = "report" THEN "insert" ELSE "agents"
    ELSE IF step = "insert" THEN "reports" ELSE "answer"

\* Where the handler goes from a step.
NextStep(step, call) ==
    IF step = "register" THEN "agents"
    ELSE IF step = "insert" THEN "reports"
    ELSE IF step = "agents" /\ call = "report" THEN "insert" ELSE "answer"

Advance(s) == job' = [job EXCEPT ![s].step = NextStep(@, job[s].call)]

\* _fleet_report asks for the agent, as the organization's, first.
Known(o, a) == agent[a].org = o

Look(s) ==
    /\ At(s, "look")
    /\ job' = [job EXCEPT ![s].step =
           IF Known(job[s].org, job[s].agent) THEN "insert" ELSE "register"]
    /\ UNCHANGED <<accountVars, billingVars, agent, stored, usage, calls, lost, acked, faults>>

\* register_agent's first transaction: the agent is the caller's from now on.
Register(s) ==
    /\ At(s, "register")
    /\ agent' = [agent EXCEPT ![job[s].agent] = [org |-> job[s].org, status |-> "active"]]
    /\ Advance(s)
    /\ UNCHANGED <<accountVars, billingVars, stored, usage, calls, lost, acked, faults>>

\* A mutant of Updates: the UPDATE asks for the id alone.
UpdatesById(o, a) == agent[a].org # None

\* Whether the UPDATE of create_agent_report finds its row.
Updates(o, a) == agent[a].org = o

\* create_agent_report's first transaction.
Insert(s) ==
    LET o == job[s].org
        a == job[s].agent
    IN  /\ At(s, "insert")
        /\ stored' = [stored EXCEPT ![o][a] = @ + 1]
        /\ agent' = IF Updates(o, a) THEN [agent EXCEPT ![a].status = "reporting"] ELSE agent
        /\ Advance(s)
        /\ UNCHANGED <<accountVars, billingVars, usage, calls, lost, acked, faults>>

\* record_usage, a transaction of its own after what it counts.
RecordUsage(s) ==
    \E m \in Metrics :
        /\ At(s, m)
        /\ usage' = [usage EXCEPT ![job[s].org][m] = @ + 1]
        /\ Advance(s)
        /\ UNCHANGED <<accountVars, billingVars, agent, stored, calls, lost, acked, faults>>

Answer(s) ==
    /\ At(s, "answer")
    /\ job' = [job EXCEPT ![s] = Idle]
    /\ acked' = IF job[s].call = "report" THEN [acked EXCEPT ![job[s].org] = @ + 1] ELSE acked
    /\ UNCHANGED <<accountVars, billingVars, agent, stored, usage, calls, lost, faults>>

\* A mutant of AfterFault: a failure of record_usage is swallowed.
SwallowsUsage(s) ==
    IF At(s, "reports") THEN [job[s] EXCEPT !.step = "answer"] ELSE Idle

\* The exception reaches _handle_client, or the server is gone.
AfterFault(s) == Idle

\* A transaction fails and is answered with 500, two reports of one
\* microsecond have the same key, the server dies, or the answer is lost:
\* what was committed stays, the rest of the handler is not done.
Fail(s) ==
    /\ job[s] # Idle
    /\ faults < MaxFaults
    /\ faults' = faults + 1
    /\ job' = [job EXCEPT ![s] = AfterFault(s)]
    /\ lost' = IF job[s].step \in Metrics
               THEN [lost EXCEPT ![job[s].org][job[s].step] = @ + 1] ELSE lost
    /\ UNCHANGED <<accountVars, billingVars, agent, stored, usage, calls, acked>>

Handle(s) == Look(s) \/ Register(s) \/ Insert(s) \/ RecordUsage(s) \/ Answer(s)

Next ==
    \/ \E u \in Users, o \in Orgs : Signup(u, o)
    \/ \E o \in Orgs : CreateKey(o)
    \/ \E e \in Event : Happen(e)
    \/ \E i \in due, outcome \in {"ok", "failed", "lost"} : Webhook(i, outcome)
    \/ \E s \in Servers, c \in {"register", "report"}, o \in Orgs, a \in Agents : Call(s, c, o, a)
    \/ \E s \in Servers : Handle(s) \/ Fail(s)

Spec == Init /\ [][Next]_vars

\* The provider goes on delivering what has not been answered; faults end.
FairSpec == Spec /\ \A i \in 1 .. MaxEvents :
                        WF_vars(\E outcome \in {"ok", "failed", "lost"} : Webhook(i, outcome))

(***************************************************************************)
(* Properties                                                              *)
(***************************************************************************)

\* The variables hold what they should.
TypeOK ==
    /\ org \in [Orgs -> Organization \cup {None}]
    /\ sub \in [Orgs -> Subscription \cup {None}]
    /\ keys \subseteq Orgs
    /\ agent \in [Agents -> [org : Orgs \cup {None}, status : {"active", "reporting"}]]
    /\ stored \in [Orgs -> [Agents -> Nat]]
    /\ usage \in [Orgs -> [Metrics -> Nat]]
    /\ job \in [Servers -> Job \cup {Idle}]
    /\ sent \in Seq(Event)
    /\ due \subseteq 1 .. Len(sent)
    /\ calls \in 0 .. MaxRequests
    /\ faults \in 0 .. MaxFaults
    /\ lost \in [Orgs -> [Metrics -> Nat]]
    /\ acked \in [Orgs -> Nat]
    /\ applied \subseteq 1 .. Len(sent)

\* What a customer sees of the plan (organizations, read by get_organization)
\* and what billing keeps of it (subscriptions) are the same, whatever events
\* arrive, in any order and more than once, and both exist or neither; only an
\* organization with an account has keys, and an owner has one organization.
TenantsAreWhole ==
    /\ \A o \in Orgs :
           /\ org[o] = None <=> sub[o] = None
           /\ org[o] # None => org[o].plan = sub[o].plan /\ org[o].status = sub[o].status
           /\ o \in keys => org[o] # None
    /\ \A o, p \in Orgs :
           org[o] # None /\ org[p] # None /\ org[o].owner = org[p].owner => o = p

\* The servers that have still to count something for an organization.
Owing(o, m) == {s \in Servers : job[s] # Idle /\ job[s].org = o /\ job[s].step = m}

ReportsOf(o) == MapThenSumSet(LAMBDA a : stored[o][a], Agents)
AgentsOf(o)  == {a \in Agents : agent[a].org = o}

\* record_usage is a transaction apart from what it counts.  No organization
\* is charged for a report that is not stored; a stored report is counted,
\* about to be, or one whose count a fault took.
ReportsAreCounted ==
    \A o \in Orgs : ReportsOf(o) =
        usage[o]["reports"] + Cardinality(Owing(o, "reports")) + lost[o]["reports"]

\* Agents are counted by registration, and move between organizations; an
\* organization never has more of them than it was charged for, but for the
\* counts that are to come or that a fault took.
AgentsAreCounted ==
    \A o \in Orgs : Cardinality(AgentsOf(o)) <=
        usage[o]["agents"] + Cardinality(Owing(o, "agents")) + lost[o]["agents"]

\* A 202 tells the agent that its report is stored and counted: a fault before
\* the answer is answered with an error.
AcknowledgedIsCounted == \A o \in Orgs : acked[o] <= usage[o]["reports"]

\* An agent that another organization takes over while its report is being
\* handled is not shown to its new one as reporting: there, it has sent none.
ReportingHasReported ==
    \A a \in Agents : agent[a].status = "reporting" =>
        agent[a].org # None /\ stored[agent[a].org][a] > 0

\* Every stored report's agent is in the table: _fleet_report registers an
\* unknown agent before it stores its report.
ReportsHaveAgents ==
    \A o \in Orgs, a \in Agents : stored[o][a] > 0 => agent[a].org # None

Customers == {o \in Orgs : org[o] # None}
Owner     == [a \in Agents |-> agent[a].org]
Owed      == [o \in Orgs |-> [m \in Metrics |-> Cardinality(Owing(o, m))]]

Ledger == INSTANCE UsageLedger WITH
    customers <- Customers,
    owner     <- Owner,
    reports   <- stored,
    owed      <- Owed,
    charged   <- usage,
    waived    <- lost,
    accepted  <- acked

\* However the transactions of several servers and their faults interleave,
\* each step registers or stores one thing, charges or waives one that is
\* owed, or answers for one that is charged: see UsageLedger.
ImplementsUsageLedger == Ledger!Spec

\* An event that names its organization is written to the database in the
\* end, however often a delivery fails: it is answered with 200 only after
\* the commit, so the provider goes on delivering.
EventsAreApplied ==
    \A i \in 1 .. MaxEvents :
        (i \in DOMAIN sent /\ sent[i].named) ~> i \in applied

================================================================================
