--------------------------- MODULE SaaSControlProofs ---------------------------
(***************************************************************************)
(* Theorems about SaaSControl, for any number of servers, organizations,   *)
(* agents, requests and faults.                                            *)
(***************************************************************************)
EXTENDS SaaSControl, FiniteSetTheorems, WellFoundedInduction, TLAPS

AccountTypes ==
    /\ org \in [Orgs -> Organization \cup {None}]
    /\ sub \in [Orgs -> Subscription \cup {None}]
    /\ keys \subseteq Orgs

BillingTypes ==
    /\ sent \in Seq(Event)
    /\ due \subseteq 1 .. Len(sent)
    /\ applied \subseteq 1 .. Len(sent)

FleetTypes ==
    /\ agent \in [Agents -> [org : Orgs \cup {None}, status : {"active", "reporting"}]]
    /\ stored \in [Orgs -> [Agents -> Nat]]
    /\ usage \in [Orgs -> [Metrics -> Nat]]
    /\ job \in [Servers -> Job \cup {Idle}]
    /\ lost \in [Orgs -> [Metrics -> Nat]]
    /\ acked \in [Orgs -> Nat]

Bounds == calls \in 0 .. MaxRequests /\ faults \in 0 .. MaxFaults

LEMMA TypesTogether ==
    TypeOK <=> AccountTypes /\ BillingTypes /\ FleetTypes /\ Bounds
BY DEF TypeOK, AccountTypes, BillingTypes, FleetTypes, Bounds

(* The servers about to answer a report of an organization. *)
Answering(o) ==
    {s \in Servers : job[s] # Idle /\ job[s].org = o /\ job[s].step = "answer"
                     /\ job[s].call = "report"}

(* The agents of jobs past the registration are in the table. *)
JobsHaveAgents ==
    \A s \in Servers :
        job[s] # Idle /\ job[s].step \notin {"look", "register"} =>
            agent[job[s].agent].org # None

AnsweredIsCounted ==
    \A o \in Orgs : acked[o] + Cardinality(Answering(o)) <= usage[o]["reports"]

(* Only an organization with an account has events. *)
EventsHaveAccounts == \A i \in 1 .. Len(sent) : org[sent[i].org] # None

SaaSInv ==
    /\ TypeOK
    /\ TenantsAreWhole
    /\ AgentsAreCounted
    /\ AnsweredIsCounted
    /\ ReportingHasReported
    /\ ReportsHaveAgents
    /\ JobsHaveAgents
    /\ EventsHaveAccounts

--------------------------------------------------------------------------------
(* Jobs. *)

LEMMA Busy ==
    ASSUME FleetTypes, NEW s \in Servers
    PROVE  /\ job[s] # Idle <=> job[s] \in Job
           /\ job[s] # Idle <=> job[s].step # "idle"
           /\ job[s].step \in Steps => job[s] \in Job
BY DEF FleetTypes, Job, Idle, Steps

LEMMA StepTyped ==
    ASSUME FleetTypes, NEW s \in Servers, job[s] \in Job, NEW x \in Steps
    PROVE  LET j == [job[s] EXCEPT !.step = x]
           IN  /\ [job EXCEPT ![s].step = x] = [job EXCEPT ![s] = j]
               /\ j \in Job /\ j # Idle
               /\ j.step = x /\ j.call = job[s].call
               /\ j.org = job[s].org /\ j.agent = job[s].agent
<1>1. job[s] = [step |-> job[s].step, call |-> job[s].call, org |-> job[s].org,
                agent |-> job[s].agent]
    BY DEF Job
<1>. QED BY <1>1 DEF Job, Idle, Steps, FleetTypes

LEMMA NextStepIsStep ==
    ASSUME NEW x, NEW c
    PROVE  NextStep(x, c) \in {"agents", "reports", "insert", "answer"}
BY DEF NextStep

Owes(j, o, m)  == j # Idle /\ j.org = o /\ j.step = m
Answers(j, o)  == j # Idle /\ j.org = o /\ j.step = "answer" /\ j.call = "report"
One(condition) == IF condition THEN 1 ELSE 0

(* When one server's job becomes j, only its place in these sets changes. *)
LEMMA OwingCount ==
    ASSUME SaaSAssumption, FleetTypes, NEW s \in Servers, NEW j \in Job \cup {Idle},
           job' = [job EXCEPT ![s] = j], NEW o \in Orgs, NEW m \in Metrics
    PROVE  /\ Cardinality(Owing(o, m)) \in Nat
           /\ Cardinality(Owing(o, m)') + One(Owes(job[s], o, m))
                = Cardinality(Owing(o, m)) + One(Owes(j, o, m))
<1>1. IsFiniteSet(Owing(o, m))
    BY FS_Subset DEF SaaSAssumption, Owing
<1>2. Cardinality(Owing(o, m)) \in Nat
    BY <1>1, FS_CardinalityType
<1>3. s \in Owing(o, m) <=> Owes(job[s], o, m)
    BY DEF Owing, Owes
<1>4. CASE Owes(j, o, m)
    <2>1. Owing(o, m)' = Owing(o, m) \cup {s}
        BY <1>4 DEF Owing, Owes, FleetTypes
    <2>2. Cardinality(Owing(o, m)') = IF s \in Owing(o, m) THEN Cardinality(Owing(o, m)) ELSE Cardinality(Owing(o, m)) + 1
        BY <1>1, <2>1, FS_AddElement
    <2>. QED BY <1>2, <1>3, <1>4, <2>2 DEF One
<1>5. CASE ~Owes(j, o, m)
    <2>1. Owing(o, m)' = Owing(o, m) \ {s}
        BY <1>5 DEF Owing, Owes, FleetTypes
    <2>2. Cardinality(Owing(o, m)') = IF s \in Owing(o, m) THEN Cardinality(Owing(o, m)) - 1 ELSE Cardinality(Owing(o, m))
        BY <1>1, <2>1, FS_RemoveElement
    <2>. QED BY <1>2, <1>3, <1>5, <2>2 DEF One
<1>. QED BY <1>2, <1>4, <1>5

LEMMA AnsweringCount ==
    ASSUME SaaSAssumption, FleetTypes, NEW s \in Servers, NEW j \in Job \cup {Idle},
           job' = [job EXCEPT ![s] = j], NEW o \in Orgs
    PROVE  /\ Cardinality(Answering(o)) \in Nat
           /\ Cardinality(Answering(o)') + One(Answers(job[s], o))
                = Cardinality(Answering(o)) + One(Answers(j, o))
<1>1. IsFiniteSet(Answering(o))
    BY FS_Subset DEF SaaSAssumption, Answering
<1>2. Cardinality(Answering(o)) \in Nat
    BY <1>1, FS_CardinalityType
<1>3. s \in Answering(o) <=> Answers(job[s], o)
    BY DEF Answering, Answers
<1>4. CASE Answers(j, o)
    <2>1. Answering(o)' = Answering(o) \cup {s}
        BY <1>4 DEF Answering, Answers, FleetTypes
    <2>2. Cardinality(Answering(o)') = IF s \in Answering(o) THEN Cardinality(Answering(o)) ELSE Cardinality(Answering(o)) + 1
        BY <1>1, <2>1, FS_AddElement
    <2>. QED BY <1>2, <1>3, <1>4, <2>2 DEF One
<1>5. CASE ~Answers(j, o)
    <2>1. Answering(o)' = Answering(o) \ {s}
        BY <1>5 DEF Answering, Answers, FleetTypes
    <2>2. Cardinality(Answering(o)') = IF s \in Answering(o) THEN Cardinality(Answering(o)) - 1 ELSE Cardinality(Answering(o))
        BY <1>1, <2>1, FS_RemoveElement
    <2>. QED BY <1>2, <1>3, <1>5, <2>2 DEF One
<1>. QED BY <1>2, <1>4, <1>5

(* A step that moves no agent leaves everyone their number of agents. *)
LEMMA AgentsCount ==
    ASSUME SaaSAssumption, NEW o \in Orgs
    PROVE  IsFiniteSet(AgentsOf(o)) /\ Cardinality(AgentsOf(o)) \in Nat
<1>1. IsFiniteSet(AgentsOf(o))
    BY FS_Subset DEF SaaSAssumption, AgentsOf
<1>. QED BY <1>1, FS_CardinalityType

--------------------------------------------------------------------------------
(* What an action leaves alone. *)

FleetInv ==
    /\ FleetTypes
    /\ AgentsAreCounted
    /\ AnsweredIsCounted
    /\ ReportingHasReported
    /\ ReportsHaveAgents
    /\ JobsHaveAgents

TenantInv == AccountTypes /\ BillingTypes /\ TenantsAreWhole /\ EventsHaveAccounts

LEMMA InvTogether ==
    SaaSInv <=> FleetInv /\ TenantInv /\ Bounds
BY TypesTogether DEF SaaSInv, FleetInv, TenantInv

LEMMA FleetUntouched ==
    ASSUME FleetInv, UNCHANGED fleetVars
    PROVE  FleetInv'
<1>1. \A o \in Orgs : Owing(o, "agents")' = Owing(o, "agents") /\ Answering(o)' = Answering(o)
    BY DEF fleetVars, Owing, Answering
<1>2. \A o \in Orgs : AgentsOf(o)' = AgentsOf(o)
    BY DEF fleetVars, AgentsOf
<1>3. FleetTypes'
    BY DEF FleetInv, FleetTypes, fleetVars
<1>4. AgentsAreCounted' /\ AnsweredIsCounted'
    BY <1>1, <1>2 DEF FleetInv, AgentsAreCounted, AnsweredIsCounted, fleetVars
<1>. QED BY <1>3, <1>4 DEF FleetInv, ReportingHasReported, ReportsHaveAgents, JobsHaveAgents, fleetVars

LEMMA TenantsUntouched ==
    ASSUME TenantInv, UNCHANGED <<accountVars, billingVars>>
    PROVE  TenantInv'
BY DEF TenantInv, AccountTypes, BillingTypes, TenantsAreWhole, EventsHaveAccounts, accountVars, billingVars

--------------------------------------------------------------------------------
(* Accounts and billing. *)

LEMMA NewRows ==
    ASSUME SaaSAssumption, NEW u \in Users, NEW p \in Plans, NEW t \in Statuses
    PROVE  /\ [owner |-> u, plan |-> p, status |-> t] \in Organization
           /\ [plan |-> p, status |-> t] \in Subscription
           /\ [owner |-> u, plan |-> p, status |-> t] # None
           /\ [plan |-> p, status |-> t] # None
BY DEF SaaSAssumption, Organization, Subscription

LEMMA SentEvents ==
    ASSUME TenantInv, NEW i \in 1 .. Len(sent)
    PROVE  sent[i] \in Event /\ sent[i].org \in Orgs
<1>1. sent \in Seq(Event)
    BY DEF TenantInv, BillingTypes
<1>2. sent[i] \in Event
    BY <1>1
<1>. QED BY <1>2 DEF Event

LEMMA SignupKeeps ==
    ASSUME SaaSAssumption, TenantInv, NEW u \in Users, NEW o \in Orgs, Signup(u, o)
    PROVE  TenantInv'
<1> DEFINE orgRow == [owner |-> u, plan |-> Starter, status |-> "trialing"]
           subRow == [plan |-> Starter, status |-> "trialing"]
<1>1. /\ orgRow \in Organization /\ orgRow # None /\ orgRow.owner = u
      /\ subRow \in Subscription /\ subRow # None
      /\ orgRow.plan = subRow.plan /\ orgRow.status = subRow.status
    BY NewRows DEF SaaSAssumption, Statuses
<1>2. /\ org' = [org EXCEPT ![o] = orgRow] /\ sub' = [sub EXCEPT ![o] = subRow]
      /\ keys' = keys /\ UNCHANGED billingVars
    BY DEF Signup
<1> HIDE DEF orgRow, subRow
<1>3. AccountTypes'
    BY <1>1, <1>2 DEF TenantInv, AccountTypes
<1>4. BillingTypes'
    BY <1>2 DEF TenantInv, BillingTypes, billingVars
<1>5. \A q \in Orgs : q # o => org'[q] = org[q] /\ sub'[q] = sub[q]
    BY <1>2 DEF TenantInv, AccountTypes
<1>6. org'[o] = orgRow /\ sub'[o] = subRow
    BY <1>2 DEF TenantInv, AccountTypes
<1>7. \A q \in Orgs : q # o /\ org[q] # None => org[q].owner # u
    BY DEF Signup, Free
<1>8. TenantsAreWhole'
    BY <1>1, <1>2, <1>5, <1>6, <1>7 DEF TenantInv, TenantsAreWhole
<1>9. EventsHaveAccounts'
    <2>1. \A i \in 1 .. Len(sent) : sent[i].org \in Orgs
        BY SentEvents
    <2>. QED BY <1>1, <1>2, <1>5, <1>6, <2>1 DEF TenantInv, EventsHaveAccounts, billingVars
<1>. QED BY <1>3, <1>4, <1>8, <1>9 DEF TenantInv

LEMMA CreateKeyKeeps ==
    ASSUME TenantInv, NEW o \in Orgs, CreateKey(o)
    PROVE  TenantInv'
BY DEF TenantInv, AccountTypes, BillingTypes, TenantsAreWhole, EventsHaveAccounts, CreateKey, billingVars

LEMMA HappenKeeps ==
    ASSUME TenantInv, NEW e \in Event, Happen(e)
    PROVE  TenantInv'
<1>1. /\ sent \in Seq(Event) /\ Len(sent) \in Nat
      /\ due \subseteq 1 .. Len(sent) /\ applied \subseteq 1 .. Len(sent)
    BY DEF TenantInv, BillingTypes
<1>2. /\ sent' = Append(sent, e) /\ due' = due \cup {Len(sent) + 1} /\ applied' = applied
      /\ UNCHANGED accountVars /\ org[e.org] # None
    BY DEF Happen
<1>3. /\ sent' \in Seq(Event) /\ Len(sent') = Len(sent) + 1
      /\ \A i \in 1 .. Len(sent) : sent'[i] = sent[i]
      /\ sent'[Len(sent) + 1] = e
    BY <1>1, <1>2
<1>4. 1 .. Len(sent') = (1 .. Len(sent)) \cup {Len(sent) + 1}
    BY <1>1, <1>3
<1>5. BillingTypes'
    BY <1>1, <1>2, <1>3, <1>4 DEF BillingTypes
<1>6. EventsHaveAccounts'
    BY <1>2, <1>3, <1>4 DEF TenantInv, EventsHaveAccounts, accountVars
<1>. QED BY <1>2, <1>5, <1>6 DEF TenantInv, AccountTypes, TenantsAreWhole, accountVars

LEMMA EventContents ==
    ASSUME SaaSAssumption, NEW e \in Event
    PROVE  PlanOf(e) \in Plans /\ StatusOf(e) \in Statuses
BY DEF SaaSAssumption, Event, PlanOf, StatusOf, Statuses

LEMMA WebhookKeeps ==
    ASSUME SaaSAssumption, TenantInv, NEW i \in due, NEW outcome, Webhook(i, outcome)
    PROVE  TenantInv'
<1> DEFINE o == sent[i].org
           orgRow == OrganizationAfter(sent[i])
           subRow == SubscriptionAfter(sent[i])
<1>0. i \in 1 .. Len(sent)
    BY DEF TenantInv, BillingTypes
<1>1. i \in 1 .. Len(sent) /\ sent[i] \in Event /\ o \in Orgs
    BY <1>0, SentEvents
<1>2. org[o] \in Organization /\ org[o].owner \in Users
    BY <1>1 DEF TenantInv, AccountTypes, EventsHaveAccounts, Organization
<1>3. /\ orgRow \in Organization /\ orgRow # None /\ orgRow.owner = org[o].owner
      /\ subRow \in Subscription /\ subRow # None
      /\ orgRow.plan = subRow.plan /\ orgRow.status = subRow.status
    BY <1>1, <1>2, EventContents, NewRows DEF OrganizationAfter, SubscriptionAfter
<1>4. sent' = sent /\ keys' = keys /\ due' \subseteq due
    BY DEF Webhook, StillDue
<1>5. CASE UNCHANGED <<org, sub, applied>>
    BY <1>4, <1>5 DEF TenantInv, AccountTypes, BillingTypes, TenantsAreWhole, EventsHaveAccounts
<1>6. CASE /\ sub' = [sub EXCEPT ![o] = subRow]
           /\ org' = [org EXCEPT ![o] = orgRow]
           /\ applied' = applied \cup {i}
    <2> HIDE DEF o, orgRow, subRow
    <2>1. AccountTypes'
        BY <1>1, <1>3, <1>4, <1>6 DEF TenantInv, AccountTypes
    <2>2. BillingTypes'
        BY <1>1, <1>4, <1>6 DEF TenantInv, BillingTypes
    <2>3. /\ \A q \in Orgs : q # o => org'[q] = org[q] /\ sub'[q] = sub[q]
          /\ org'[o] = orgRow /\ sub'[o] = subRow
        BY <1>1, <1>6 DEF TenantInv, AccountTypes
    <2>4. org[o] # None
        BY <1>1 DEF TenantInv, EventsHaveAccounts, o
    <2>5. TenantsAreWhole'
        BY <1>3, <1>4, <2>3, <2>4 DEF TenantInv, TenantsAreWhole
    <2>6. EventsHaveAccounts'
        <3>1. \A k \in 1 .. Len(sent) : sent[k].org \in Orgs
            BY SentEvents
        <3>. QED BY <1>3, <1>4, <2>3, <3>1 DEF TenantInv, EventsHaveAccounts
    <2>. QED BY <2>1, <2>2, <2>5, <2>6 DEF TenantInv
<1>. QED BY <1>5, <1>6 DEF Webhook

--------------------------------------------------------------------------------
(* The fleet API. *)

(* A step of the handler that writes nothing and owes nothing. *)
LEMMA QuietJob ==
    ASSUME SaaSAssumption, FleetInv, NEW s \in Servers, NEW j \in Job \cup {Idle},
           job' = [job EXCEPT ![s] = j], UNCHANGED <<agent, stored, usage, lost, acked>>,
           \A o \in Orgs : Owes(j, o, "agents") <=> Owes(job[s], o, "agents"),
           \A o \in Orgs : Answers(j, o) => Answers(job[s], o),
           j = Idle \/ j.step \in {"look", "register"} \/ agent[j.agent].org # None
    PROVE  FleetInv'
<1>1. FleetTypes /\ FleetTypes'
    BY DEF FleetInv, FleetTypes
<1>2. AgentsAreCounted'
    <2>. SUFFICES ASSUME NEW o \in Orgs
                  PROVE  Cardinality(AgentsOf(o))' <=
                           usage'[o]["agents"] + Cardinality(Owing(o, "agents"))' + lost'[o]["agents"]
        BY DEF AgentsAreCounted
    <2>1. Owing(o, "agents")' = Owing(o, "agents")
        BY <1>1 DEF Owing, Owes, FleetTypes
    <2>2. AgentsOf(o)' = AgentsOf(o)
        BY DEF AgentsOf
    <2>. QED BY <2>1, <2>2 DEF FleetInv, AgentsAreCounted
<1>3. AnsweredIsCounted'
    <2>. SUFFICES ASSUME NEW o \in Orgs
                  PROVE  acked'[o] + Cardinality(Answering(o))' <= usage'[o]["reports"]
        BY DEF AnsweredIsCounted
    <2>1. /\ Cardinality(Answering(o)) \in Nat
          /\ Cardinality(Answering(o)') + One(Answers(job[s], o))
                = Cardinality(Answering(o)) + One(Answers(j, o))
        BY <1>1, AnsweringCount
    <2>2. Cardinality(Answering(o)') \in Int /\ Cardinality(Answering(o)') <= Cardinality(Answering(o))
        <3>1. IsFiniteSet(Answering(o)')
            BY <1>1, FS_Subset DEF SaaSAssumption, Answering
        <3>2. Cardinality(Answering(o)') \in Nat
            BY <3>1, FS_CardinalityType
        <3>. QED BY <2>1, <3>2 DEF One
    <2>3. acked[o] \in Nat /\ usage[o]["reports"] \in Nat
        BY <1>1 DEF FleetTypes, Metrics
    <2>4. acked[o] + Cardinality(Answering(o)) <= usage[o]["reports"]
        BY DEF FleetInv, AnsweredIsCounted
    <2>. QED BY <2>1, <2>2, <2>3, <2>4
<1>4. JobsHaveAgents'
    BY <1>1 DEF FleetInv, FleetTypes, JobsHaveAgents
<1>5. ReportingHasReported' /\ ReportsHaveAgents'
    BY DEF FleetInv, ReportingHasReported, ReportsHaveAgents
<1>. QED BY <1>1, <1>2, <1>3, <1>4, <1>5 DEF FleetInv

LEMMA CallKeeps ==
    ASSUME SaaSAssumption, FleetInv, NEW s \in Servers, NEW call \in {"register", "report"},
           NEW o \in Orgs, NEW a \in Agents, Call(s, call, o, a)
    PROVE  FleetInv'
<1> DEFINE first == IF call = "register" THEN "register" ELSE "look"
           j == [step |-> first, call |-> call, org |-> o, agent |-> a]
<1>1. first \in {"look", "register"}
    OBVIOUS
<1>2. job' = [job EXCEPT ![s] = j] /\ UNCHANGED <<agent, stored, usage, lost, acked>>
      /\ job[s] = Idle
    BY DEF Call
<1> HIDE DEF first
<1>3. j \in Job
    BY <1>1 DEF Job, Steps
<1>4. j.step = first
    OBVIOUS
<1> HIDE DEF j
<1>. QED BY <1>1, <1>2, <1>3, <1>4, QuietJob DEF Owes, Answers

LEMMA LookKeeps ==
    ASSUME SaaSAssumption, FleetInv, NEW s \in Servers, Look(s)
    PROVE  FleetInv'
<1> DEFINE x == IF Known(job[s].org, job[s].agent) THEN "insert" ELSE "register"
           j == [job[s] EXCEPT !.step = x]
<1>1. FleetTypes
    BY DEF FleetInv
<1>2. job[s] \in Job /\ job[s].step = "look" /\ x \in Steps /\ x \in {"insert", "register"}
    BY <1>1, Busy DEF Look, At, Steps
<1>3. x = "insert" => agent[job[s].agent].org = job[s].org
    BY DEF Known
<1>4. job' = [job EXCEPT ![s].step = x] /\ UNCHANGED <<agent, stored, usage, lost, acked>>
    BY DEF Look
<1> HIDE DEF x
<1>5. /\ job' = [job EXCEPT ![s] = j] /\ j \in Job /\ j.step = x
      /\ j.org = job[s].org /\ j.agent = job[s].agent
    BY <1>1, <1>2, <1>4, StepTyped
<1>6. job[s].org # None
    BY <1>2 DEF Job, SaaSAssumption
<1> HIDE DEF j
<1>7. \A o \in Orgs : ~Owes(j, o, "agents") /\ ~Owes(job[s], o, "agents") /\ ~Answers(j, o)
    BY <1>2, <1>5 DEF Owes, Answers
<1>8. j.step = "register" \/ agent[j.agent].org # None
    BY <1>2, <1>3, <1>5, <1>6
<1>. QED BY <1>4, <1>5, <1>7, <1>8, QuietJob

(* What a step of the handler does to its job. *)
LEMMA AdvanceTyped ==
    ASSUME FleetTypes, NEW s \in Servers, job[s].step \in Steps, Advance(s)
    PROVE  LET j == [job[s] EXCEPT !.step = NextStep(job[s].step, job[s].call)]
           IN  /\ job' = [job EXCEPT ![s] = j] /\ job[s] \in Job /\ j \in Job /\ j # Idle
               /\ j.step = NextStep(job[s].step, job[s].call)
               /\ j.call = job[s].call /\ j.org = job[s].org /\ j.agent = job[s].agent
<1> DEFINE x == NextStep(job[s].step, job[s].call)
<1>1. x \in Steps
    BY NextStepIsStep DEF Steps
<1>2. job' = [job EXCEPT ![s].step = x]
    BY DEF Advance
<1>3. job[s] \in Job
    BY Busy
<1> HIDE DEF x
<1>4. LET j == [job[s] EXCEPT !.step = x]
      IN  /\ job' = [job EXCEPT ![s] = j] /\ job[s] \in Job /\ j \in Job /\ j # Idle
          /\ j.step = x
          /\ j.call = job[s].call /\ j.org = job[s].org /\ j.agent = job[s].agent
    BY <1>1, <1>2, <1>3, StepTyped
<1>. QED BY <1>4 DEF x

LEMMA RegisterKeeps ==
    ASSUME SaaSAssumption, FleetInv, NEW s \in Servers, Register(s)
    PROVE  FleetInv'
<1> DEFINE o == job[s].org
           a == job[s].agent
           j == [job[s] EXCEPT !.step = NextStep(job[s].step, job[s].call)]
<1>1. FleetTypes /\ job[s].step = "register" /\ job[s].step \in Steps /\ Advance(s)
    BY DEF FleetInv, Register, At, Steps
<1>2. /\ job' = [job EXCEPT ![s] = j] /\ job[s] \in Job /\ j \in Job /\ j # Idle
      /\ j.step = "agents" /\ j.org = o /\ j.agent = a
    BY <1>1, AdvanceTyped DEF NextStep
<1>3. o \in Orgs /\ a \in Agents /\ o # None
    BY <1>2 DEF Job, SaaSAssumption
<1>4. /\ agent' = [agent EXCEPT ![a] = [org |-> o, status |-> "active"]]
      /\ UNCHANGED <<stored, usage, lost, acked>>
    BY DEF Register
<1> HIDE DEF j, o, a
<1>5. FleetTypes'
    BY <1>1, <1>2, <1>3, <1>4 DEF FleetTypes
<1>6. /\ agent'[a].org = o /\ agent'[a].status = "active"
      /\ \A b \in Agents : b # a => agent'[b] = agent[b]
    BY <1>1, <1>3, <1>4 DEF FleetTypes
<1>7. AgentsAreCounted'
    <2>. SUFFICES ASSUME NEW p \in Orgs
                  PROVE  Cardinality(AgentsOf(p)') <=
                           usage'[p]["agents"] + Cardinality(Owing(p, "agents")') + lost'[p]["agents"]
        BY DEF AgentsAreCounted
    <2>1. usage[p]["agents"] \in Nat /\ lost[p]["agents"] \in Nat
        BY <1>1 DEF FleetTypes, Metrics
    <2>2. Cardinality(AgentsOf(p)) <=
              usage[p]["agents"] + Cardinality(Owing(p, "agents")) + lost[p]["agents"]
        BY DEF FleetInv, AgentsAreCounted
    <2>3. /\ Cardinality(Owing(p, "agents")) \in Nat
          /\ Cardinality(Owing(p, "agents")') + One(Owes(job[s], p, "agents"))
                = Cardinality(Owing(p, "agents")) + One(Owes(j, p, "agents"))
        BY <1>1, <1>2, OwingCount DEF Metrics
    <2>4. One(Owes(job[s], p, "agents")) = 0 /\ One(Owes(j, p, "agents")) = One(p = o)
        BY <1>1, <1>2 DEF Owes, One
    <2>5. IsFiniteSet(Owing(p, "agents")')
        BY FS_Subset DEF SaaSAssumption, Owing
    <2>6. Cardinality(Owing(p, "agents")') \in Nat
        BY <2>5, FS_CardinalityType
    <2>7. IsFiniteSet(AgentsOf(p)) /\ Cardinality(AgentsOf(p)) \in Nat
        BY AgentsCount
    <2>8. CASE p = o
        <3>1. AgentsOf(p)' = AgentsOf(p) \cup {a}
            BY <1>3, <1>6, <2>8 DEF AgentsOf
        <3>2. Cardinality(AgentsOf(p)') = IF a \in AgentsOf(p)
                  THEN Cardinality(AgentsOf(p)) ELSE Cardinality(AgentsOf(p)) + 1
            BY <2>7, <3>1, FS_AddElement
        <3>3. Cardinality(AgentsOf(p)') \in Nat /\ Cardinality(AgentsOf(p)') <= Cardinality(AgentsOf(p)) + 1
            BY <2>7, <3>2
        <3>4. Cardinality(Owing(p, "agents")') = Cardinality(Owing(p, "agents")) + 1
            BY <2>3, <2>4, <2>6, <2>8 DEF One
        <3>. QED BY <1>4, <2>1, <2>2, <2>3, <2>6, <2>7, <3>3, <3>4
    <2>9. CASE p # o
        <3>1. AgentsOf(p)' = AgentsOf(p) \ {a}
            BY <1>3, <1>6, <2>9 DEF AgentsOf
        <3>2. Cardinality(AgentsOf(p)') = IF a \in AgentsOf(p)
                  THEN Cardinality(AgentsOf(p)) - 1 ELSE Cardinality(AgentsOf(p))
            BY <2>7, <3>1, FS_RemoveElement
        <3>3. Cardinality(AgentsOf(p)') \in Int /\ Cardinality(AgentsOf(p)') <= Cardinality(AgentsOf(p))
            BY <2>7, <3>2
        <3>4. Cardinality(Owing(p, "agents")') = Cardinality(Owing(p, "agents"))
            BY <2>3, <2>4, <2>6, <2>9 DEF One
        <3>. QED BY <1>4, <2>1, <2>2, <2>3, <2>6, <2>7, <3>3, <3>4
    <2>. QED BY <2>8, <2>9
<1>8. AnsweredIsCounted'
    <2>1. \A p \in Orgs : Answering(p)' = Answering(p)
        BY <1>1, <1>2 DEF Answering, FleetTypes
    <2>. QED BY <1>4, <2>1 DEF FleetInv, AnsweredIsCounted
<1>9. ReportingHasReported' /\ ReportsHaveAgents'
    BY <1>3, <1>4, <1>6 DEF FleetInv, ReportingHasReported, ReportsHaveAgents
<1>10. JobsHaveAgents'
    <2>1. \A b \in Agents : agent[b].org # None => agent'[b].org # None
        BY <1>3, <1>6
    <2>2. \A t \in Servers : t # s => job'[t] = job[t]
        BY <1>1, <1>2 DEF FleetTypes
    <2>3. job'[s] = j /\ agent'[j.agent].org # None
        BY <1>1, <1>2, <1>3, <1>6 DEF FleetTypes
    <2>4. \A t \in Servers : job[t] # Idle => job[t].agent \in Agents
        BY <1>1, Busy DEF Job
    <2>. QED BY <2>1, <2>2, <2>3, <2>4 DEF FleetInv, JobsHaveAgents
<1>. QED BY <1>5, <1>7, <1>8, <1>9, <1>10 DEF FleetInv

LEMMA InsertKeeps ==
    ASSUME SaaSAssumption, FleetInv, NEW s \in Servers, Insert(s)
    PROVE  FleetInv'
<1> DEFINE o == job[s].org
           a == job[s].agent
           j == [job[s] EXCEPT !.step = NextStep(job[s].step, job[s].call)]
<1>1. FleetTypes /\ job[s].step = "insert" /\ job[s].step \in Steps /\ Advance(s)
    BY DEF FleetInv, Insert, At, Steps
<1>2. /\ job' = [job EXCEPT ![s] = j] /\ job[s] \in Job /\ j \in Job /\ j # Idle
      /\ j.step = "reports" /\ j.org = o /\ j.agent = a
    BY <1>1, AdvanceTyped DEF NextStep
<1>3. o \in Orgs /\ a \in Agents /\ o # None
    BY <1>2 DEF Job, SaaSAssumption
<1>4. /\ stored' = [stored EXCEPT ![o][a] = @ + 1]
      /\ agent' = IF agent[a].org = o THEN [agent EXCEPT ![a].status = "reporting"] ELSE agent
      /\ UNCHANGED <<usage, lost, acked>>
    BY DEF Insert, Updates
<1>5. agent[a].org # None
    BY <1>1, <1>2, Busy DEF FleetInv, JobsHaveAgents
<1> HIDE DEF j, o, a
<1>6. /\ stored' \in [Orgs -> [Agents -> Nat]] /\ stored'[o][a] > 0
      /\ \A p \in Orgs, b \in Agents : stored'[p][b] > 0 => stored[p][b] > 0 \/ (p = o /\ b = a)
      /\ \A p \in Orgs, b \in Agents : stored[p][b] > 0 => stored'[p][b] > 0
    BY <1>1, <1>3, <1>4 DEF FleetTypes
<1>7. /\ agent' \in [Agents -> [org : Orgs \cup {None}, status : {"active", "reporting"}]]
      /\ \A b \in Agents : agent'[b].org = agent[b].org
      /\ \A b \in Agents : agent'[b].status = "reporting" =>
             agent[b].status = "reporting" \/ (b = a /\ agent[a].org = o)
    BY <1>1, <1>3, <1>4 DEF FleetTypes
<1>8. FleetTypes'
    BY <1>1, <1>2, <1>4, <1>6, <1>7 DEF FleetTypes
<1>9. AgentsAreCounted' /\ AnsweredIsCounted'
    <2>1. \A p \in Orgs : Owing(p, "agents")' = Owing(p, "agents") /\ Answering(p)' = Answering(p)
        BY <1>1, <1>2 DEF Owing, Answering, FleetTypes
    <2>2. \A p \in Orgs : AgentsOf(p)' = AgentsOf(p)
        BY <1>7 DEF AgentsOf
    <2>. QED BY <1>4, <2>1, <2>2 DEF FleetInv, AgentsAreCounted, AnsweredIsCounted
<1>10. ReportingHasReported'
    BY <1>1, <1>3, <1>6, <1>7 DEF FleetInv, ReportingHasReported, FleetTypes
<1>11. ReportsHaveAgents'
    BY <1>5, <1>6, <1>7 DEF FleetInv, ReportsHaveAgents
<1>12. JobsHaveAgents'
    <2>1. \A t \in Servers : t # s => job'[t] = job[t]
        BY <1>1, <1>2 DEF FleetTypes
    <2>2. job'[s] = j /\ agent'[j.agent].org # None
        BY <1>1, <1>2, <1>3, <1>5, <1>7 DEF FleetTypes
    <2>3. \A t \in Servers : job[t] # Idle => job[t].agent \in Agents
        BY <1>1, Busy DEF Job
    <2>. QED BY <1>7, <2>1, <2>2, <2>3 DEF FleetInv, JobsHaveAgents
<1>. QED BY <1>8, <1>9, <1>10, <1>11, <1>12 DEF FleetInv

LEMMA RecordUsageKeeps ==
    ASSUME SaaSAssumption, FleetInv, NEW s \in Servers, RecordUsage(s)
    PROVE  FleetInv'
<1> DEFINE o == job[s].org
           j == [job[s] EXCEPT !.step = NextStep(job[s].step, job[s].call)]
<1>1. PICK m \in Metrics :
          /\ job[s].step = m
          /\ usage' = [usage EXCEPT ![o][m] = @ + 1]
          /\ Advance(s)
          /\ UNCHANGED <<agent, stored, lost, acked>>
    BY DEF RecordUsage, At
<1>2. FleetTypes /\ job[s].step \in Steps
    BY <1>1 DEF FleetInv, Metrics, Steps
<1>3. /\ job' = [job EXCEPT ![s] = j] /\ job[s] \in Job /\ j \in Job /\ j # Idle
      /\ j.step = NextStep(m, job[s].call) /\ j.call = job[s].call
      /\ j.org = o /\ j.agent = job[s].agent
    BY <1>1, <1>2, AdvanceTyped
<1>4. o \in Orgs /\ job[s] # Idle
    BY <1>2, <1>3, Busy DEF Job
<1>5. j.step \in {"insert", "answer"} /\ (m = "agents" /\ j.call = "report" => j.step = "insert")
    BY <1>1, <1>3 DEF NextStep, Metrics
<1> HIDE DEF j, o
<1>6. /\ usage' \in [Orgs -> [Metrics -> Nat]]
      /\ usage'[o][m] = usage[o][m] + 1
      /\ \A p \in Orgs, n \in Metrics : p # o \/ n # m => usage'[p][n] = usage[p][n]
    BY <1>1, <1>2, <1>4 DEF FleetTypes
<1>7. FleetTypes'
    BY <1>1, <1>2, <1>3, <1>6 DEF FleetTypes
<1>8. AgentsAreCounted'
    <2>. SUFFICES ASSUME NEW p \in Orgs
                  PROVE  Cardinality(AgentsOf(p)') <=
                           usage'[p]["agents"] + Cardinality(Owing(p, "agents")') + lost'[p]["agents"]
        BY DEF AgentsAreCounted
    <2>1. /\ Cardinality(Owing(p, "agents")) \in Nat
          /\ Cardinality(Owing(p, "agents")') + One(Owes(job[s], p, "agents"))
                = Cardinality(Owing(p, "agents")) + One(Owes(j, p, "agents"))
        BY <1>2, <1>3, OwingCount DEF Metrics
    <2>2. IsFiniteSet(Owing(p, "agents")')
        BY FS_Subset DEF SaaSAssumption, Owing
    <2>3. Cardinality(Owing(p, "agents")') \in Nat
        BY <2>2, FS_CardinalityType
    <2>4. One(Owes(j, p, "agents")) = 0
        BY <1>5 DEF Owes, One
    <2>5. One(Owes(job[s], p, "agents")) = One(p = o /\ m = "agents")
        BY <1>1, <1>4 DEF Owes, One, o
    <2>6. usage[p]["agents"] \in Nat /\ lost[p]["agents"] \in Nat /\ "agents" \in Metrics
        BY <1>2 DEF FleetTypes, Metrics
    <2>7. usage'[p]["agents"] = usage[p]["agents"] + One(p = o /\ m = "agents")
        BY <1>6, <2>6 DEF One
    <2>8. One(p = o /\ m = "agents") \in Nat
        BY DEF One
    <2>9. usage'[p]["agents"] + Cardinality(Owing(p, "agents")') =
              usage[p]["agents"] + Cardinality(Owing(p, "agents"))
        BY <2>1, <2>3, <2>4, <2>5, <2>6, <2>7, <2>8
    <2>10. AgentsOf(p)' = AgentsOf(p) /\ lost'[p]["agents"] = lost[p]["agents"]
        BY <1>1 DEF AgentsOf
    <2>. QED BY <2>9, <2>10 DEF FleetInv, AgentsAreCounted
<1>9. AnsweredIsCounted'
    <2>. SUFFICES ASSUME NEW p \in Orgs
                  PROVE  acked'[p] + Cardinality(Answering(p)') <= usage'[p]["reports"]
        BY DEF AnsweredIsCounted
    <2>1. /\ Cardinality(Answering(p)) \in Nat
          /\ Cardinality(Answering(p)') + One(Answers(job[s], p))
                = Cardinality(Answering(p)) + One(Answers(j, p))
        BY <1>2, <1>3, AnsweringCount
    <2>2. One(Answers(job[s], p)) = 0
        BY <1>1 DEF Answers, One, Metrics
    <2>3. IsFiniteSet(Answering(p)')
        BY FS_Subset DEF SaaSAssumption, Answering
    <2>4. Cardinality(Answering(p)') \in Nat
        BY <2>3, FS_CardinalityType
    <2>5. Answers(j, p) => p = o /\ m = "reports"
        BY <1>1, <1>3, <1>5 DEF Answers, Metrics
    <2>6. usage[p]["reports"] \in Nat /\ acked[p] \in Nat /\ "reports" \in Metrics /\ acked' = acked
        BY <1>1, <1>2 DEF FleetTypes, Metrics
    <2>7. usage'[p]["reports"] = usage[p]["reports"] + One(p = o /\ m = "reports")
        BY <1>6, <2>6 DEF One
    <2>8. One(Answers(j, p)) <= One(p = o /\ m = "reports")
          /\ One(Answers(j, p)) \in Nat /\ One(p = o /\ m = "reports") \in Nat
        BY <2>5 DEF One
    <2>9. acked[p] + Cardinality(Answering(p)) <= usage[p]["reports"]
        BY DEF FleetInv, AnsweredIsCounted
    <2>. QED BY <2>1, <2>2, <2>4, <2>6, <2>7, <2>8, <2>9
<1>10. ReportingHasReported' /\ ReportsHaveAgents'
    BY <1>1 DEF FleetInv, ReportingHasReported, ReportsHaveAgents
<1>11. JobsHaveAgents'
    <2>1. \A t \in Servers : t # s => job'[t] = job[t]
        BY <1>2, <1>3 DEF FleetTypes
    <2>2. job[s].step \notin {"look", "register"}
        BY <1>1 DEF Metrics
    <2>3. job'[s] = j /\ agent'[j.agent].org # None
        BY <1>1, <1>2, <1>3, <1>4, <2>2 DEF FleetTypes, FleetInv, JobsHaveAgents
    <2>. QED BY <1>1, <2>1, <2>3 DEF FleetInv, JobsHaveAgents
<1>. QED BY <1>7, <1>8, <1>9, <1>10, <1>11 DEF FleetInv

LEMMA AnswerKeeps ==
    ASSUME SaaSAssumption, FleetInv, NEW s \in Servers, Answer(s)
    PROVE  FleetInv'
<1> DEFINE o == job[s].org
<1>1. /\ job' = [job EXCEPT ![s] = Idle] /\ job[s].step = "answer" /\ job[s].step \in Steps
      /\ acked' = IF job[s].call = "report" THEN [acked EXCEPT ![o] = @ + 1] ELSE acked
      /\ UNCHANGED <<agent, stored, usage, lost>>
    BY DEF Answer, At, Steps
<1>2. FleetTypes
    BY DEF FleetInv
<1>3. job[s] \in Job /\ job[s] # Idle /\ o \in Orgs
    BY <1>1, <1>2, Busy DEF Job
<1>4. FleetTypes'
    BY <1>1, <1>2, <1>3 DEF FleetTypes
<1>5. AgentsAreCounted'
    <2>1. \A p \in Orgs : Owing(p, "agents")' = Owing(p, "agents")
        BY <1>1, <1>2 DEF Owing, FleetTypes
    <2>2. \A p \in Orgs : AgentsOf(p)' = AgentsOf(p)
        BY <1>1 DEF AgentsOf
    <2>. QED BY <1>1, <2>1, <2>2 DEF FleetInv, AgentsAreCounted
<1>6. AnsweredIsCounted'
    <2>. SUFFICES ASSUME NEW p \in Orgs
                  PROVE  acked'[p] + Cardinality(Answering(p)') <= usage'[p]["reports"]
        BY DEF AnsweredIsCounted
    <2>1. /\ Cardinality(Answering(p)) \in Nat
          /\ Cardinality(Answering(p)') + One(Answers(job[s], p))
                = Cardinality(Answering(p)) + One(Answers(Idle, p))
        BY <1>1, <1>2, AnsweringCount
    <2>2. One(Answers(Idle, p)) = 0
        BY DEF One, Answers
    <2>3. One(Answers(job[s], p)) = One(p = o /\ job[s].call = "report")
        BY <1>1, <1>3 DEF One, Answers
    <2>4. IsFiniteSet(Answering(p)')
        BY FS_Subset DEF SaaSAssumption, Answering
    <2>5. Cardinality(Answering(p)') \in Nat
        BY <2>4, FS_CardinalityType
    <2>6. usage[p]["reports"] \in Nat /\ acked[p] \in Nat /\ usage' = usage
        BY <1>1, <1>2 DEF FleetTypes, Metrics
    <2>7. acked'[p] = acked[p] + One(p = o /\ job[s].call = "report")
        BY <1>1, <1>2, <1>3, <2>6 DEF One, FleetTypes
    <2>8. One(p = o /\ job[s].call = "report") \in Nat
        BY DEF One
    <2>9. acked[p] + Cardinality(Answering(p)) <= usage[p]["reports"]
        BY DEF FleetInv, AnsweredIsCounted
    <2>. QED BY <2>1, <2>2, <2>3, <2>5, <2>6, <2>7, <2>8, <2>9
<1>7. ReportingHasReported' /\ ReportsHaveAgents'
    BY <1>1 DEF FleetInv, ReportingHasReported, ReportsHaveAgents
<1>8. JobsHaveAgents'
    BY <1>1, <1>2 DEF FleetInv, JobsHaveAgents, FleetTypes
<1>. QED BY <1>4, <1>5, <1>6, <1>7, <1>8 DEF FleetInv

LEMMA FailKeeps ==
    ASSUME SaaSAssumption, FleetInv, NEW s \in Servers, Fail(s)
    PROVE  FleetInv'
<1> DEFINE o == job[s].org
           m == job[s].step
<1>1. /\ job' = [job EXCEPT ![s] = Idle] /\ job[s] # Idle
      /\ lost' = IF m \in Metrics THEN [lost EXCEPT ![o][m] = @ + 1] ELSE lost
      /\ UNCHANGED <<agent, stored, usage, acked>>
    BY DEF Fail, AfterFault
<1>2. FleetTypes
    BY DEF FleetInv
<1>3. job[s] \in Job /\ o \in Orgs
    BY <1>1, <1>2, Busy DEF Job
<1> HIDE DEF o, m
<1>4. lost' \in [Orgs -> [Metrics -> Nat]]
    BY <1>1, <1>2, <1>3 DEF FleetTypes
<1>5. FleetTypes'
    BY <1>1, <1>2, <1>4 DEF FleetTypes
<1>6. AgentsAreCounted'
    <2>. SUFFICES ASSUME NEW p \in Orgs
                  PROVE  Cardinality(AgentsOf(p)') <=
                           usage'[p]["agents"] + Cardinality(Owing(p, "agents")') + lost'[p]["agents"]
        BY DEF AgentsAreCounted
    <2>1. /\ Cardinality(Owing(p, "agents")) \in Nat
          /\ Cardinality(Owing(p, "agents")') + One(Owes(job[s], p, "agents"))
                = Cardinality(Owing(p, "agents")) + One(Owes(Idle, p, "agents"))
        BY <1>1, <1>2, OwingCount DEF Metrics
    <2>2. One(Owes(Idle, p, "agents")) = 0
        BY DEF One, Owes
    <2>3. One(Owes(job[s], p, "agents")) = One(p = o /\ m = "agents")
        BY <1>1 DEF One, Owes, o, m
    <2>4. IsFiniteSet(Owing(p, "agents")')
        BY FS_Subset DEF SaaSAssumption, Owing
    <2>5. Cardinality(Owing(p, "agents")') \in Nat
        BY <2>4, FS_CardinalityType
    <2>6. usage[p]["agents"] \in Nat /\ lost[p]["agents"] \in Nat /\ "agents" \in Metrics
        BY <1>2 DEF FleetTypes, Metrics
    <2>7. lost'[p]["agents"] = lost[p]["agents"] + One(p = o /\ m = "agents")
        BY <1>1, <1>2, <1>3, <2>6 DEF One, FleetTypes
    <2>8. One(p = o /\ m = "agents") \in Nat
        BY DEF One
    <2>9. usage[p]["agents"] + Cardinality(Owing(p, "agents")') + lost'[p]["agents"] =
              usage[p]["agents"] + Cardinality(Owing(p, "agents")) + lost[p]["agents"]
        BY <2>1, <2>2, <2>3, <2>5, <2>6, <2>7, <2>8
    <2>10. AgentsOf(p)' = AgentsOf(p) /\ usage' = usage
        BY <1>1 DEF AgentsOf
    <2>. QED BY <2>9, <2>10 DEF FleetInv, AgentsAreCounted
<1>7. AnsweredIsCounted'
    <2>. SUFFICES ASSUME NEW p \in Orgs
                  PROVE  acked'[p] + Cardinality(Answering(p)') <= usage'[p]["reports"]
        BY DEF AnsweredIsCounted
    <2>1. /\ Cardinality(Answering(p)) \in Nat
          /\ Cardinality(Answering(p)') + One(Answers(job[s], p))
                = Cardinality(Answering(p)) + One(Answers(Idle, p))
        BY <1>1, <1>2, AnsweringCount
    <2>2. One(Answers(Idle, p)) = 0 /\ One(Answers(job[s], p)) \in Nat
        BY DEF One, Answers
    <2>3. IsFiniteSet(Answering(p)')
        BY FS_Subset DEF SaaSAssumption, Answering
    <2>4. Cardinality(Answering(p)') \in Nat
        BY <2>3, FS_CardinalityType
    <2>5. usage[p]["reports"] \in Nat /\ acked[p] \in Nat /\ UNCHANGED <<usage, acked>>
        BY <1>1, <1>2 DEF FleetTypes, Metrics
    <2>6. acked[p] + Cardinality(Answering(p)) <= usage[p]["reports"]
        BY DEF FleetInv, AnsweredIsCounted
    <2>. QED BY <2>1, <2>2, <2>4, <2>5, <2>6
<1>8. ReportingHasReported' /\ ReportsHaveAgents'
    BY <1>1 DEF FleetInv, ReportingHasReported, ReportsHaveAgents
<1>9. JobsHaveAgents'
    BY <1>1, <1>2 DEF FleetInv, JobsHaveAgents, FleetTypes
<1>. QED BY <1>5, <1>6, <1>7, <1>8, <1>9 DEF FleetInv

--------------------------------------------------------------------------------
(* The invariant. *)

LEMMA InitEstablishes ==
    ASSUME SaaSAssumption, Init
    PROVE  SaaSInv
<1>1. TenantInv /\ EventsHaveAccounts
    <2>1. sent \in Seq(Event) /\ Len(sent) = 0
        BY DEF Init
    <2>2. AccountTypes /\ BillingTypes
        BY <2>1 DEF Init, AccountTypes, BillingTypes
    <2>3. TenantsAreWhole
        BY DEF Init, TenantsAreWhole
    <2>4. EventsHaveAccounts
        BY <2>1 DEF EventsHaveAccounts
    <2>. QED BY <2>2, <2>3, <2>4 DEF TenantInv
<1>2. FleetTypes
    BY DEF Init, FleetTypes, Metrics
<1>3. AgentsAreCounted
    <2>. SUFFICES ASSUME NEW o \in Orgs
                  PROVE  Cardinality(AgentsOf(o)) <=
                           usage[o]["agents"] + Cardinality(Owing(o, "agents")) + lost[o]["agents"]
        BY DEF AgentsAreCounted
    <2>1. AgentsOf(o) = {} /\ Owing(o, "agents") = {}
        BY DEF Init, AgentsOf, Owing, SaaSAssumption
    <2>2. usage[o]["agents"] = 0 /\ lost[o]["agents"] = 0
        BY DEF Init, Metrics
    <2>3. Cardinality(AgentsOf(o)) = 0 /\ Cardinality(Owing(o, "agents")) = 0
        BY <2>1, FS_EmptySet
    <2>. QED BY <2>2, <2>3
<1>4. AnsweredIsCounted
    <2>. SUFFICES ASSUME NEW o \in Orgs
                  PROVE  acked[o] + Cardinality(Answering(o)) <= usage[o]["reports"]
        BY DEF AnsweredIsCounted
    <2>1. Answering(o) = {}
        BY DEF Init, Answering
    <2>2. usage[o]["reports"] = 0 /\ acked[o] = 0
        BY DEF Init, Metrics
    <2>3. Cardinality(Answering(o)) = 0
        BY <2>1, FS_EmptySet
    <2>. QED BY <2>2, <2>3
<1>5. ReportingHasReported /\ ReportsHaveAgents /\ JobsHaveAgents
    BY DEF Init, ReportingHasReported, ReportsHaveAgents, JobsHaveAgents
<1>6. Bounds
    BY DEF Init, Bounds, SaaSAssumption
<1>. QED BY <1>1, <1>2, <1>3, <1>4, <1>5, <1>6, InvTogether DEF FleetInv

LEMMA BoundsKept ==
    ASSUME SaaSAssumption, TenantInv, Bounds, [Next]_vars
    PROVE  Bounds'
<1>1. Len(sent) \in Nat /\ MaxRequests \in Nat /\ MaxFaults \in Nat
    BY DEF TenantInv, BillingTypes, SaaSAssumption
<1>2. CASE \E i \in due, outcome \in {"ok", "failed", "lost"} : Webhook(i, outcome)
    BY <1>1, <1>2 DEF Bounds, Webhook, fleetVars
<1>3. CASE \E s \in Servers, c \in {"register", "report"}, o \in Orgs, a \in Agents : Call(s, c, o, a)
    BY <1>1, <1>3 DEF Bounds, Call
<1>4. CASE \E s \in Servers : Fail(s)
    BY <1>1, <1>4 DEF Bounds, Fail
<1>5. CASE UNCHANGED <<calls, faults>>
    BY <1>5 DEF Bounds
<1>. QED
    BY <1>2, <1>3, <1>4, <1>5
    DEF Next, vars, fleetVars, Signup, CreateKey, Happen, Handle, Look, Register, Insert,
        RecordUsage, Answer

LEMMA NextKeeps ==
    ASSUME SaaSAssumption, SaaSInv, [Next]_vars
    PROVE  SaaSInv'
<1>1. FleetInv /\ TenantInv /\ Bounds
    BY InvTogether
<1>2. Bounds'
    BY <1>1, BoundsKept
<1>3. FleetInv' /\ TenantInv'
    <2>1. CASE \E u \in Users, o \in Orgs : Signup(u, o)
        BY <1>1, <2>1, SignupKeeps, FleetUntouched DEF Signup
    <2>2. CASE \E o \in Orgs : CreateKey(o)
        BY <1>1, <2>2, CreateKeyKeeps, FleetUntouched DEF CreateKey
    <2>3. CASE \E e \in Event : Happen(e)
        BY <1>1, <2>3, HappenKeeps, FleetUntouched DEF Happen
    <2>4. CASE \E i \in due, outcome \in {"ok", "failed", "lost"} : Webhook(i, outcome)
        BY <1>1, <2>4, WebhookKeeps, FleetUntouched DEF Webhook
    <2>5. CASE \E s \in Servers, c \in {"register", "report"}, o \in Orgs, a \in Agents : Call(s, c, o, a)
        BY <1>1, <2>5, CallKeeps, TenantsUntouched DEF Call
    <2>6. ASSUME NEW s \in Servers, Handle(s) \/ Fail(s)
          PROVE  FleetInv' /\ TenantInv'
        <3>1. FleetInv'
            BY <1>1, <2>6, LookKeeps, RegisterKeeps, InsertKeeps, RecordUsageKeeps, AnswerKeeps,
               FailKeeps DEF Handle
        <3>2. UNCHANGED <<accountVars, billingVars>>
            BY <2>6 DEF Handle, Look, Register, Insert, RecordUsage, Answer, Fail
        <3>. QED BY <1>1, <3>1, <3>2, TenantsUntouched
    <2>7. CASE UNCHANGED vars
        BY <1>1, <2>7, FleetUntouched, TenantsUntouched DEF vars
    <2>. QED BY <2>1, <2>2, <2>3, <2>4, <2>5, <2>6, <2>7 DEF Next
<1>4. TypeOK'
    BY <1>2, <1>3
    DEF FleetInv, TenantInv, TypeOK, AccountTypes, BillingTypes, FleetTypes, Bounds
<1>. QED BY <1>3, <1>4 DEF SaaSInv, FleetInv, TenantInv

(* The invariant holds in every reachable state. *)
THEOREM SaaSInvariant == Spec => []SaaSInv
<1>1. Init => SaaSInv
    BY SaaSAssumption, InitEstablishes
<1>2. SaaSInv /\ [Next]_vars => SaaSInv'
    BY SaaSAssumption, NextKeeps
<1>. QED BY <1>1, <1>2, PTL DEF Spec

(* The customer's plan and status are those of the billing, for any events   *)
(* of the provider in any order of delivery, and each organization has its   *)
(* own owner.                                                                *)
THEOREM TenantsTheorem == Spec => []TenantsAreWhole
BY SaaSInvariant, PTL DEF SaaSInv

(* For any number of servers that register the same agents for any           *)
(* organizations, no organization has more agents than were counted, will    *)
(* be counted or a fault took from the count.                                *)
THEOREM AgentsTheorem == Spec => []AgentsAreCounted
BY SaaSInvariant, PTL DEF SaaSInv

(* A report answered with 202 is in the usage of its organization.           *)
THEOREM AcknowledgedTheorem == Spec => []AcknowledgedIsCounted
<1>1. SaaSInv => AcknowledgedIsCounted
    <2>. SUFFICES ASSUME SaaSInv, NEW o \in Orgs
                  PROVE  acked[o] <= usage[o]["reports"]
        BY DEF AcknowledgedIsCounted
    <2>1. FleetTypes /\ acked[o] + Cardinality(Answering(o)) <= usage[o]["reports"]
        BY InvTogether DEF FleetInv, AnsweredIsCounted
    <2>2. IsFiniteSet(Answering(o))
        BY SaaSAssumption, FS_Subset DEF SaaSAssumption, Answering
    <2>3. Cardinality(Answering(o)) \in Nat
        BY <2>2, FS_CardinalityType
    <2>4. acked[o] \in Nat /\ usage[o]["reports"] \in Nat
        BY <2>1 DEF FleetTypes, Metrics
    <2>. QED BY <2>1, <2>3, <2>4
<1>. QED BY <1>1, SaaSInvariant, PTL

(* However servers interleave, an agent is shown as reporting only to an     *)
(* organization that has a report of it.                                     *)
THEOREM ReportingTheorem == Spec => []ReportingHasReported
BY SaaSInvariant, PTL DEF SaaSInv

(* The agent of every stored report is in the table of agents.               *)
THEOREM ReportsTheorem == Spec => []ReportsHaveAgents
BY SaaSInvariant, PTL DEF SaaSInv

(* The variables hold what they should. *)
THEOREM TypesTheorem == Spec => []TypeOK
BY SaaSInvariant, PTL DEF SaaSInv

--------------------------------------------------------------------------------
(* Sums over a finite set.  A proof by induction on the number of elements   *)
(* is one of the smallest set that would be a counterexample.                *)

LEMMA NatMin ==
    ASSUME NEW T, T \subseteq Nat, T # {}
    PROVE  \E n \in T : \A m \in T : n <= m
<1>1. IsWellFoundedOn(OpToRel(<, Nat), Nat)
    BY NatLessThanWellFounded
<1>2. PICK n \in T : \A m \in T : ~(<<m, n>> \in OpToRel(<, Nat))
    BY <1>1, WFMin, Zenon
<1>3. \A m, k \in Nat : m < k => <<m, k>> \in OpToRel(<, Nat)
    BY DEF OpToRel
<1>4. \A m \in T : ~(m < n)
    BY <1>2, <1>3
<1>. QED BY <1>4

Pick(s) == CHOOSE x \in s : TRUE

(* The partial sums of h over the sets D. *)
Sums(g, h, D) ==
    g = [s \in D |-> IF s = {} THEN 0 ELSE h[Pick(s)] + g[s \ {Pick(s)}]]

Small(S, n) == {s \in SUBSET S : Cardinality(s) <= n}

LEMMA PickRemoved ==
    ASSUME NEW S, IsFiniteSet(S), NEW s \in SUBSET S, s # {}
    PROVE  /\ Pick(s) \in s /\ s \ {Pick(s)} \in SUBSET S
           /\ Cardinality(s) \in Nat /\ Cardinality(s) # 0
           /\ Cardinality(s \ {Pick(s)}) = Cardinality(s) - 1
<1>1. IsFiniteSet(s)
    BY FS_Subset
<1>2. Pick(s) \in s
    BY DEF Pick
<1>. QED BY <1>1, <1>2, FS_CardinalityType, FS_EmptySet, FS_RemoveElement

LEMMA SumsExist ==
    ASSUME NEW S, IsFiniteSet(S), NEW h
    PROVE  \E g : Sums(g, h, SUBSET S)
<1> DEFINE Bad == {n \in Nat : ~ \E g : Sums(g, h, Small(S, n))}
<1>1. \A n \in Nat : n \notin Bad
    <2>. SUFFICES ASSUME Bad # {} PROVE FALSE
        OBVIOUS
    <2>1. PICK n \in Bad : \A m \in Bad : n <= m
        BY NatMin
    <2>2. PICK g : n # 0 => Sums(g, h, Small(S, n - 1))
        <3>1. n # 0 => n - 1 \in Nat /\ ~(n <= n - 1)
            BY <2>1
        <3>. QED BY <2>1, <3>1
    <2> DEFINE f == [s \in Small(S, n) |-> IF s = {} THEN 0 ELSE h[Pick(s)] + g[s \ {Pick(s)}]]
    <2>3. ASSUME NEW s \in Small(S, n), s # {}
          PROVE  f[s \ {Pick(s)}] = g[s \ {Pick(s)}]
        <3>1. /\ s \ {Pick(s)} \in SUBSET S /\ Cardinality(s \ {Pick(s)}) <= n - 1
              /\ n \in Nat /\ n # 0 /\ Cardinality(s \ {Pick(s)}) \in Int
            BY <2>1, <2>3, PickRemoved DEF Small
        <3>2. s \ {Pick(s)} \in Small(S, n) /\ s \ {Pick(s)} \in Small(S, n - 1)
            BY <3>1 DEF Small
        <3>3. Sums(g, h, Small(S, n - 1))
            BY <2>2, <3>1
        <3>. QED BY <3>2, <3>3 DEF Sums
    <2>4. Sums(f, h, Small(S, n))
        BY <2>3 DEF Sums
    <2>. QED BY <2>1, <2>4
<1>2. Cardinality(S) \in Nat
    BY FS_CardinalityType
<1>3. Small(S, Cardinality(S)) = SUBSET S
    BY FS_Subset DEF Small
<1>. QED BY <1>1, <1>2, <1>3

SumsOf(h, S) == CHOOSE g : Sums(g, h, SUBSET S)

LEMMA SumsAre ==
    ASSUME NEW S, IsFiniteSet(S), NEW h
    PROVE  /\ SumsOf(h, S)[{}] = 0
           /\ \A s \in SUBSET S : s # {} =>
                SumsOf(h, S)[s] = h[Pick(s)] + SumsOf(h, S)[s \ {Pick(s)}]
<1>1. SumsOf(h, S) = CHOOSE g : Sums(g, h, SUBSET S)
    BY DEF SumsOf
<1>2. Sums(SumsOf(h, S), h, SUBSET S)
    BY <1>1, SumsExist, Zenon
<1>. QED BY <1>2 DEF Sums

LEMMA ReportsAreSum ==
    ASSUME NEW o
    PROVE  ReportsOf(o) = SumsOf(stored[o], Agents)[Agents]
BY DEF ReportsOf, MapThenSumSet, MapThenFoldSet, SumsOf, Sums, Pick

(* A sum of numbers is a number, of zeros is zero, and has one more when one *)
(* of its terms has.                                                         *)
LEMMA SumIsNat ==
    ASSUME NEW S, IsFiniteSet(S), NEW h \in [S -> Nat]
    PROVE  \A s \in SUBSET S : SumsOf(h, S)[s] \in Nat
<1> DEFINE Sum(s) == SumsOf(h, S)[s]
           Bad == {n \in Nat : \E s \in SUBSET S : Cardinality(s) = n /\ Sum(s) \notin Nat}
<1>1. /\ Sum({}) = 0
      /\ \A s \in SUBSET S : s # {} => Sum(s) = h[Pick(s)] + Sum(s \ {Pick(s)})
    BY SumsAre
<1> HIDE DEF Sum
<1>2. ASSUME Bad # {} PROVE FALSE
    <2>1. PICK n \in Bad : \A m \in Bad : n <= m
        BY <1>2, NatMin
    <2>2. PICK s \in SUBSET S : Cardinality(s) = n /\ Sum(s) \notin Nat
        BY <2>1
    <2>3. s # {}
        BY <1>1, <2>2
    <2>4. /\ Pick(s) \in S /\ s \ {Pick(s)} \in SUBSET S
          /\ n \in Nat /\ n # 0 /\ Cardinality(s \ {Pick(s)}) = n - 1
        BY <2>2, <2>3, PickRemoved
    <2>5. Sum(s \ {Pick(s)}) \in Nat
        <3>1. n - 1 \notin Bad /\ n - 1 \in Nat
            BY <2>1, <2>4
        <3>. QED BY <2>4, <3>1
    <2>. QED BY <1>1, <2>2, <2>3, <2>4, <2>5
<1>3. ASSUME NEW s \in SUBSET S PROVE Sum(s) \in Nat
    <2>1. Cardinality(s) \in Nat
        BY FS_Subset, FS_CardinalityType
    <2>. QED BY <1>2, <2>1
<1>. QED BY <1>3 DEF Sum
LEMMA SumOfZeros ==
    ASSUME NEW S, IsFiniteSet(S), NEW h \in [S -> Nat], \A x \in S : h[x] = 0
    PROVE  \A s \in SUBSET S : SumsOf(h, S)[s] = 0
<1> DEFINE Sum(s) == SumsOf(h, S)[s]
           Bad == {n \in Nat : \E s \in SUBSET S : Cardinality(s) = n /\ Sum(s) # 0}
<1>1. /\ Sum({}) = 0
      /\ \A s \in SUBSET S : s # {} => Sum(s) = h[Pick(s)] + Sum(s \ {Pick(s)})
    BY SumsAre
<1> HIDE DEF Sum
<1>2. ASSUME Bad # {} PROVE FALSE
    <2>1. PICK n \in Bad : \A m \in Bad : n <= m
        BY <1>2, NatMin
    <2>2. PICK s \in SUBSET S : Cardinality(s) = n /\ Sum(s) # 0
        BY <2>1
    <2>3. s # {}
        BY <1>1, <2>2
    <2>4. /\ Pick(s) \in S /\ s \ {Pick(s)} \in SUBSET S
          /\ n \in Nat /\ n # 0 /\ Cardinality(s \ {Pick(s)}) = n - 1
        BY <2>2, <2>3, PickRemoved
    <2>5. Sum(s \ {Pick(s)}) = 0
        <3>1. n - 1 \notin Bad /\ n - 1 \in Nat
            BY <2>1, <2>4
        <3>. QED BY <2>4, <3>1
    <2>. QED BY <1>1, <2>2, <2>3, <2>4, <2>5
<1>3. ASSUME NEW s \in SUBSET S PROVE Sum(s) = 0
    <2>1. Cardinality(s) \in Nat
        BY FS_Subset, FS_CardinalityType
    <2>. QED BY <1>2, <2>1
<1>. QED BY <1>3 DEF Sum

LEMMA SumOfOneMore ==
    ASSUME NEW S, IsFiniteSet(S), NEW h \in [S -> Nat], NEW a \in S
    PROVE  SumsOf([h EXCEPT ![a] = @ + 1], S)[S] = SumsOf(h, S)[S] + 1
<1> DEFINE k == [h EXCEPT ![a] = @ + 1]
           Old(s) == SumsOf(h, S)[s]
           New(s) == SumsOf(k, S)[s]
           Right(s) == New(s) = Old(s) + One(a \in s)
           Bad == {n \in Nat : \E s \in SUBSET S : Cardinality(s) = n /\ ~Right(s)}
<1>1. k \in [S -> Nat] /\ \A x \in S : k[x] = h[x] + One(x = a)
    BY DEF One
<1>2. /\ Old({}) = 0
      /\ \A s \in SUBSET S : s # {} => Old(s) = h[Pick(s)] + Old(s \ {Pick(s)})
    BY SumsAre
<1>3. /\ New({}) = 0
      /\ \A s \in SUBSET S : s # {} => New(s) = k[Pick(s)] + New(s \ {Pick(s)})
    BY SumsAre
<1>4. \A s \in SUBSET S : Old(s) \in Nat
    BY SumIsNat
<1> HIDE DEF k, Old, New
<1>5. ASSUME Bad # {} PROVE FALSE
    <2>1. PICK n \in Bad : \A m \in Bad : n <= m
        BY <1>5, NatMin
    <2>2. PICK s \in SUBSET S : Cardinality(s) = n /\ ~Right(s)
        BY <2>1
    <2>3. s # {}
        BY <1>2, <1>3, <2>2 DEF One
    <2> DEFINE x == Pick(s)
               t == s \ {x}
    <2>4. /\ x \in s /\ x \in S /\ t \in SUBSET S
          /\ n \in Nat /\ n # 0 /\ Cardinality(t) = n - 1
        BY <2>2, <2>3, PickRemoved
    <2>5. Right(t)
        <3>1. n - 1 \notin Bad /\ n - 1 \in Nat
            BY <2>1, <2>4
        <3>. QED BY <2>4, <3>1
    <2>6. Old(s) = h[x] + Old(t) /\ New(s) = k[x] + New(t)
        BY <1>2, <1>3, <2>3
    <2>7. One(a \in s) = One(x = a) + One(a \in t)
        BY <2>4 DEF One
    <2>8. /\ h[x] \in Nat /\ Old(t) \in Nat /\ k[x] = h[x] + One(x = a)
          /\ One(x = a) \in Nat /\ One(a \in t) \in Nat
        BY <1>1, <1>4, <2>4 DEF One
    <2> HIDE DEF x, t
    <2>9. New(s) = Old(s) + One(a \in s)
        BY <2>5, <2>6, <2>7, <2>8
    <2>. QED BY <2>2, <2>9
<1>6. Cardinality(S) \in Nat
    BY FS_CardinalityType
<1>7. Right(S)
    BY <1>5, <1>6
<1>8. New(S) = Old(S) + 1
    BY <1>7 DEF One
<1>. QED BY <1>8 DEF k, Old, New

--------------------------------------------------------------------------------
(* Reports and what is charged for them. *)

LEMMA ReportsAreSums ==
    ASSUME NEW o
    PROVE  /\ ReportsOf(o) = SumsOf(stored[o], Agents)[Agents]
           /\ ReportsOf(o)' = SumsOf(stored'[o], Agents)[Agents]
BY DEF ReportsOf, MapThenSumSet, MapThenFoldSet, SumsOf, Sums, Pick

LEMMA ReportsCount ==
    ASSUME SaaSAssumption, FleetTypes, NEW o \in Orgs
    PROVE  /\ ReportsOf(o) \in Nat
           /\ stored' = stored => ReportsOf(o)' = ReportsOf(o)
           /\ \A p \in Orgs, a \in Agents : stored' = [stored EXCEPT ![p][a] = @ + 1] =>
                ReportsOf(o)' = ReportsOf(o) + One(o = p)
<1>1. IsFiniteSet(Agents) /\ stored[o] \in [Agents -> Nat]
    BY DEF SaaSAssumption, FleetTypes
<1>2. ReportsOf(o) \in Nat
    BY <1>1, ReportsAreSums, SumIsNat
<1>3. ASSUME stored' = stored PROVE ReportsOf(o)' = ReportsOf(o)
    BY <1>3, ReportsAreSums
<1>4. ASSUME NEW p \in Orgs, NEW a \in Agents, stored' = [stored EXCEPT ![p][a] = @ + 1]
      PROVE  ReportsOf(o)' = ReportsOf(o) + One(o = p)
    <2>1. CASE o = p
        <3>1. stored'[o] = [stored[o] EXCEPT ![a] = @ + 1]
            BY <1>4, <2>1 DEF FleetTypes
        <3>2. SumsOf(stored'[o], Agents)[Agents] = SumsOf(stored[o], Agents)[Agents] + 1
            BY <1>1, <3>1, SumOfOneMore
        <3>. QED BY <2>1, <3>2, ReportsAreSums DEF One
    <2>2. CASE o # p
        <3>1. stored'[o] = stored[o]
            BY <1>4, <2>2 DEF FleetTypes
        <3>2. ReportsOf(o)' = ReportsOf(o)
            BY <3>1, ReportsAreSums
        <3>. QED BY <1>2, <2>2, <3>2 DEF One
    <2>. QED BY <2>1, <2>2
<1>. QED BY <1>2, <1>3, <1>4

(* A step of a server's handler keeps the account if it stores a report when *)
(* the handler comes to owe its count, and counts or loses one when it no    *)
(* longer does.                                                              *)
LEMMA AccountKept ==
    ASSUME SaaSAssumption, FleetTypes, FleetTypes', ReportsAreCounted,
           NEW s \in Servers, NEW j \in Job \cup {Idle}, job' = [job EXCEPT ![s] = j],
           \A o \in Orgs : ReportsOf(o)' = ReportsOf(o) + One(Owes(j, o, "reports")),
           \A o \in Orgs : usage'[o]["reports"] + lost'[o]["reports"] =
               usage[o]["reports"] + lost[o]["reports"] + One(Owes(job[s], o, "reports"))
    PROVE  ReportsAreCounted'
<1>. SUFFICES ASSUME NEW o \in Orgs
              PROVE  ReportsOf(o)' = usage'[o]["reports"] + Cardinality(Owing(o, "reports")')
                                       + lost'[o]["reports"]
    BY DEF ReportsAreCounted
<1>1. "reports" \in Metrics
    BY DEF Metrics
<1>2. /\ usage[o]["reports"] \in Nat /\ usage'[o]["reports"] \in Nat
      /\ lost[o]["reports"] \in Nat /\ lost'[o]["reports"] \in Nat
    BY <1>1 DEF FleetTypes
<1>3. /\ Cardinality(Owing(o, "reports")) \in Nat
      /\ Cardinality(Owing(o, "reports")') + One(Owes(job[s], o, "reports"))
            = Cardinality(Owing(o, "reports")) + One(Owes(j, o, "reports"))
    BY <1>1, OwingCount
<1>4. IsFiniteSet(Owing(o, "reports")')
    BY FS_Subset DEF SaaSAssumption, Owing
<1>5. Cardinality(Owing(o, "reports")') \in Nat
    BY <1>4, FS_CardinalityType
<1>6. ReportsOf(o) = usage[o]["reports"] + Cardinality(Owing(o, "reports")) + lost[o]["reports"]
    BY DEF ReportsAreCounted
<1>7. ReportsOf(o)' = ReportsOf(o) + One(Owes(j, o, "reports"))
    OBVIOUS
<1>8. usage'[o]["reports"] + lost'[o]["reports"] =
          usage[o]["reports"] + lost[o]["reports"] + One(Owes(job[s], o, "reports"))
    OBVIOUS
<1>9. One(Owes(j, o, "reports")) \in Nat /\ One(Owes(job[s], o, "reports")) \in Nat
    BY DEF One
<1>. QED BY <1>2, <1>3, <1>5, <1>6, <1>7, <1>8, <1>9

(* No report is stored, counted or lost. *)
LEMMA NothingCounted ==
    ASSUME SaaSAssumption, FleetTypes, FleetTypes', ReportsAreCounted,
           NEW s \in Servers, NEW j \in Job \cup {Idle}, job' = [job EXCEPT ![s] = j],
           stored' = stored,
           \A o \in Orgs : /\ usage'[o]["reports"] = usage[o]["reports"]
                           /\ lost'[o]["reports"] = lost[o]["reports"],
           j.step # "reports", job[s].step # "reports"
    PROVE  ReportsAreCounted'
<1>1. ASSUME NEW o \in Orgs
      PROVE  /\ ReportsOf(o)' = ReportsOf(o) + One(Owes(j, o, "reports"))
             /\ usage'[o]["reports"] + lost'[o]["reports"] =
                  usage[o]["reports"] + lost[o]["reports"] + One(Owes(job[s], o, "reports"))
    <2>1. One(Owes(j, o, "reports")) = 0 /\ One(Owes(job[s], o, "reports")) = 0
        BY DEF One, Owes
    <2>2. ReportsOf(o) \in Nat /\ ReportsOf(o)' = ReportsOf(o)
        BY ReportsCount
    <2>3. usage[o]["reports"] \in Nat /\ lost[o]["reports"] \in Nat
        BY DEF FleetTypes, Metrics
    <2>. QED BY <2>1, <2>2, <2>3
<1>. QED BY <1>1, AccountKept

LEMMA HandlerKeepsAccount ==
    ASSUME SaaSAssumption, FleetTypes, FleetTypes', ReportsAreCounted,
           NEW s \in Servers, Handle(s) \/ Fail(s)
    PROVE  ReportsAreCounted'
<1> DEFINE o == job[s].org
           a == job[s].agent
           after == NextStep(job[s].step, job[s].call)
           next == [job[s] EXCEPT !.step = after]
<1>1. job[s] \in Job /\ job[s] # Idle /\ o \in Orgs /\ a \in Agents
    <2>1. job[s].step \in Steps \/ job[s] # Idle
        BY DEF Handle, Look, Register, Insert, RecordUsage, Answer, Fail, At, Steps, Metrics
    <2>. QED BY <2>1, Busy DEF Job
<1>2. ASSUME Advance(s)
      PROVE  /\ job' = [job EXCEPT ![s] = next] /\ next \in Job
             /\ next.step = after /\ next.org = o
    <2>1. after \in Steps
        BY NextStepIsStep DEF Steps
    <2>2. job' = [job EXCEPT ![s].step = after]
        BY <1>2 DEF Advance, FleetTypes
    <2>. QED BY <1>1, <2>1, <2>2, StepTyped
<1>3. CASE Look(s)
    <2> DEFINE x == IF Known(o, a) THEN "insert" ELSE "register"
               j == [job[s] EXCEPT !.step = x]
    <2>1. x \in Steps /\ x # "reports"
        BY DEF Steps
    <2>2. job' = [job EXCEPT ![s].step = x] /\ UNCHANGED <<stored, usage, lost>>
          /\ job[s].step = "look"
        BY <1>3 DEF Look, At
    <2> HIDE DEF x
    <2>3. j \in Job /\ j.step = x /\ job' = [job EXCEPT ![s] = j]
        BY <1>1, <2>1, <2>2, StepTyped
    <2>. QED BY <2>1, <2>2, <2>3, NothingCounted
<1>4. CASE Register(s)
    <2>1. job[s].step = "register" /\ Advance(s) /\ UNCHANGED <<stored, usage, lost>>
        BY <1>4 DEF Register, At
    <2>2. after # "reports"
        BY <2>1 DEF NextStep
    <2>. QED BY <1>2, <2>1, <2>2, NothingCounted
<1>5. CASE Insert(s)
    <2>1. /\ job[s].step = "insert" /\ Advance(s) /\ UNCHANGED <<usage, lost>>
          /\ stored' = [stored EXCEPT ![o][a] = @ + 1]
        BY <1>5 DEF Insert, At
    <2>2. after = "reports"
        BY <2>1 DEF NextStep
    <2>3. /\ job' = [job EXCEPT ![s] = next] /\ next \in Job
          /\ next.step = "reports" /\ next.org = o /\ next # Idle
        BY <1>2, <2>1, <2>2 DEF Idle
    <2> HIDE DEF o, a, next, after
    <2>4. ASSUME NEW p \in Orgs
          PROVE  /\ ReportsOf(p)' = ReportsOf(p) + One(Owes(next, p, "reports"))
                 /\ usage'[p]["reports"] + lost'[p]["reports"] =
                      usage[p]["reports"] + lost[p]["reports"] + One(Owes(job[s], p, "reports"))
        <3>1. One(Owes(next, p, "reports")) = One(p = o)
            BY <2>3 DEF One, Owes
        <3>2. One(Owes(job[s], p, "reports")) = 0
            BY <2>1 DEF One, Owes
        <3>3. ReportsOf(p)' = ReportsOf(p) + One(p = o)
            BY <1>1, <2>1, ReportsCount
        <3>4. usage[p]["reports"] \in Nat /\ lost[p]["reports"] \in Nat
            BY DEF FleetTypes, Metrics
        <3>. QED BY <2>1, <3>1, <3>2, <3>3, <3>4
    <2>. QED BY <2>3, <2>4, AccountKept
<1>6. ASSUME NEW m \in Metrics, At(s, m), usage' = [usage EXCEPT ![o][m] = @ + 1],
             Advance(s), UNCHANGED <<stored, lost>>
      PROVE  ReportsAreCounted'
    <2>1. job[s].step = m /\ after # "reports"
        BY <1>6 DEF At, NextStep, Metrics
    <2>2. /\ job' = [job EXCEPT ![s] = next] /\ next \in Job
          /\ next.step # "reports" /\ next.org = o
        BY <1>2, <1>6, <2>1
    <2> HIDE DEF o, a, next, after
    <2>3. ASSUME NEW p \in Orgs
          PROVE  /\ ReportsOf(p)' = ReportsOf(p) + One(Owes(next, p, "reports"))
                 /\ usage'[p]["reports"] + lost'[p]["reports"] =
                      usage[p]["reports"] + lost[p]["reports"] + One(Owes(job[s], p, "reports"))
        <3>1. One(Owes(next, p, "reports")) = 0
            BY <2>2 DEF One, Owes
        <3>2. One(Owes(job[s], p, "reports")) = One(p = o /\ m = "reports")
            BY <1>1, <2>1 DEF One, Owes, o
        <3>3. ReportsOf(p)' = ReportsOf(p) /\ ReportsOf(p) \in Nat
            BY <1>6, ReportsCount
        <3>4. usage[p]["reports"] \in Nat /\ lost[p]["reports"] \in Nat /\ "reports" \in Metrics
            BY DEF FleetTypes, Metrics
        <3>5. usage'[p]["reports"] = usage[p]["reports"] + One(p = o /\ m = "reports")
            BY <1>1, <1>6, <3>4 DEF One, FleetTypes
        <3>6. One(p = o /\ m = "reports") \in Nat
            BY DEF One
        <3>. QED BY <1>6, <3>1, <3>2, <3>3, <3>4, <3>5, <3>6
    <2>. QED BY <2>2, <2>3, AccountKept
<1>7. CASE RecordUsage(s)
    BY <1>6, <1>7 DEF RecordUsage
<1>8. CASE Answer(s)
    <2>1. /\ job[s].step = "answer" /\ job' = [job EXCEPT ![s] = Idle]
          /\ UNCHANGED <<stored, usage, lost>>
        BY <1>8 DEF Answer, At
    <2>2. Idle.step # "reports"
        BY DEF Idle
    <2>. QED BY <2>1, <2>2, NothingCounted
<1>9. CASE Fail(s)
    <2> DEFINE m == job[s].step
    <2>1. /\ job' = [job EXCEPT ![s] = Idle] /\ UNCHANGED <<stored, usage>>
          /\ lost' = IF m \in Metrics THEN [lost EXCEPT ![o][m] = @ + 1] ELSE lost
        BY <1>9 DEF Fail, AfterFault
    <2> HIDE DEF m, o, a
    <2>2. ASSUME NEW p \in Orgs
          PROVE  /\ ReportsOf(p)' = ReportsOf(p) + One(Owes(Idle, p, "reports"))
                 /\ usage'[p]["reports"] + lost'[p]["reports"] =
                      usage[p]["reports"] + lost[p]["reports"] + One(Owes(job[s], p, "reports"))
        <3>1. One(Owes(Idle, p, "reports")) = 0
            BY DEF One, Owes
        <3>2. One(Owes(job[s], p, "reports")) = One(p = o /\ m = "reports")
            BY <1>1 DEF One, Owes, o, m
        <3>3. ReportsOf(p)' = ReportsOf(p) /\ ReportsOf(p) \in Nat
            BY <2>1, ReportsCount
        <3>4. usage[p]["reports"] \in Nat /\ lost[p]["reports"] \in Nat /\ "reports" \in Metrics
            BY DEF FleetTypes, Metrics
        <3>5. lost'[p]["reports"] = lost[p]["reports"] + One(p = o /\ m = "reports")
            BY <1>1, <2>1, <3>4 DEF One, FleetTypes
        <3>6. One(p = o /\ m = "reports") \in Nat
            BY DEF One
        <3>. QED BY <2>1, <3>1, <3>2, <3>3, <3>4, <3>5, <3>6
    <2>. QED BY <2>1, <2>2, AccountKept
<1>. QED BY <1>3, <1>4, <1>5, <1>7, <1>8, <1>9 DEF Handle

LEMMA CallKeepsAccount ==
    ASSUME SaaSAssumption, FleetTypes, FleetTypes', ReportsAreCounted, NEW s \in Servers,
           NEW c \in {"register", "report"}, NEW o \in Orgs, NEW a \in Agents, Call(s, c, o, a)
    PROVE  ReportsAreCounted'
<1> DEFINE j == [step |-> IF c = "register" THEN "register" ELSE "look",
                 call |-> c, org |-> o, agent |-> a]
<1>1. j \in Job /\ j.step # "reports"
    BY DEF Job, Steps
<1>2. /\ job[s].step # "reports" /\ job' = [job EXCEPT ![s] = j]
      /\ UNCHANGED <<stored, usage, lost>>
    BY DEF Call, Idle
<1>. QED BY <1>1, <1>2, NothingCounted

LEMMA NothingStored ==
    ASSUME SaaSAssumption, Init
    PROVE  ReportsAreCounted
<1>. SUFFICES ASSUME NEW o \in Orgs
              PROVE  ReportsOf(o) = usage[o]["reports"] + Cardinality(Owing(o, "reports"))
                                      + lost[o]["reports"]
    BY DEF ReportsAreCounted
<1>1. IsFiniteSet(Agents) /\ stored[o] \in [Agents -> Nat] /\ \A a \in Agents : stored[o][a] = 0
    BY DEF SaaSAssumption, Init
<1>2. ReportsOf(o) = 0
    BY <1>1, SumOfZeros, ReportsAreSums
<1>3. Owing(o, "reports") = {}
    BY DEF Init, Owing
<1>4. usage[o]["reports"] = 0 /\ lost[o]["reports"] = 0
    BY DEF Init, Metrics
<1>. QED BY <1>2, <1>3, <1>4, FS_EmptySet

(* A stored report is in the usage of its organization exactly once, is      *)
(* about to be, or a fault took its count, for any number of servers,        *)
(* agents and faults; and nothing else is charged as a report.               *)
THEOREM ReportsCountedTheorem == Spec => []ReportsAreCounted
<1>1. Init => ReportsAreCounted
    BY SaaSAssumption, NothingStored
<1>2. SaaSInv /\ SaaSInv' /\ ReportsAreCounted /\ [Next]_vars => ReportsAreCounted'
    <2>. SUFFICES ASSUME SaaSInv, SaaSInv', ReportsAreCounted, [Next]_vars
                  PROVE  ReportsAreCounted'
        OBVIOUS
    <2>1. FleetTypes /\ FleetTypes' /\ SaaSAssumption
        BY SaaSAssumption, TypesTogether DEF SaaSInv, TypeOK, FleetTypes
    <2>2. CASE UNCHANGED fleetVars
        <3>1. \A o \in Orgs : Owing(o, "reports")' = Owing(o, "reports")
            BY <2>2 DEF fleetVars, Owing
        <3>2. \A o \in Orgs : ReportsOf(o)' = ReportsOf(o)
            BY <2>1, <2>2, ReportsCount DEF fleetVars
        <3>. QED BY <2>2, <3>1, <3>2 DEF ReportsAreCounted, fleetVars
    <2>3. CASE \E s \in Servers, c \in {"register", "report"}, o \in Orgs, a \in Agents : Call(s, c, o, a)
        BY <2>1, <2>3, CallKeepsAccount
    <2>4. CASE \E s \in Servers : Handle(s) \/ Fail(s)
        BY <2>1, <2>4, HandlerKeepsAccount
    <2>5. CASE \/ \E u \in Users, o \in Orgs : Signup(u, o)
               \/ \E o \in Orgs : CreateKey(o)
               \/ \E e \in Event : Happen(e)
               \/ \E i \in due, outcome \in {"ok", "failed", "lost"} : Webhook(i, outcome)
        BY <2>2, <2>5 DEF Signup, CreateKey, Happen, Webhook
    <2>. QED BY <2>2, <2>3, <2>4, <2>5 DEF Next, vars
<1>. QED BY <1>1, <1>2, SaaSInvariant, PTL DEF Spec

--------------------------------------------------------------------------------
(* The refinement of UsageLedger. *)

(* The key of a call belongs to an organization with an account. *)
JobsHaveKeys == \A s \in Servers : job[s] # Idle => job[s].org \in keys

LEMMA JobsKeepKeys ==
    ASSUME FleetTypes, FleetTypes', JobsHaveKeys, [Next]_vars
    PROVE  JobsHaveKeys'
<1>1. CASE \E s \in Servers, c \in {"register", "report"}, o \in Orgs, a \in Agents : Call(s, c, o, a)
    BY <1>1 DEF Call, JobsHaveKeys, FleetTypes, accountVars
<1>2. ASSUME NEW s \in Servers, Handle(s) \/ Fail(s)
      PROVE  JobsHaveKeys'
    <2>1. keys' = keys
        BY <1>2 DEF Handle, Look, Register, Insert, RecordUsage, Answer, Fail, accountVars
    <2>2. job[s] \in Job /\ job[s] # Idle
        <3>1. job[s].step \in Steps \/ job[s] # Idle
            BY <1>2 DEF Handle, Look, Register, Insert, RecordUsage, Answer, Fail, At, Steps, Metrics
        <3>. QED BY <3>1, Busy
    <2>3. \/ job' = [job EXCEPT ![s] = Idle]
          \/ \E x \in Steps : job' = [job EXCEPT ![s].step = x]
        <3>1. ASSUME Advance(s) PROVE \E x \in Steps : job' = [job EXCEPT ![s].step = x]
            <4> DEFINE after == NextStep(job[s].step, job[s].call)
            <4>1. after \in Steps
                BY NextStepIsStep DEF Steps
            <4>2. job' = [job EXCEPT ![s].step = after]
                BY <3>1 DEF Advance, FleetTypes
            <4>. QED BY <4>1, <4>2
        <3>2. ASSUME Look(s) PROVE \E x \in Steps : job' = [job EXCEPT ![s].step = x]
            BY <3>2 DEF Look, Steps
        <3>3. Answer(s) \/ Fail(s) => job' = [job EXCEPT ![s] = Idle]
            BY DEF Answer, Fail, AfterFault
        <3>. QED BY <1>2, <3>1, <3>2, <3>3 DEF Handle, Register, Insert, RecordUsage
    <2>4. PICK j \in Job \cup {Idle} :
              job' = [job EXCEPT ![s] = j] /\ (j # Idle => j.org = job[s].org)
        <3>1. ASSUME NEW x \in Steps, job' = [job EXCEPT ![s].step = x]
              PROVE  LET j == [job[s] EXCEPT !.step = x]
                     IN  j \in Job /\ job' = [job EXCEPT ![s] = j] /\ j.org = job[s].org
            BY <2>2, <3>1, StepTyped
        <3>. QED BY <2>3, <3>1
    <2>5. \A t \in Servers : job'[t] # Idle => job[t] # Idle /\ job'[t].org = job[t].org
        BY <2>2, <2>4 DEF FleetTypes
    <2>. QED BY <2>1, <2>5 DEF JobsHaveKeys
<1>3. CASE UNCHANGED job /\ keys \subseteq keys'
    BY <1>3 DEF JobsHaveKeys
<1>. QED
    BY <1>1, <1>2, <1>3
    DEF Next, vars, accountVars, fleetVars, Signup, CreateKey, Happen, Webhook

(* What a handler's step does to what is owed. *)
NothingOwed(s, j)      == job[s].step \notin Metrics /\ j.step \notin Metrics
ComesToOwe(s, j, o, m) == Owes(j, o, m) /\ job[s].step \notin Metrics
Settles(s, j, o, m)    == Owes(job[s], o, m) /\ j.step \notin Metrics
OneMoreOwed(o, m)      == Owed' = [Owed EXCEPT ![o][m] = @ + 1]
OneLessOwed(o, m)      == Owed[o][m] > 0 /\ Owed' = [Owed EXCEPT ![o][m] = @ - 1]

LEMMA OwedChanges ==
    ASSUME SaaSAssumption, FleetTypes, NEW s \in Servers, NEW j \in Job \cup {Idle},
           job' = [job EXCEPT ![s] = j]
    PROVE  /\ NothingOwed(s, j) => Owed' = Owed
           /\ \A o \in Orgs, m \in Metrics :
                /\ ComesToOwe(s, j, o, m) => OneMoreOwed(o, m)
                /\ Settles(s, j, o, m) => OneLessOwed(o, m)
<1> DEFINE Count(o, m) == Cardinality(Owing(o, m))
           After(o, m) == Cardinality(Owing(o, m)')
<1>1. \A o \in Orgs, m \in Metrics :
          /\ Count(o, m) \in Nat
          /\ After(o, m) + One(Owes(job[s], o, m)) = Count(o, m) + One(Owes(j, o, m))
    BY OwingCount
<1>2. \A o \in Orgs, m \in Metrics : After(o, m) \in Nat
    <2>. TAKE o \in Orgs, m \in Metrics
    <2>1. IsFiniteSet(Owing(o, m)')
        BY FS_Subset DEF SaaSAssumption, Owing
    <2>. QED BY <2>1, FS_CardinalityType
<1>3. /\ Owed = [o \in Orgs |-> [m \in Metrics |-> Count(o, m)]]
      /\ Owed' = [o \in Orgs |-> [m \in Metrics |-> After(o, m)]]
    BY DEF Owed
<1> HIDE DEF Count, After
<1>4. ASSUME NothingOwed(s, j)
      PROVE  Owed' = Owed
    <2>1. \A o \in Orgs, m \in Metrics : After(o, m) = Count(o, m)
        BY <1>1, <1>2, <1>4 DEF NothingOwed, ComesToOwe, Settles, Owes, One
    <2>. QED BY <1>3, <2>1
<1>5. ASSUME NEW o \in Orgs, NEW m \in Metrics, ComesToOwe(s, j, o, m)
      PROVE  OneMoreOwed(o, m)
    <2>1. \A p \in Orgs, n \in Metrics : After(p, n) = IF p = o /\ n = m THEN Count(p, n) + 1 ELSE Count(p, n)
        BY <1>1, <1>2, <1>5 DEF NothingOwed, ComesToOwe, Settles, Owes, One
    <2>. QED BY <1>3, <2>1 DEF OneMoreOwed
<1>6. ASSUME NEW o \in Orgs, NEW m \in Metrics, Settles(s, j, o, m)
      PROVE  OneLessOwed(o, m)
    <2>1. \A p \in Orgs, n \in Metrics : After(p, n) = IF p = o /\ n = m THEN Count(p, n) - 1 ELSE Count(p, n)
        BY <1>1, <1>2, <1>6 DEF NothingOwed, ComesToOwe, Settles, Owes, One
    <2>2. Count(o, m) > 0
        BY <1>1, <1>2, <2>1
    <2>. QED BY <1>3, <2>1, <2>2 DEF OneLessOwed
<1>. QED BY <1>4, <1>5, <1>6

LEMMA LedgerInit ==
    ASSUME SaaSAssumption, Init
    PROVE  Ledger!Init
<1>1. Customers = {} /\ Owner = [a \in Agents |-> None]
    BY DEF Init, Customers, Owner
<1>2. \A o \in Orgs, m \in Metrics : Owing(o, m) = {}
    BY DEF Init, Owing
<1>3. Owed = [o \in Orgs |-> [m \in Metrics |-> 0]]
    BY <1>2, FS_EmptySet DEF Owed
<1>. QED BY <1>1, <1>3 DEF Init, Ledger!Init, Ledger!Zero, Ledger!Metrics, Metrics

(* Accounts and billing change whether an organization is a customer, and    *)
(* nothing else.                                                             *)
LEMMA AccountLedgerStep ==
    ASSUME SaaSInv,
           \/ \E u \in Users, o \in Orgs : Signup(u, o)
           \/ \E o \in Orgs : CreateKey(o)
           \/ \E e \in Event : Happen(e)
           \/ \E i \in due, outcome \in {"ok", "failed", "lost"} : Webhook(i, outcome)
    PROVE  [Ledger!Next]_(Ledger!vars)
<1>1. FleetInv /\ TenantInv
    BY InvTogether
<1>2. UNCHANGED <<Owner, stored, Owed, usage, lost, acked>>
    <2>1. UNCHANGED fleetVars
        BY DEF Signup, CreateKey, Happen, Webhook
    <2>2. \A o \in Orgs, m \in Metrics : Owing(o, m)' = Owing(o, m)
        BY <2>1 DEF fleetVars, Owing
    <2>. QED BY <2>1, <2>2 DEF fleetVars, Owner, Owed
<1>3. CASE \E u \in Users, o \in Orgs : Signup(u, o)
    <2>1. PICK u \in Users, o \in Orgs : Signup(u, o)
        BY <1>3
    <2>2. o \notin Customers
        BY <2>1 DEF Signup, Free, Customers
    <2>3. Customers' = Customers \cup {o}
        <3> DEFINE row == [owner |-> u, plan |-> Starter, status |-> "trialing"]
        <3>1. org' = [org EXCEPT ![o] = row] /\ row # None
            BY <2>1, NewRows, SaaSAssumption DEF Signup, SaaSAssumption, Statuses
        <3> HIDE DEF row
        <3>. QED BY <1>1, <3>1 DEF Customers, TenantInv, AccountTypes
    <2>. QED BY <1>2, <2>2, <2>3 DEF Ledger!Next, Ledger!Open
<1>4. CASE \E i \in due, outcome \in {"ok", "failed", "lost"} : Webhook(i, outcome)
    <2>1. PICK i \in due, outcome \in {"ok", "failed", "lost"} : Webhook(i, outcome)
        BY <1>4
    <2> DEFINE o == sent[i].org
               row == OrganizationAfter(sent[i])
    <2>2. i \in 1 .. Len(sent)
        BY <1>1 DEF TenantInv, BillingTypes
    <2>3. sent[i] \in Event /\ o \in Orgs /\ org[o] # None
        BY <1>1, <2>2, SentEvents DEF TenantInv, EventsHaveAccounts
    <2>4. org[o].owner \in Users
        BY <1>1, <2>3 DEF TenantInv, AccountTypes, Organization
    <2>5. row # None
        BY <2>3, <2>4, EventContents, NewRows, SaaSAssumption DEF OrganizationAfter
    <2>6. org' = org \/ org' = [org EXCEPT ![o] = row]
        BY <2>1 DEF Webhook
    <2> HIDE DEF o, row
    <2>7. Customers' = Customers
        BY <1>1, <2>3, <2>5, <2>6 DEF Customers, TenantInv, AccountTypes
    <2>. QED BY <1>2, <2>7 DEF Ledger!vars
<1>5. CASE UNCHANGED org
    BY <1>2, <1>5 DEF Ledger!vars, Customers
<1>. QED BY <1>3, <1>4, <1>5 DEF CreateKey, Happen, accountVars

(* A step that neither owes nor settles anything. *)
LEMMA HandlerStutters ==
    ASSUME SaaSAssumption, FleetTypes, NEW s \in Servers, NEW j \in Job \cup {Idle},
           job' = [job EXCEPT ![s] = j], NothingOwed(s, j),
           UNCHANGED <<Customers, agent, stored, usage, lost, acked>>
    PROVE  UNCHANGED Ledger!vars
<1>1. Owed' = Owed
    BY OwedChanges
<1>. QED BY <1>1 DEF Ledger!vars, Owner

LEMMA FleetLedgerStep ==
    ASSUME SaaSInv, JobsHaveKeys, NEW s \in Servers, Handle(s) \/ Fail(s)
    PROVE  [Ledger!Next]_(Ledger!vars)
<1> DEFINE o == job[s].org
           a == job[s].agent
           after == NextStep(job[s].step, job[s].call)
           next == [job[s] EXCEPT !.step = after]
<1>0. SaaSAssumption /\ FleetTypes /\ FleetInv /\ TenantInv
    BY SaaSAssumption, InvTogether DEF FleetInv
<1>1. job[s] \in Job /\ job[s] # Idle /\ o \in Orgs /\ a \in Agents
    <2>1. job[s].step \in Steps \/ job[s] # Idle
        BY DEF Handle, Look, Register, Insert, RecordUsage, Answer, Fail, At, Steps, Metrics
    <2>. QED BY <1>0, <2>1, Busy DEF Job
<1>2. o \in Customers
    BY <1>0, <1>1 DEF JobsHaveKeys, TenantInv, TenantsAreWhole, Customers
<1>3. UNCHANGED <<accountVars, Customers>>
    BY DEF Handle, Look, Register, Insert, RecordUsage, Answer, Fail, accountVars, Customers
<1>4. ASSUME Advance(s)
      PROVE  /\ job' = [job EXCEPT ![s] = next] /\ next \in Job /\ next # Idle
             /\ next.step = after /\ next.org = o
    <2>1. after \in Steps
        BY NextStepIsStep DEF Steps
    <2>2. job' = [job EXCEPT ![s].step = after]
        BY <1>4 DEF Advance, FleetTypes
    <2>. QED BY <1>0, <1>1, <2>1, <2>2, StepTyped
<1>5. CASE Look(s)
    <2> DEFINE x == IF Known(o, a) THEN "insert" ELSE "register"
               j == [job[s] EXCEPT !.step = x]
    <2>1. x \in Steps /\ x \notin Metrics
        BY DEF Steps, Metrics
    <2>2. /\ job' = [job EXCEPT ![s].step = x] /\ job[s].step \notin Metrics
          /\ UNCHANGED <<accountVars, agent, stored, usage, lost, acked>>
        BY <1>5 DEF Look, At, Metrics
    <2> HIDE DEF x
    <2>3. j \in Job /\ j.step = x /\ job' = [job EXCEPT ![s] = j]
        BY <1>0, <1>1, <2>1, <2>2, StepTyped
    <2>4. NothingOwed(s, j)
        BY <2>1, <2>2, <2>3 DEF NothingOwed
    <2> HIDE DEF o, a, j
    <2>5. UNCHANGED Ledger!vars
        BY <1>0, <1>3, <2>2, <2>3, <2>4, HandlerStutters
    <2>. QED BY <2>5
<1>6. CASE Register(s)
    <2>1. /\ job[s].step = "register" /\ Advance(s) /\ UNCHANGED <<stored, usage, lost, acked>>
          /\ agent' = [agent EXCEPT ![a] = [org |-> o, status |-> "active"]]
        BY <1>6 DEF Register, At
    <2>2. after = "agents" /\ job[s].step \notin Metrics /\ "agents" \in Metrics
        BY <2>1 DEF NextStep, Metrics
    <2>3. ComesToOwe(s, next, o, "agents")
        BY <1>4, <2>1, <2>2 DEF ComesToOwe, Owes
    <2>4. job' = [job EXCEPT ![s] = next] /\ next \in Job
        BY <1>4, <2>1
    <2> HIDE DEF o, a, next, after
    <2>5. OneMoreOwed(o, "agents")
        BY <1>0, <1>1, <2>2, <2>3, <2>4, OwedChanges
    <2>6. Owner' = [Owner EXCEPT ![a] = o]
        BY <1>0, <1>1, <2>1 DEF Owner, FleetTypes
    <2>7. Ledger!Register(o, a)
        BY <1>2, <1>3, <2>1, <2>5, <2>6 DEF Ledger!Register, OneMoreOwed
    <2>. QED BY <1>1, <2>7 DEF Ledger!Next
<1>7. CASE Insert(s)
    <2>1. /\ job[s].step = "insert" /\ Advance(s) /\ UNCHANGED <<usage, lost, acked>>
          /\ stored' = [stored EXCEPT ![o][a] = @ + 1]
          /\ agent' = agent \/ agent' = [agent EXCEPT ![a].status = "reporting"]
        BY <1>7 DEF Insert, At
    <2>2. after = "reports" /\ job[s].step \notin Metrics /\ "reports" \in Metrics
        BY <2>1 DEF NextStep, Metrics
    <2>3. ComesToOwe(s, next, o, "reports")
        BY <1>4, <2>1, <2>2 DEF ComesToOwe, Owes
    <2>4. job' = [job EXCEPT ![s] = next] /\ next \in Job
        BY <1>4, <2>1
    <2>5. agent[a].org # None
        BY <1>0, <1>1, <2>1 DEF FleetInv, JobsHaveAgents
    <2> HIDE DEF o, a, next, after
    <2>6. OneMoreOwed(o, "reports")
        BY <1>0, <1>1, <2>2, <2>3, <2>4, OwedChanges
    <2>7. Owner' = Owner /\ Owner[a] # None
        <3>1. ASSUME agent' = [agent EXCEPT ![a].status = "reporting"]
              PROVE  \A b \in Agents : agent'[b].org = agent[b].org
            <4>1. agent[a] \in [org : Orgs \cup {None}, status : {"active", "reporting"}]
                BY <1>0, <1>1 DEF FleetTypes
            <4>. QED BY <1>0, <3>1, <4>1 DEF FleetTypes
        <3>2. \A b \in Agents : agent'[b].org = agent[b].org
            BY <2>1, <3>1
        <3>. QED BY <1>1, <2>5, <3>2 DEF Owner
    <2>8. Ledger!Store(o, a)
        BY <1>2, <1>3, <2>1, <2>6, <2>7 DEF Ledger!Store, OneMoreOwed
    <2>. QED BY <1>1, <2>8 DEF Ledger!Next
<1>8. ASSUME NEW m \in Metrics, At(s, m), usage' = [usage EXCEPT ![o][m] = @ + 1],
             Advance(s), UNCHANGED <<agent, stored, lost, acked>>
      PROVE  [Ledger!Next]_(Ledger!vars)
    <2>1. job[s].step = m /\ after \notin Metrics
        BY <1>8 DEF At, NextStep, Metrics
    <2>2. job' = [job EXCEPT ![s] = next] /\ next \in Job /\ next.step \notin Metrics
        BY <1>4, <1>8, <2>1
    <2>3. Settles(s, next, o, m)
        BY <1>1, <2>1, <2>2 DEF Settles, Owes
    <2> HIDE DEF o, a, next, after
    <2>4. OneLessOwed(o, m)
        BY <1>0, <1>1, <2>2, <2>3, OwedChanges
    <2>5. Owner' = Owner
        BY <1>8 DEF Owner
    <2>6. Ledger!Charge(o, m)
        BY <1>3, <1>8, <2>4, <2>5 DEF Ledger!Charge, Ledger!Settle, OneLessOwed
    <2>. QED BY <1>1, <2>6 DEF Ledger!Next, Ledger!Metrics, Metrics
<1>9. CASE RecordUsage(s)
    BY <1>8, <1>9 DEF RecordUsage
<1>10. CASE Answer(s)
    <2>1. /\ job[s].step = "answer" /\ job' = [job EXCEPT ![s] = Idle]
          /\ UNCHANGED <<agent, stored, usage, lost>>
          /\ acked' = IF job[s].call = "report" THEN [acked EXCEPT ![o] = @ + 1] ELSE acked
        BY <1>10 DEF Answer, At
    <2>2. NothingOwed(s, Idle)
        BY <2>1 DEF NothingOwed, Idle, Metrics
    <2>3. Owed' = Owed
        BY <1>0, <2>1, <2>2, OwedChanges
    <2>4. Owner' = Owner
        BY <2>1 DEF Owner
    <2>5. CASE job[s].call = "report"
        <3>1. s \in Answering(o)
            BY <1>1, <2>1, <2>5 DEF Answering
        <3>2. IsFiniteSet(Answering(o))
            BY <1>0, FS_Subset DEF SaaSAssumption, Answering
        <3>3. Cardinality(Answering(o)) \in Nat /\ Cardinality(Answering(o)) # 0
            BY <3>1, <3>2, FS_CardinalityType, FS_EmptySet
        <3>4. acked[o] \in Nat /\ usage[o]["reports"] \in Nat
            BY <1>0, <1>1 DEF FleetTypes, Metrics
        <3>5. acked[o] + Cardinality(Answering(o)) <= usage[o]["reports"]
            BY <1>0, <1>1 DEF FleetInv, AnsweredIsCounted
        <3>6. acked[o] < usage[o]["reports"]
            BY <3>3, <3>4, <3>5
        <3>7. Ledger!Accept(o)
            BY <1>3, <2>1, <2>3, <2>4, <2>5, <3>6 DEF Ledger!Accept
        <3>. QED BY <1>1, <3>7 DEF Ledger!Next
    <2>6. CASE job[s].call # "report"
        <3>1. UNCHANGED Ledger!vars
            BY <1>3, <2>1, <2>3, <2>4, <2>6 DEF Ledger!vars
        <3>. QED BY <3>1
    <2>. QED BY <2>5, <2>6
<1>11. CASE Fail(s)
    <2> DEFINE m == job[s].step
    <2>1. /\ job' = [job EXCEPT ![s] = Idle] /\ UNCHANGED <<agent, stored, usage, acked>>
          /\ lost' = IF m \in Metrics THEN [lost EXCEPT ![o][m] = @ + 1] ELSE lost
        BY <1>11 DEF Fail, AfterFault
    <2>2. Idle.step \notin Metrics
        BY DEF Idle, Metrics
    <2>3. Owner' = Owner
        BY <2>1 DEF Owner
    <2>4. CASE m \in Metrics
        <3>1. Settles(s, Idle, o, m)
            BY <1>1, <2>2 DEF Settles, Owes
        <3> HIDE DEF o, a, m
        <3>2. OneLessOwed(o, m)
            BY <1>0, <1>1, <2>1, <2>2, <2>4, <3>1, OwedChanges
        <3>3. Ledger!Waive(o, m)
            BY <1>3, <2>1, <2>3, <2>4, <3>2 DEF Ledger!Waive, Ledger!Settle, OneLessOwed
        <3>. QED BY <1>1, <2>4, <3>3 DEF Ledger!Next, Ledger!Metrics, Metrics
    <2>5. CASE m \notin Metrics
        <3>1. NothingOwed(s, Idle)
            BY <2>2, <2>5 DEF NothingOwed
        <3>2. UNCHANGED Ledger!vars
            BY <1>0, <1>3, <2>1, <2>5, <3>1, HandlerStutters
        <3>. QED BY <3>2
    <2>. QED BY <2>4, <2>5
<1>. QED BY <1>5, <1>6, <1>7, <1>9, <1>10, <1>11 DEF Handle

LEMMA LedgerStep ==
    ASSUME SaaSInv, JobsHaveKeys, [Next]_vars
    PROVE  [Ledger!Next]_(Ledger!vars)
<1>1. CASE \E s \in Servers, c \in {"register", "report"}, o \in Orgs, a \in Agents : Call(s, c, o, a)
    <2>1. PICK s \in Servers, c \in {"register", "report"}, o \in Orgs, a \in Agents : Call(s, c, o, a)
        BY <1>1
    <2> DEFINE j == [step |-> IF c = "register" THEN "register" ELSE "look",
                     call |-> c, org |-> o, agent |-> a]
    <2>2. j \in Job /\ j.step \notin Metrics
        BY DEF Job, Steps, Metrics
    <2>3. /\ job[s].step \notin Metrics /\ job' = [job EXCEPT ![s] = j]
          /\ UNCHANGED <<accountVars, agent, stored, usage, lost, acked>>
        BY <2>1 DEF Call, Idle, Metrics
    <2>4. FleetTypes
        BY InvTogether DEF FleetInv
    <2>5. NothingOwed(s, j) /\ Customers' = Customers
        BY <2>2, <2>3 DEF NothingOwed, Customers, accountVars
    <2>6. UNCHANGED Ledger!vars
        BY <2>2, <2>3, <2>4, <2>5, SaaSAssumption, HandlerStutters
    <2>. QED BY <2>6
<1>2. CASE UNCHANGED vars
    <2>1. UNCHANGED Ledger!vars
        BY <1>2 DEF vars, accountVars, fleetVars, Ledger!vars, Customers, Owner, Owed, Owing
    <2>. QED BY <2>1
<1>. QED BY <1>1, <1>2, AccountLedgerStep, FleetLedgerStep DEF Next

(* For any number of servers, whose transactions interleave and fail at any  *)
(* point, the database behaves as the ledger of one careful clerk: whatever  *)
(* is charged was registered or stored before, is charged once or waived,    *)
(* and is charged before an agent is told that its report was accepted.      *)
THEOREM LedgerRefinement == Spec => ImplementsUsageLedger
<1>1. Init => Ledger!Init
    BY SaaSAssumption, LedgerInit
<1>2. Init => JobsHaveKeys
    BY DEF Init, JobsHaveKeys
<1>3. SaaSInv /\ SaaSInv' /\ JobsHaveKeys /\ [Next]_vars => JobsHaveKeys'
    <2>1. SaaSInv => FleetTypes
        BY TypesTogether DEF SaaSInv
    <2>2. SaaSInv' => FleetTypes'
        BY DEF SaaSInv, TypeOK, FleetTypes
    <2>. QED BY <2>1, <2>2, JobsKeepKeys
<1>4. SaaSInv /\ JobsHaveKeys /\ [Next]_vars => [Ledger!Next]_(Ledger!vars)
    BY LedgerStep
<1>. QED BY <1>1, <1>2, <1>3, <1>4, SaaSInvariant, PTL DEF Spec, ImplementsUsageLedger, Ledger!Spec

--------------------------------------------------------------------------------
(* What the provider still delivers. *)

(* The safety half of EventsAreApplied.  An event that names its             *)
(* organization and is not yet written will be delivered again: whatever     *)
(* fails in a delivery, only one that was committed ends its repetition.     *)
DueUntilApplied ==
    \A i \in 1 .. Len(sent) : sent[i].named => i \in due \cup applied

LEMMA HappenLeavesDue ==
    ASSUME TenantInv, DueUntilApplied, NEW e \in Event, Happen(e)
    PROVE  DueUntilApplied'
<1>1. sent \in Seq(Event) /\ Len(sent) \in Nat
    BY DEF TenantInv, BillingTypes
<1>2. sent' = Append(sent, e) /\ due' = due \cup {Len(sent) + 1} /\ applied' = applied
    BY DEF Happen
<1>3. /\ Len(sent') = Len(sent) + 1
      /\ \A i \in 1 .. Len(sent) : sent'[i] = sent[i]
    BY <1>1, <1>2
<1>4. 1 .. Len(sent') = (1 .. Len(sent)) \cup {Len(sent) + 1}
    BY <1>1, <1>3
<1>. QED BY <1>2, <1>3, <1>4 DEF DueUntilApplied

LEMMA WebhookLeavesDue ==
    ASSUME DueUntilApplied, NEW i \in due, NEW outcome \in {"ok", "failed", "lost"},
           Webhook(i, outcome)
    PROVE  DueUntilApplied'
<1>1. sent' = sent /\ due' = StillDue(i, outcome)
    BY DEF Webhook
<1>2. CASE outcome = "failed" \/ ~sent[i].named
    <2>1. applied' = applied /\ due \ {i} \subseteq due' /\ (outcome = "failed" => due' = due)
        BY <1>1, <1>2 DEF Webhook, StillDue
    <2>. QED BY <1>1, <1>2, <2>1 DEF DueUntilApplied
<1>3. CASE outcome # "failed" /\ sent[i].named
    <2>1. applied' = applied \cup {i} /\ due \ {i} \subseteq due'
        BY <1>1, <1>3 DEF Webhook, StillDue
    <2>. QED BY <1>1, <2>1 DEF DueUntilApplied
<1>. QED BY <1>2, <1>3

(* No event that names its organization is given up before it is written,    *)
(* whatever fails and in whatever order events are delivered.                *)
THEOREM NoEventGivenUp == Spec => []DueUntilApplied
<1>1. Init => DueUntilApplied
    BY DEF Init, DueUntilApplied
<1>2. SaaSInv /\ DueUntilApplied /\ [Next]_vars => DueUntilApplied'
    <2>. SUFFICES ASSUME SaaSInv, DueUntilApplied, [Next]_vars
                  PROVE  DueUntilApplied'
        OBVIOUS
    <2>1. TenantInv
        BY InvTogether
    <2>2. CASE UNCHANGED billingVars
        BY <2>2 DEF billingVars, DueUntilApplied
    <2>3. CASE \E e \in Event : Happen(e)
        BY <2>1, <2>3, HappenLeavesDue
    <2>4. CASE \E i \in due, outcome \in {"ok", "failed", "lost"} : Webhook(i, outcome)
        BY <2>4, WebhookLeavesDue
    <2>. QED
        BY <2>2, <2>3, <2>4
        DEF Next, vars, Signup, CreateKey, Call, Handle, Look, Register, Insert, RecordUsage,
            Answer, Fail
<1>. QED BY <1>1, <1>2, SaaSInvariant, PTL DEF Spec

================================================================================
