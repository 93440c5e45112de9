CONSTANTS
    Servers = {s1, s2}
    Orgs = {acme, globex}
    Users = {ann, ben}
    Agents = {a1}
    Plans = {"starter", "growth"}
    Starter = "starter"
    None = none
    MaxRequests = 3
    MaxEvents = 2
    MaxFaults = 1
SPECIFICATION FairSpec
INVARIANTS
    TenantsAreWhole
    ReportsAreCounted
    AgentsAreCounted
    AcknowledgedIsCounted
    ReportingHasReported
PROPERTIES
    ImplementsUsageLedger
    EventsAreApplied
CHECK_DEADLOCK FALSE
