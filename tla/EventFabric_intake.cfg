SPECIFICATION FairSpec
CONSTANTS
    h1 = h1
    t1 = t1
    d1 = d1
    d2 = d2
    u1 = u1
    p1 = p1
    Hosts = {h1}
    Tenants = {t1}
    Devices = {}
    Unscored = {}
    Users = {u1}
    Pids = {p1}
    Limit = 2
    MaxTime = 2
    MaxInputs = 2
    MaxCycles = 1
    MaxMishaps = 2
INVARIANTS
    GraphIsWhatItSaw
    LastSeenIsLatest
    GraphHasEvidence
    CurrentUnlessLate
PROPERTIES
    RowsReachGraph
