SPECIFICATION FairSpec
CONSTANTS
    h1 = h1
    t1 = t1
    d1 = d1
    d2 = d2
    u1 = u1
    p1 = p1
    Hosts = {}
    Tenants = {t1}
    Devices = {d1, d2}
    Unscored = {d2}
    Users = {u1}
    Pids = {}
    Limit = 2
    MaxTime = 2
    MaxInputs = 3
    MaxCycles = 0
    MaxMishaps = 0
PROPERTIES
    EveryRowIsStored
