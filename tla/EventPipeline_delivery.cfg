SPECIFICATION FairSpec
CONSTANTS
    e1 = e1
    e2 = e2
    r1 = r1
    NoTask = NoTask
    Events = {e1, e2}
    Requests = {r1}
    Batch <- OneBatch
    Workers = {w1, w2}
    Detected = {e1}
    Poison = {e2}
    MaxRetries = 2
    MaxRedeliveries = 0
    Faults = {"store", "broker", "crash", "downstream"}
INVARIANTS
    NoSilentLoss
PROPERTIES
    AcceptedIsSettled
CHECK_DEADLOCK FALSE
