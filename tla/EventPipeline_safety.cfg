SPECIFICATION Spec
CONSTANTS
    e1 = e1
    e2 = e2
    r1 = r1
    NoTask = NoTask
    Events = {e1}
    Requests = {r1}
    Batch <- OneEvent
    Workers = {w1, w2}
    Detected = {e1}
    Poison = {}
    MaxRetries = 1
    MaxRedeliveries = 1
    Faults = {"store", "status", "broker", "downstream", "crash"}
SYMMETRY WorkerSymmetry
INVARIANTS
    ResultIsAtomic
    OneLifecycleRow
PROPERTIES
    IncidentIsStable
    ImplementsLedger
CHECK_DEADLOCK FALSE
