SPECIFICATION FairSpec
CONSTANTS
    p1 = p1
    Agents = {p1}
    Window = 2
    ProbeKeep = 2
    BaseKeep = 3
    MaxLate = 1
    Faults <- AllFaults
    MaxReports = 4
    MaxCount = 1
INVARIANTS
    AckedIsSaved
PROPERTIES
    WindowArrives
    ResentIsKept
    BaseCatchesUp
