SPECIFICATION Spec
CONSTANTS
    IPs = {a1}
    NoAddress = NoAddress
    IpsTakesCall = FALSE
    Scores <- EventScores
    AlertScore <- MediumAlert
    SuspiciousAt <- SuspicionTen
    IsolateAt <- IsolationTen
    MaxAge = 2
    MaxScore = 12
    MaxStarts = 2
INVARIANTS IsolatedIsSevered
