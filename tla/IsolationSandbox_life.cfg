SPECIFICATION FairSpec
CONSTANTS
    IPs = {a1}
    NoAddress = NoAddress
    IpsTakesCall = FALSE
    Scores <- EventScores
    AlertScore <- MediumAlert
    SuspiciousAt <- SuspicionTen
    IsolateAt <- IsolationTen
    MaxAge = 1
    MaxScore = 20
    MaxStarts = 2
INVARIANTS
    ThresholdsAreActedOn
    IsolatedOnce
PROPERTIES
    IsolatedIsForgotten
