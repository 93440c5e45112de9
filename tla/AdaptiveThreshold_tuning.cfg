SPECIFICATION FairSpec
CONSTANTS
    EmergencyTicks = 5
    HighCount = 4
    ElevatedCount = 2
    HighFresh = 3
    ElevatedFresh = 2
    OperatorValues <- AskedFor
INVARIANTS
    TypeOK
    SensitiveForAReason
    LastEmergencyRecovers
PROPERTIES
    QuietRecovers
