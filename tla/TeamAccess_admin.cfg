SPECIFICATION FairSpec
CONSTANTS
    admin = admin
    bob = bob
    boot = boot
    other = other
    Names = {admin, bob}
    Admin = admin
    Dotted = {}
    Passwords = {boot, other}
    Bootstrap = boot
    MaxAttempts = 2
    Window = 2
    Lifetime = 2
    Faults <- AllFaults
    MaxChanges = 2
INVARIANTS
    TypeOK
    HasMembers
    AdminRemains
    AcknowledgedIsSaved
    GuessesAreLimited
PROPERTIES
    ThrottleEnds
