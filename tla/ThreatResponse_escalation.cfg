SPECIFICATION Spec
CONSTANTS
    a1 = a1
    syn = syn
    udp = udp
    IPs = {a1}
    AllowedAtStart = {}
    FloodTypes = {syn, udp}
    FirewallAllowed = {}
    AutoBlock = TRUE
    StoreMayFail = TRUE
    SuppressWindow = 1
    FirstBlock = 2
    SecondBlock = 3
    LongestBlock = 3
    MaxOffences = 4
    MaxHistory = 4
SYMMETRY FloodSymmetry
INVARIANTS
    AllowlistIsSafe
    ThirdFloodIsPermanent
    MultiVectorIsPermanent
    HistoryIsStored
PROPERTIES
    BlocksWeakenForAReason
