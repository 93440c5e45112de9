SPECIFICATION Spec
CONSTANTS
    a1 = a1
    syn = syn
    udp = udp
    IPs = {a1}
    AllowedAtStart = {}
    FloodTypes = {syn}
    FirewallAllowed = {}
    AutoBlock = TRUE
    StoreMayFail = FALSE
    SuppressWindow = 1
    FirstBlock = 2
    SecondBlock = 3
    LongestBlock = 3
    MaxOffences = 3
    MaxHistory = 2
PROPERTIES MultiVectorStaysPermanent
