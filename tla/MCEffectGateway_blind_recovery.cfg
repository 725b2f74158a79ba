SPECIFICATION Spec
CONSTANTS
    p1 = p1 p2 = p2 g1 = g1 g2 = g2 s1 = s1 s2 = s2 n1 = n1 n2 = n2
    NoPermit = NoPermit
    Permits = {p1}
    Gateways = {g1}
    Slots = {s1, s2}
    HomeOf <- OneHome
    Nonces = {n1}
    NonceOf <- OneNonce
    Issued <- AtZero
    Expires <- OneTick
    DurableReplay = TRUE
    Journaling = TRUE
    Retention = 0
    Skew = 0
    MaxStall = 4
    ExecutorMayThrow = TRUE
    MaxClock = 1
    MaxCrashes = 1
    MaxOutages = 1
PROPERTIES
    ServesRecovered
