SPECIFICATION FairSpec
CONSTANTS
    p1 = p1 p2 = p2 g1 = g1 g2 = g2 s1 = s1 s2 = s2 n1 = n1 n2 = n2
    NoPermit = NoPermit
    Permits = {p1}
    Gateways = {g1, g2}
    Slots = {s1, s2}
    HomeOf <- TwoHomes
    Nonces = {n1}
    NonceOf <- OneNonce
    Issued <- AtZero
    Expires <- OneTick
    DurableReplay = TRUE
    Journaling = TRUE
    Retention = 0
    Skew = 0
    MaxStall = 2
    ExecutorMayThrow = TRUE
    MaxClock = 2
    MaxCrashes = 2
    MaxOutages = 1
INVARIANTS
    TypeOK AtMostOnce JournalTruthful AnswerBacked ReceiptsTruthful
PROPERTIES
    ImplementsEffectOnce CallsEnd BootsComplete RowsResolve
