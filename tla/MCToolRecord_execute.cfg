SPECIFICATION FairSpec
CONSTANTS
    c1 = c1
    c2 = c2
    t1 = t1
    t2 = t2
    x1 = x1
    x2 = x2
    NoCall = NoCall
    Calls = {c1, c2}
    Txs = {t1, t2}
    Executors = {x1, x2}
    Signing = "ed25519"
    Auditing = FALSE
    Outcomes = {"allow", "executed", "blocked"}
    MaxEvents = 2
    MaxFaults = 1
INVARIANTS RunsOnce
PROPERTIES TxsEnd
