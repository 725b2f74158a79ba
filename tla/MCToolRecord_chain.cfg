SPECIFICATION Spec
CONSTANTS
    c1 = c1
    c2 = c2
    t1 = t1
    t2 = t2
    x1 = x1
    x2 = x2
    NoCall = NoCall
    Calls = {c1, c2}
    Txs = {t1, t2}
    Executors = {}
    Signing = "hmac"
    Auditing = TRUE
    Outcomes = {"allow", "dry", "deny", "pending", "executed", "failed", "timeout", "blocked"}
    MaxEvents = 2
    MaxFaults = 1
SYMMETRY Symmetry
INVARIANTS TypeOK ChainVerifies DamageReported AlarmMeansMoved
PROPERTIES ImplementsAuditLog
