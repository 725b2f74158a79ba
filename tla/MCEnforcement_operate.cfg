SPECIFICATION FairEither
CONSTANTS
    ask = ask
    again = again
    other = other
    stray = stray
    probe = probe
    d1 = d1
    d2 = d2
    s1 = s1
    s2 = s2
    k1 = k1
    k2 = k2
    m1 = m1
    m2 = m2
    NoRequest = NoRequest
    NoDecider = NoDecider
    NoPermit = NoPermit
    Deployments = {"journal", "guard", "single"}
    Slots = {s1, s2}
    Requests = {ask, probe}
    Auth <- NoAuth
    Scope <- ScopeOf
    DryRun = {}
    RiskOf <- AllHigh
    Deciders = {}
    Switches = {k1}
    Stops <- AgentSwitch
    Budgets = {m1}
    RateLimits = {m2}
    Covers <- EveryMeter
    Limit <- One
    MaxWindows = 2
    MaxFaults = 1
INVARIANTS NoOverspend PromisesKept
PROPERTIES KillHolds CallsEnd RecoveryFirst
