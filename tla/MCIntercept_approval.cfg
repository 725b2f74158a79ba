SPECIFICATION Spec
CONSTANTS
    ask = ask
    again = again
    other = other
    stray = stray
    probe = probe
    d1 = d1
    d2 = d2
    s1 = s1
    s2 = s2
    k1 = k1
    k2 = k2
    m1 = m1
    m2 = m2
    NoRequest = NoRequest
    NoDecider = NoDecider
    Slots = {s1, s2}
    Requests = {ask, again, other, stray}
    Auth <- AuthOf
    Scope <- ScopeOf
    DryRun = {}
    RiskOf <- RiskFor
    Deciders = {d1, d2}
    Switches = {}
    Stops <- EverySwitch
    Budgets = {}
    RateLimits = {}
    Covers <- EveryMeter
    Limit <- One
    MaxWindows = 1
    MaxFaults = 1
SYMMETRY Symmetry
INVARIANTS TypeOK ApprovalSpentOnce AllowNeedsApproval AnswersAgree
