SPECIFICATION Spec
CONSTANTS
    e1 = e1
    e2 = e2
    e3 = e3
    e4 = e4
    p1 = p1
    p2 = p2
    k1 = k1
    k2 = k2
    core = core
    working = working
    None = None
    DefaultTier = working
    Tiers = {working, core}
    Ids = {e1, e2, e3, e4}
    Procs = {p1}
    Keys = {k1}
    Requests <- MixedRequests
    Seed = {e1, e2}
    MaxRev = 3
    MaxEntries = 3
    MaxChars = 6
INVARIANT TypeOK
INVARIANT WithinBudget
INVARIANT ForgottenIsCleared
INVARIANT CharCountOfATitle
PROPERTY ReplacedOnce
PROPERTY NeverRevived
