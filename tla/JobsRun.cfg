SPECIFICATION FairSpec
CONSTANTS
    w1 = w1
    w2 = w2
    c1 = c1
    c2 = c2
    k1 = k1
    k2 = k2
    d1 = d1
    d2 = d2
    o1 = o1
    o2 = o2
    None = None
    Workers = {w1, w2}
    Clients = {c1}
    Keys = {k1}
    Digests = {d1}
    Unhandled = {}
    Outs = {o1, o2}
    MaxJobs = 1
    MaxLate = 1
    MaxCrashes = 1
    MaxRetries = 1
INVARIANT TypeOK
INVARIANT RunningIffLeased
INVARIANT AttemptsAreUnique
INVARIANT SucceededHasOutputs
PROPERTY LeaseRespected
PROPERTY LedgerOfJobs
PROPERTY JobsSettle
