SPECIFICATION Spec
CONSTANTS
    w1 = w1
    w2 = w2
    c1 = c1
    c2 = c2
    k1 = k1
    k2 = k2
    d1 = d1
    d2 = d2
    o1 = o1
    o2 = o2
    None = None
    Workers = {w1, w2}
    Clients = {c1, c2}
    Keys = {k1, k2}
    Digests = {d1, d2}
    Unhandled = {k2}
    Outs = {o1}
    MaxJobs = 2
    MaxLate = 0
    MaxCrashes = 0
    MaxRetries = 0
INVARIANT EnqueueIdempotent
SYMMETRY QueueSymm
