SPECIFICATION Spec
CONSTANTS
    None = None
    Requests = {r1, r2}
    Ids = {i1, i2}
    Actors = {a1, a2}
    DefaultActor = a0
    MaxRequests = 4
INVARIANT ActsAsItsSession
