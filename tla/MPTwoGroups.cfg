SPECIFICATION Spec
CONSTANTS
    p1 = p1
    p2 = p2
    q1 = q1
    q2 = q2
    k1 = k1
    k2 = k2
    working = working
    None = None
    Ids = {1, 2, 3, 4}
    Tiers = {working}
    Procs = {p1}
    Plans = {q1}
    Keys = {k1, k2}
    Tier = working
    Texts = {3}
    MaxRev = 2
    Seed <- TwoPairs
INVARIANT WholeOrNothing
SYMMETRY Symm
