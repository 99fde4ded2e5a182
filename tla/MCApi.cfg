CONSTANTS
    g1 = g1
    g2 = g2
    g3 = g3
    h1 = h1
    h2 = h2
    Processes = {p1, p2}
    Params = {g1, g2, g3}
    Unfit = {g3}
    Hashes = {h1, h2}
    HashOf <- MCHashOf
    FirstUserId = 1
    MaxId = 3
    MaxCommit = 2
    None = None
SPECIFICATION MCSpec
INVARIANTS
    EmptyOrComplete
    OpenedMatches
    MeaningsKept
PROPERTIES
    InitialisedOnce
    EveryOpenReturns
