SPECIFICATION Spec
CONSTANTS
    IDs = {i1}
    Calls = {c1, c2}
    Resolvers = {r1}
    MaxPending = 1
    TTL = 1
    MaxTime = 2
    None = None
INVARIANT
    DuplicatesShareDecision
