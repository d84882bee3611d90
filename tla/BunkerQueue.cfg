SPECIFICATION FairSpec
CONSTANTS
    IDs = {i1, i2}
    Calls = {c1, c2}
    Resolvers = {r1, r2}
    MaxPending = 1
    TTL = 1
    MaxTime = 1
    None = None
INVARIANTS
    RecordedBeforeAnswer
    AnswerIsTheDecision
    CapacityRespected
PROPERTIES
    ImplementsDecisions
    EveryCallReturns
