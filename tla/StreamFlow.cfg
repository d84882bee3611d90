SPECIFICATION FairSpec
CONSTANTS
    Events = {e1, e2}
    Concurrency = 2
    BufferSize = 1
    HistorySize = 1
    MaxCopies = 3
    MaxCycles = 2
    MaxStray = 1
INVARIANTS
    EveryEventAccounted
    TrackedHoldSlots
PROPERTIES
    FatesFinal
    
CHECK_DEADLOCK FALSE
