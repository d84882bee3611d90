SPECIFICATION Spec
CONSTANTS
    Events = {e1, e2}
    Concurrency = 2
    BufferSize = 2
    HistorySize = 4
    MaxCopies = 3
    MaxCycles = 1
    MaxStray = 0
INVARIANT
    EverySlotTracked
CHECK_DEADLOCK FALSE
