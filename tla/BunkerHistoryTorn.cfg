SPECIFICATION Spec
CONSTANTS
    IDs = {i1, i2, i3}
    MaxTail = 2
    MaxMishaps = 2
    TornWrites = TRUE
    MaxErrors = 0
    SlowAdded = FALSE
CHECK_DEADLOCK FALSE
INVARIANT
    TornWriteTolerated
