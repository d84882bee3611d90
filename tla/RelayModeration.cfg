SPECIFICATION FairSpec
CONSTANTS
    Callers = {c1, c2}
    IDs = {id}
    Pubkeys = {alice, relay}
    Kinds = {k1}
    Self = relay
    Addrs = {ip}
    Names = {n1}
    Name0 = n0
    MaxCalls = 3
    MaxStores = 1
    MaxCrashes = 1
    Faults = {"save", "delete"}
INVARIANTS
    AckedBansHold
    BannedEventsGone
PROPERTY
    NameIsPublished
CHECK_DEADLOCK FALSE
