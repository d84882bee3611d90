SPECIFICATION MCSpec
CONSTANTS
    Parts = {"history", "failing", "feed", "jobs", "crashes", "command", "restart", "membership", "doors", "config", "admin", "tokens", "samples", "huddle", "call", "chat", "late"}
    IDs = {i1, i2, i3}
    \* Three admin requests, two at a time.
    Pubkeys = {"p", "q"}
    Roles = {"r"}
    Codes = {"c"}
    Ops = {"o1", "o2"}
    MaxOps = 3
    MaxNow = 3
    Policy <- MCPolicy
    Absent = 99
    Limits <- MCLimits
    AdminKinds = {"add", "remove", "assign", "unassign", "invite", "revoke", "huddle"}
    \* Two requests, through either door.
    Keys = {"admin", "m"}
    Admins = {"admin"}
    DoorCodes = {"made", "strong", "weak"}
    WeakCodes = {"weak"}
    Expiries = {0, 2, 5}
    TTL = 1
    MaxTTL = 2
    Uses = 0
    Reqs = {1, 2}
    MaxRequests = 2
    MaxDoorNow = 2
    \* Two signed events, two addresses, tables of one entry.
    Addrs = {"x", "y"}
    SignedEvents <- MCSignedEvents
    Validity = 1
    ReplayWindow = 2
    SessionTTL = 1
    MaxSessions = 1
    FailLimit = 2
    FailWindow = 1
    MaxFailedAddr = 1
    MaxTime = 4
    MaxLogins = 2
    \* Two tokens and four writes of the file.
    Tokens = {"a", "b"}
    MaxWrites = 4
    Faults = {"edit", "chmod", "restore"}
    \* Two profiles, two rebuilds and two faults.
    Profiles = {"p", "q"}
    MaxChanges = 2
    MaxInFlight = 2
    MaxRebuilds = 2
    MaxFaults = 2
    \* Three sessions that contend for one index.
    None = None
    Sessions = {"s1", "s2", "s3"}
    PubkeyOf <- MCPubkeyOf
    Indexes = {1}
    RoomFaults = {"refuse", "write"}
    FrameBuffer = 1
    MaxFrames = 2
    \* Three tracks and three candidates.
    Tracks = {"t1", "t2", "t3"}
    Local = {"l1"}
    Remote = {"r1", "r2"}
    MaxPending = 2
INVARIANTS
    ReadyIsComplete
    
    
    ChartsKept
    HuddlesTruthful
    HistoryKept

    
    
    
SYMMETRY Symmetry
