SPECIFICATION MCSpec
CONSTANTS
    Parts = {"follow", "session", "targets", "negsync", "run", "boards", "vault", "identity", "files", "list", "signer", "policy", "unsaved", "board", "panels", "commands", "log"}
    Reqs = {r1, r2}
    \* One client editing a list kept on two relays.
    Clients = {"c"}
    Relays = {"r", "s"}
    Items = {"a", "b"}
    MaxClock = 2
    MaxAt = 3
    \* Four commands over three lists of targets.
    Commands = {"find", "merge", "publish", "ping"}
    Lists <- MCLists
    Posts = {"e1", "e2"}
    \* A relay that asks for a login twice.
    Programs <- MCPrograms
    Reads = {"q", "r", "s"}
    Lives = {"s"}
    Rejected = {"e3"}
    Needs = {"e2", "r"}
    Guarded = {"q"}
    Signers = {"none", "signs", "refuses"}
    MaxChallenges = 2
    \* Three events, a relay that caps its answers.
    Events = {1, 2, 3}
    InFirst = {1, 2}
    Weak = {1}
    Unwanted = {2}
    MaxLimit = 1
    BatchSize = 2
    MaxRounds = 2
    Directions = {"down", "up", "both"}
    StrictPow = TRUE
    MaxFaults = 1
    MaxRuns = 1
INVARIANTS
    
    SyncComplete
    
    
    SignerCareful
    GrantsObeyed

    
    
