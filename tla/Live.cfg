SPECIFICATION FairSpec
CONSTANTS
    Parts = {"spawn", "restart", "jobs", "tracks", "local", "source", "stop", "voices", "video"}
    Tracks = {"t1", "t2", "t3"}
    None = None
PROPERTIES
    SpawnEnds
    IndexTasksEnd
    EveryTrackNegotiated
    StreamsGoOn
    
    HeardAndSeen
