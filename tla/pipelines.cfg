SPECIFICATION MCSpec
CONSTANTS
    Off = Off
    Failing = {"source", "cancel", "http"}
    Faults = {"src", "dst", "enqueue"}
    Shard = {1, 2, 3}
    Arriving = {2}
    ChanCap = 1
    MissingCap = 1
    Blobs = {1, 2, 3, 4, 5, 6}
    Stores <- SomeStores
    Sources = {1, 2}
    Buffered = 1
    After = 1
    Limit = 3
    Callers = {"x", "y"}
    Wanted <- Asked
    Cached = {3}
    Workers = {1, 2, 3, 4, 5}
    Gate = 2
    maxStatPerReq = 1
INVARIANTS
    AllTypeOK
    ShardAccounted
    MergedIsUnion
    StatTruth
PROPERTIES
    
    
    StatEnds
CHECK_DEADLOCK FALSE
