SPECIFICATION MCSpec
CONSTANTS
    Blobs = {b1, b2}
    NoBlob = NoBlob
    Receivers = {t1, t2}
    Removers = {m1}
    Free = Free
    NoRow = NoRow
    MaxFileSize = 2
    Faults = {"read", "write", "close", "openWrite", "openRead", "set", "seek", "truncate", "delete", "commit"}
    MaxAppends = 2
    MaxCrashes = 1
    Off = Off
    Callers = {t1, t2}
    Failing = {"store", "pack", "clean", "read", "remove", "sweep", "receive", "buf", "back", "blobs", "meta", "index", "enum", "fetch", "write", "sync", "rename", "chunk", "bytes", "file"}
    MaxUploads = 2
    MaxRemovals = 1
    MaxStops = 1
    Files = {"f1"}
    Chunks = {"c1"}
    Parts <- OneFile
    RemoveCallers = {m1}
    Sweepers = {"s1"}
    MaxZips = 1
    Replicas = {"r1", "r2", "r3"}
    MinWrites = {2, 4}
    Keys = {"k1"}
    Values = {"one", "two"}
    Keep = Keep
    MaxBuffer = 0
    MaxCalls = 4
    Plain = {"p1", "p2"}
    IVs = {"i1", "i2"}
    maxInFlight = 2
    MetacCap = 1
    DirBlobs = {b1, b2}
    Cleaners = {"k1"}
    MaxReceives = 3
    SizeOf <- Lengths
    maxSize = 3
SYMMETRY Symmetric
INVARIANTS
    AllTypeOK
    RowsIntact
    AckedReadable
    
    RemovedGone
    MinWritesHeld
    ReadsCurrent
    EncryptReadable
    DirHeld
    AckedWhole
    CacheSound
    FileReadsBack
CHECK_DEADLOCK FALSE
