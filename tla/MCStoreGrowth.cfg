CONSTANTS
    Keys = {"k", "v"}
    Chunks = {"a"}
    TTLs <- MCTTLs
    MaxVal = 2
    MaxGrown = 3
    VecKeys = {"v"}
    VecChunks = {"a"}
    CompactMin = 2
    Faults = {}
    MaxLog = 3
    MaxTime = 3
    MaxRestore = 1
    Delays = {1}
SPECIFICATION Spec
PROPERTY LoadKeepsSynced
CHECK_DEADLOCK FALSE
