CONSTANTS
    Keys = {"k", "v"}
    Chunks = {"a"}
    TTLs <- MCTTLs
    MaxVal = 2
    MaxGrown = 2
    VecKeys = {"v"}
    VecChunks = {"a"}
    CompactMin = 2
    Faults = {"compact_write"}
    MaxLog = 3
    MaxTime = 3
    MaxRestore = 1
    Delays = {1}
SPECIFICATION Spec
PROPERTY CompactionKeepsLive
CHECK_DEADLOCK FALSE
