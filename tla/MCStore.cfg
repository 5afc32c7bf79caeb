CONSTANTS
    Keys = {"k", "v"}
    Chunks = {"a"}
    TTLs <- MCTTLs
    MaxVal = 2
    MaxGrown = 2
    VecKeys = {"v"}
    VecChunks = {"a"}
    CompactMin = 2
    Faults <- MCTolerated
    MaxLog = 3
    MaxTime = 2
    MaxRestore = 1
    Delays = {1}
SPECIFICATION Spec
INVARIANTS TypeOK IndexMatchesLog DeadBytesCoverGarbage KixCoversIndex VectorsMirrored
PROPERTIES ImplementsDurableMap LoadKeepsSynced CompactionKeepsLive
CHECK_DEADLOCK FALSE
