CONSTANTS
    Keys = {"j", "k"}
    Chunks = {"a"}
    TTLs <- MCTTLs
    MaxVal = 1
    CompactMin = 4
    BatchRecs = 2
    BatchBytes = 3
    Mishaps = {"power", "restore", "cut", "import", "restart"}
    MaxWrites = 3
    MaxMishaps = 1
    MaxTime = 3
SPECIFICATION FairSpec
INVARIANTS PrefixConsistent CaughtUpIsExact
PROPERTIES Converges
CHECK_DEADLOCK FALSE
