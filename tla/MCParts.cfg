CONSTANTS
    None = None
    QmsObjIds = {"o1"}
    QmsNcIds = {"n1"}
    QmsAuditIds = {"a1", "a2", "a3", "a4", "a5"}
    QmsThreads = {"t1", "t2"}
    NoId = "none"
    QmsScenarios <- MCScenarios
    ServeConns = {"c1", "c2"}
    PerSec = 1
    Second = 2
    Grace = 1
    ServeMaxTime = 4
    MaxChunks = 4
    ChildPipe = 3
    OutCap = 3
    PerRead = 2
    Timeout = 2
    WsConns = {"c1", "c2", "c3"}
    WsFds = {1, 2}
    NoConn = "none"
    MaxPushes = 2
    Workers = {"w1", "w2"}
    PoolRequests = {"r1", "r2"}
    Jobs = 2
    Fetches = {"f1", "f2", "f3"}
    Hosts = {"h"}
    HostOf <- MCHostOf
    Forbidden = {"f1", "f2"}
    Bypassing = {"f3"}
    Pace = 1
    Delay = 2
    Tries = 2
    FetchMaxTime = 4
    Calls = 3
    Bodiless = {2}
    Ahead = 2
    MaxOut = 3
    RouterPipe = 1
    RouterCap = 2
    UpdateVersions <- MCVersions
    UpdateMaxRuns = 3
SPECIFICATION MCSpec
INVARIANTS RequestsServed ChildReported WsDelivers UpdateKeeps KeptAsSaid AnswersRight AuditsVouch RouterTrue
    QmsClosed QmsAgrees QmsTrail QmsReopens
PROPERTY QmsLifecycle
CHECK_DEADLOCK FALSE
