SPECIFICATION Spec
CONSTANTS
    Ids <- MCIds
    Scenarios <- MCScenarios
    Workers = {w}
    NoWorker = NoWorker
    MaxNow = 2
    MaxCreates = 1
INVARIANTS ExclusiveClaim DepsRespected DoneSticks LoopWithinBudget StoppedStays FirstTimedClaims
