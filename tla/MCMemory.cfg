CONSTANTS
    Keys = {"k", "p"}
    ProjKeys = {"p"}
    Attached = TRUE
    Threads = {t1, t2}
    Ops <- Requests
    Faults = {"set"}
    MaxReqs = 2
SPECIFICATION Spec
SYMMETRY MCSymmetry
INVARIANTS MainSurvives OutdatedHasHistory
CHECK_DEADLOCK FALSE
