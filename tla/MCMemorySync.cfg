CONSTANTS
    Keys = {"p"}
    ProjKeys = {"p"}
    Attached = TRUE
    Threads = {t1}
    Ops = {"set", "del", "append"}
    Faults = {}
    MaxReqs = 2
SPECIFICATION Spec
INVARIANT AckedSurvive
CHECK_DEADLOCK FALSE
