CONSTANTS
    Fetches = {"f1", "f2", "f3"}
    Hosts = {"h"}
    HostOf <- MCHostOf
    Forbidden = {"f1", "f2"}
    Bypassing = {"f3"}
    Pace = 1
    Delay = 2
    Tries = 2
    MaxTime = 4
SPECIFICATION Spec
INVARIANT DisallowEnforced
CHECK_DEADLOCK FALSE
