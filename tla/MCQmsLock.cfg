SPECIFICATION Spec
CONSTANTS
    Requests = {r1, r2, r3}
    Reloader = reloader
PROPERTIES Served
CHECK_DEADLOCK FALSE
