SPECIFICATION Spec
CONSTANTS
    Callers = {get, force1, force2}
    Forcing = {force1, force2}
    NoCaller = nobody
    Settings <- StoreOnly
    Stored = {0, 2}
    MaxToken = 4
    MaxTime = 0
    Skew = 1
    Lifetimes = {2}
    Drifts <- OneClock
    Faults = {"relogin"}
CHECK_DEADLOCK FALSE
PROPERTY RejectionExcused
