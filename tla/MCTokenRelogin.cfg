SPECIFICATION Spec
CONSTANTS
    Callers = {get, force1, force2}
    Forcing = {force1, force2}
    NoCaller = nobody
    Settings <- StoreOnly
    Stored = {2}
    MaxToken = 4
    MaxTime = 0
    Skew = 1
    Lifetimes = {2}
    Drifts <- OneClock
    Faults = {"revoke", "login"}
CHECK_DEADLOCK FALSE
PROPERTY LoginRepairs
