SPECIFICATION Spec
CONSTANTS
    Callers = {get, force1, force2}
    Forcing = {force1, force2}
    NoCaller = nobody
    Settings <- AnySettings
    Stored = {0, 2}
    MaxToken = 5
    MaxTime = 0
    Skew = 1
    Lifetimes = {1, 2}
    Drifts <- OneClock
    Faults = {"loss", "malformed", "crash", "revoke"}
SYMMETRY Symmetry
CHECK_DEADLOCK FALSE
PROPERTIES ImplementsTokenService RejectionExcused StoreInSync
