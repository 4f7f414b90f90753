SPECIFICATION FairSpec
CONSTANTS
    Callers = {get1, get2, force}
    Forcing = {force}
    NoCaller = nobody
    Settings <- AnySettings
    Stored = {0, 2}
    MaxToken = 3
    MaxTime = 2
    Skew = 1
    Lifetimes = {2}
    Drifts <- WallClocks
    Faults = {"cancel", "loss", "malformed", "savefail", "login"}
CHECK_DEADLOCK FALSE
INVARIANTS TypeOK SingleFlight
PROPERTIES ImplementsTokenService CachedTokenLive SessionKept SaveKeepsFileUsable EveryCallEnds
