SPECIFICATION EndsSpec
CONSTANTS
    CheckIns = 1
    Returns = 1
    Keys = {k1}
    NoKey = NoKey
    KeepEvents = 1
    Routes = {"control", "switch", "setup", "compress", "rename"}
    MaxEpoch = 1
    MaxRev = 0
    MaxFaults = 0
    MaxCrashes = 0
    MaxSpawns = 2
    Attempts = 2
INVARIANTS EndsTypeOK ChildrenAreOwned ExitIsClean
PROPERTIES TurnBegins RouteEnds CallsSettle QuitEnds StopsAreFinal
CHECK_DEADLOCK FALSE
