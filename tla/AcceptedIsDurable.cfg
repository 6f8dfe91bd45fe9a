SPECIFICATION Spec
CONSTANTS
    CheckIns = 1
    Returns = 0
    Keys = {k1}
    NoKey = NoKey
    KeepEvents = 1
    Routes = {"control", "switch", "setup", "recover", "compress", "rename"}
    MaxEpoch = 1
    MaxRev = 1
    MaxFaults = 1
    MaxCrashes = 1
INVARIANTS AcceptedIsDurable
