SPECIFICATION EitherSpec
CONSTANTS
    CheckIns = 2
    Returns = 2
    Keys = {k1, k2}
    NoKey = NoKey
    KeepEvents = 1
    Routes = {"control", "switch", "setup", "recover", "compress", "rename"}
    MaxEpoch = 1
    MaxRev = 1
    MaxFaults = 1
    MaxCrashes = 1
SYMMETRY Symmetry
INVARIANTS
    TypeOK SaidOnce SaidIsKept DeliveredWasSaid
PROPERTIES
    SaidWhileWanted
