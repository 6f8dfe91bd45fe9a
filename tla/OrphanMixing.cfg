SPECIFICATION Spec
CONSTANTS
    Requests = {r1, r2}
    Controls = {}
    NoReq = NoReq
    Texts = {t1}
    AcceptedCap = 2
    OrphanSurvives = TRUE
    MaxRows = 4
    MaxFaults = 0
    MaxCrashes = 1
INVARIANTS
    AppliedAsProposed
