SPECIFICATION FairSpec
CONSTANTS
    Requests = {r1}
    Controls = {c1, c2}
    NoReq = NoReq
    Texts = {t1}
    AcceptedCap = 1
    OrphanSurvives = TRUE
    MaxRows = 2
    MaxFaults = 1
    MaxCrashes = 2
INVARIANTS
    AppliedAsProposed AckedControlStays
PROPERTIES
    PromiseKept TurnEnds
