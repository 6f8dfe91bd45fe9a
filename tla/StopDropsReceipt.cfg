SPECIFICATION Spec
CONSTANTS
    Requests = {r1}
    Controls = {}
    NoReq = NoReq
    Texts = {t1}
    AcceptedCap = 2
    OrphanSurvives = FALSE
    MaxRows = 2
    MaxFaults = 0
    MaxCrashes = 0
INVARIANTS
    CommittedIsRecoverable
