SPECIFICATION EitherSpec
CONSTANTS
    Requests = {r1, r2}
    Controls = {}
    NoReq = NoReq
    Texts = {t1, t2}
    AcceptedCap = 2
    OrphanSurvives = FALSE
    MaxRows = 3
    MaxFaults = 1
    MaxCrashes = 1
SYMMETRY Symmetry
INVARIANTS
    TypeOK PublishedIsDurable
    SourceTurnNeverCommits UnstoppedIsRecoverable KnownIsRunOnce MessageKept AppliedOnce
PROPERTIES
    UnresolvedIsShown
