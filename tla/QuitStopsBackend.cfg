SPECIFICATION LifeSpec
CONSTANTS
    MaxSpawns = 2
    Attempts = 2
INVARIANTS QuitStopsBackend
CHECK_DEADLOCK FALSE
