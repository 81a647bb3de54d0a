CONSTANTS
    Window = 1
    Delay = 0
    MaxDelay = 1
    MaxWindows = 2
    ReceiptAt = 0
    MaxPages = 2
    MaxPoints = 5
    Caller = {c1, c2}
    Readings <- RaceReadings
    MaxTime = 3
    MaxFaults = 1
SYMMETRY CallerSymmetry
SPECIFICATION HealthSpec
INVARIANTS
    HealthTypeOK
    UnhealthyHasIntent
    AnswersAreStored
    VerdictIsSustained
PROPERTIES
    ChainCanonical
CHECK_DEADLOCK FALSE
