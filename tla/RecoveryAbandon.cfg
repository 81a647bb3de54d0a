SPECIFICATION Spec
CONSTANTS
    Call = {c1}
    Command <- UnhealthyCommand
    NoCommand = NoCommand
    Abandon = {a1, a2}
    Delivery = {d1}
    Lifetime = 2
    Margin = 1
    Window = 1
    TokenLife = 3
    Skew = 1
    MaxAttempts = 2
    MaxNow = 2
    MaxEpoch = 2
    MaxFaults = 1
INVARIANTS
    AbandonedNeverActs
PROPERTIES
    LateDenialIsExact
    AbandonedRecordFrozen
SYMMETRY CallSymmetry
CHECK_DEADLOCK FALSE
