SPECIFICATION Spec
CONSTANTS
    Call = {c1, c2, c3, c4}
    Command <- TenureCommands
    NoCommand = NoCommand
    MaxAttempts = 2
    MaxRoots = 2
    MaxVersion = 3
    MaxFaults = 1
INVARIANTS
    SuccessesAreTrue
    CreateOnce
PROPERTIES
    ImplementsTenure
SYMMETRY CallSymmetry
CHECK_DEADLOCK FALSE
