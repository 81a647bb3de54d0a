SPECIFICATION Spec
CONSTANTS
    Call = {c1, c2, c3}
    Command <- RivalCommands
    NoCommand = NoCommand
    MaxAttempts = 2
    MaxRoots = 1
    MaxVersion = 3
    MaxFaults = 1
INVARIANTS
    ChainUnforked
    EpochsAccounted
    DenialsAreTrue
    ReleaseCanFinish
PROPERTIES
    EveryCallAnswered
CHECK_DEADLOCK FALSE
