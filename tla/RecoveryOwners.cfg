SPECIFICATION Spec
CONSTANTS
    Call = {c1, c2, c3}
    Command <- OwnerCommands
    NoCommand = NoCommand
    Abandon = {}
    Delivery = {}
    Lifetime = 1
    Margin = 1
    Window = 1
    TokenLife = 3
    Skew = 1
    MaxAttempts = 2
    MaxNow = 1
    MaxEpoch = 2
    MaxFaults = 1
INVARIANTS
    OneEnqueuePerRoot
    AnswersAgree
SYMMETRY CallSymmetry
CHECK_DEADLOCK FALSE
