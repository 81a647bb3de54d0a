SPECIFICATION Spec
CONSTANTS
    None = None
    Root <- TheRoot
    Proof <- TheProof
    Receipt <- TheReceipt
    Unhealthy <- TheUnhealthy
    PrestateValidity = 2
    MaxPrestate = 2
    RecoveryMargin = 1
    Service <- Services
    Lifetime = 2
    MaxLifetime = 3
    Margin = 1
    MaxDepth = 2
    MaxDelay = 2
    MaxAge = 3
    Call = {c1, c2}
    Command <- Commands
    MaxNow = 2
    MaxEpoch = 2
    MaxFaults = 1
INVARIANTS
    PromotionEnqueuedOnce
    OwnershipIsWhole
    AnswersAreStored
    IssuerAndExecutorAgree
    IssuedUnderItsEpoch
CONSTRAINT OneAction
SYMMETRY CallSymmetry
CHECK_DEADLOCK FALSE
