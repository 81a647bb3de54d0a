SPECIFICATION Spec
CONSTANTS
    Caller = {c1, c2}
    Source <- AllSources
    NoSource = NoSource
    Receipt = {r1}
    Retention = 1
    SweepLimit = 2
    PageLimit = 1
    Window = 1
    MaxLag = 0
    MaxTime = 2
    MaxFaults = 0
    MaxEpoch = 2
    Kinds = {"revoke"}
    Samples <- ProbeSamples
INVARIANT ReplayReturnsResult
SYMMETRY CallerSymmetry
CHECK_DEADLOCK FALSE
