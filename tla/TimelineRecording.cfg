SPECIFICATION Spec
CONSTANTS
    Caller = {c1, c2}
    Source <- AllSources
    NoSource = NoSource
    Receipt = {r1}
    Retention = 1
    SweepLimit = 1
    PageLimit = 2
    Window = 1
    MaxLag = 0
    MaxTime = 2
    MaxFaults = 1
    MaxEpoch = 2
    Kinds = {"revoke", "denial", "complete", "export"}
    Samples <- ProbeSamples
INVARIANTS
    TypeOK
    ChainIsWhole
    CorruptOnlyUnswept
    VerdictsAreBacked
    AnswersAreRecorded
SYMMETRY CallerSymmetry
CHECK_DEADLOCK FALSE
