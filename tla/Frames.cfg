CONSTANTS
    Workers = {w1, w2}
    NoWorker = none
    MaxParts = 6
SPECIFICATION Spec
INVARIANTS
    IInv
    OkIsComplete
    FailuresAreReported
    OnlyAPanicLosesAPart
    SendErrorIsExplained
    BacklogIsBounded
    WalkStopsSoon
PROPERTIES
    Returns
    StreamSpec
