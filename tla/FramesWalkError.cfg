CONSTANTS
    Workers = {w1}
    NoWorker = none
    MaxParts = 2
SPECIFICATION Spec
INVARIANT
    WalkErrorIsReported
