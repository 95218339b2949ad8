CONSTANTS
    Budget = 1
    Sizes = {1}
    OnError = "Fail"
    MaxRows = 7
    MaxDepth = 6
SPECIFICATION Spec
INVARIANT
    WaitingUnderTwoBudgets
