CONSTANTS
    Budget = 3
    Sizes = {1, 2, 4}
    OnError = "Fail"
    MaxRows = 5
    MaxDepth = 5
SPECIFICATION Spec
INVARIANTS
    IInv
    PartsTile
    CutsMatchRule
    FittingDirectoriesAreWhole
    OwnRowWithContents
    PartsWithinBudget
    WaitingBounded
    StemsNameAncestors
PROPERTY
    Terminates
