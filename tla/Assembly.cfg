CONSTANTS
    Budget = 2
    Sizes = {1}
    OnError = "Skip"
    MaxRows = 5
    MaxDepth = 3
    MaxSkipped = 1
    MaxLater = 1
SPECIFICATION AssemblySpec
PROPERTY
    WalksAsCut
INVARIANTS
    WaitingIsTheRows
    PartsReadBack
    SearchFindsDirectory
