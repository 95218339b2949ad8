SPECIFICATION Spec
CONSTANTS
    MaxHeld = 2
    WindowEntries = 3
    WindowDirectories = 2
    MaxEntries = 4
    MaxDepth = 2
INVARIANTS
    HeldIsCounted
    JobsMatchItems
    RowsUpToFirstFailure
    EveryCallOnce
PROPERTY
    GivesUpWithNoneToClose
