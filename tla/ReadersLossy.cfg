CONSTANTS
    Entries <- SomeEntries
    Wanted <- SomeNames
    Targets <- SomeTargets
    Reparse <- SomeReparse
    PrefixLen = 2
    MaxNames = 9
    BufferLen = 4
    PathMax = 3
    LegacyMaxPath = 12
    MaxText = 11
    MaxEntries = 2
    MaxDirectories = 1
    MaxFailures = 0
SPECIFICATION Spec
INVARIANT
    ContainsWhatIsHeld
CHECK_DEADLOCK FALSE
