CONSTANTS
    Entries <- SomeEntries
    Wanted <- SomeNames
    Targets <- SomeTargets
    Reparse <- SomeReparse
    PrefixLen = 2
    MaxNames = 9
    BufferLen = 4
    PathMax = 3
    LegacyMaxPath = 12
    MaxText = 11
    MaxEntries = 3
    MaxDirectories = 2
    MaxFailures = 1
SPECIFICATION Spec
INVARIANTS
    EntriesAreOwn
    ListedOrFailed
    SortedAndFound
    TargetsLeadTheSame
    AppendsNothing
CHECK_DEADLOCK FALSE
