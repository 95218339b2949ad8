CONSTANTS
    MaxU32 = 10
    MaxRaw = 4
    Lens = {1, 2}
    RawLens = {2, 5, 11}
    MaxParts = 3
SPECIFICATION Spec
INVARIANTS
    WrittenReadsBack
    OnlyWholeFilesAreRead
    DamageNeverMisread
    DamageStaysInItsPart
CHECK_DEADLOCK FALSE
