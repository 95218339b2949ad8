CONSTANTS
    MaxU32 = 10
    MaxRaw = 4
    Lens = {1}
    RawLens = {2, 5}
    MaxParts = 1
SPECIFICATION Spec
INVARIANT WrittenFramesDecode
CHECK_DEADLOCK FALSE
