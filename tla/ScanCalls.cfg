SPECIFICATION Spec
CONSTANTS
    MaxHeld = 2
    WindowEntries = 3
    WindowDirectories = 2
    MaxEntries = 3
    MaxDepth = 1
INVARIANT
    CallsInWalkOrder
