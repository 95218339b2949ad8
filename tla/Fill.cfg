CONSTANTS
    Bytes = {"a", "b", "c"}
    Texts <- TwoTexts
    MaxText = 5
    MaxStem = 2
    MaxRows = 3
SPECIFICATION Spec
INVARIANTS
    IInv
    TextsReadBack
    OwnMetadata
    UnreadAreCounted
CHECK_DEADLOCK FALSE
