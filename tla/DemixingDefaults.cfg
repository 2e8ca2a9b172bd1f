SPECIFICATION Spec
CONSTANTS
    Scenarios <- MCBlocks
    None = None
INVARIANTS
    DecodedIsOriginal
CHECK_DEADLOCK FALSE
