SPECIFICATION Spec
CONSTANTS
    Obus <- LongExtension
    LebSizes = {0}
    Definitions <- MCDefinitions
    Flipped = {}
INVARIANTS
    PayloadSizeIsExact
CHECK_DEADLOCK
    FALSE
