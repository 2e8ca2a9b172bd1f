SPECIFICATION Spec
CONSTANTS
    Obus <- AllObus
    LebSizes = {0, 1, 2, 8}
    Definitions <- MCDefinitions
    Flipped <- AllIndices
INVARIANTS
    RoundTrip
    EndsAgree
    RewritingAgrees
    SubblocksCoverBlock
CHECK_DEADLOCK
    FALSE
