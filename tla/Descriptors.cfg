SPECIFICATION Spec
CONSTANTS
    Streams <- MCStreams
    Requests <- MCRequests
    None = None
INVARIANTS
    SameInPieces
    NothingDangling
    SelectionHonoursRequest
    ProfilesNest
CHECK_DEADLOCK FALSE
