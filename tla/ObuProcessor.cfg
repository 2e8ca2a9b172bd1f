CONSTANTS
    Substreams = {1, 2}
    ParameterIds = {7}
    FrameSize = 4
    Streams <- MCStreams
    None = None
SPECIFICATION Spec
CHECK_DEADLOCK FALSE
INVARIANTS
    NothingLost
    TimesAgree
    UnitsAsEncoded
PROPERTY EverythingIsOutput
