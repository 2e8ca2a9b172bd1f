CONSTANTS
    Substreams = {1, 2}
    ParameterIds = {7}
    FrameSize = 4
    Streams <- MCStreams
    None = None
    Modes = {"standalone", "descriptors"}
    Relevant = {1}
    MaxFaults = 1
    MaxResets = 1
    ShortBuffers = TRUE
SPECIFICATION DecoderSpec
CHECK_DEADLOCK FALSE
INVARIANTS
    WaitingIsIntact
    UnitsInOrder
    DrainedIsComplete
PROPERTY Drains
