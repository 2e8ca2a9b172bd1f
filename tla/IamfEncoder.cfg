SPECIFICATION Spec
CONSTANTS
    Files = 2
    MaxFrames = 3
    MaxFaults = 1
    Setups <- MCSetups
INVARIANTS
    SequencersAgree
    FinalizedIsComplete
    OutputIsComplete
PROPERTIES
    Ends
CHECK_DEADLOCK
    FALSE
