SPECIFICATION Spec
CONSTANTS
    Files = 1
    MaxFrames = 1
    MaxFaults = 0
    Setups <- DelayedSetups
INVARIANT
    NoFrameAfterExtraneous
CHECK_DEADLOCK
    FALSE
