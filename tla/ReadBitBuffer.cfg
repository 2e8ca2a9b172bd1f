CONSTANTS
    Kinds = {"Memory", "File", "Stream"}
    Capacities = {2}
    InitialBytes = 3
    MaxSourceBytes = 3
    MaxPushed = 4
    ReadSizes <- MCReadSizes
    SeekTargets <- MCSeekTargets
SPECIFICATION Spec
INVARIANTS
    Coherent
    ReadExactUnlessSplit
PROPERTIES
    SeekReturnsToTold
