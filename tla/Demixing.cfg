SPECIFICATION Spec
CONSTANTS
    Scenarios <- MCScenarios
    None = None
INVARIANTS
    RestoresOriginal
    ParametersFollowBlocks
CHECK_DEADLOCK FALSE
