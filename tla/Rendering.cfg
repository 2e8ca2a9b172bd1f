SPECIFICATION Spec
CONSTANTS
  None = None
  Scenarios <- SmallScenarios
INVARIANTS
  EveryChannelIsHeard
  HeardIsMeasured
