\* The blocks of every kind of parameter, from the user's metadata to the units.
SPECIFICATION Spec
CONSTANTS
  Scenarios <- MCScenarios
  MaxRetries = 2
  None = None
\* A sequence that is encoded, or could not be, is over.
CHECK_DEADLOCK FALSE
INVARIANTS
  ReconGainsReachTheirChannels
  EncodedAsSpecified
