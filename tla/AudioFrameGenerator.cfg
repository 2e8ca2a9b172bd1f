CONSTANTS
    Elements = {"A", "B"}
    Substreams = {1, 2, 3}
    ElementOf <- MCElementOf
    F = 2
    Setups <- MCSetups
    None = None
SPECIFICATION Spec
CHECK_DEADLOCK FALSE
INVARIANTS
    NothingLost
    TemporalUnits
    TrimsAsAsked
PROPERTY Ends
