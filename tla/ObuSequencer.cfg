CONSTANTS
    Kinds = {"File", "Streaming", "Delaying"}
    Faulty = {"File", "Delaying"}
    Descriptors <- MCDescriptors
    Units <- MCUnits
    MaxUnits = 3
    Retries = FALSE
    Unusable = Unusable
    None = None
SPECIFICATION Spec
INVARIANTS
    NothingLost
    FileCompleteWhenClosed
    NothingLeftBehind
    UnitsFollowDescriptors
    SignalledTimestamp
PROPERTIES
    ClosedIsFinal
    ImplementsOutput
