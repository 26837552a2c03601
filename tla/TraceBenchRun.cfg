SPECIFICATION Spec
CONSTANTS
    MaxRows = 2
    MaxLoad = 1
    MaxSignals = 2
INVARIANTS
    LoadIsMeasured
    SuccessIsComplete
    NothingLeftBehind
PROPERTIES
    Termination
CHECK_DEADLOCK FALSE
