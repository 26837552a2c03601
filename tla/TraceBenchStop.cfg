SPECIFICATION Spec
CONSTANTS
    MaxRows = 1
    MaxLoad = 1
    MaxSignals = 1
PROPERTIES
    StopMeansStop
CHECK_DEADLOCK FALSE
