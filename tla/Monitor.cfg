SPECIFICATION Spec
CONSTANTS
    Clients = {"a", "b"}
    Shells = {"b"}
    Pids = {1, 2}
    MaxLoads = 2
INVARIANTS
    AllOrNothing
    ShowsOneTarget
PROPERTIES
    Termination
CHECK_DEADLOCK FALSE
