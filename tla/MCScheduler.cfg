SPECIFICATION Spec
CONSTANTS
    MaxProcs = 3
    Arrivals = {0, 2, 3}
    Bursts = {1, 5}
    Priorities = {1, 2}
    Quanta = {2}
    InitialSize = 2
    Workloads <- MCWorkloads
INVARIANTS
    TypeOK
    ChartMatchesTable
    RunsTheRightProcess
    FairTurns
PROPERTIES
    Termination
CHECK_DEADLOCK FALSE
