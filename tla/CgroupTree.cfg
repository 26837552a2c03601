SPECIFICATION Spec
CONSTANTS
    cpu = cpu
    Runs = {r1, r2}
    Profiles = {cpu}
    Cleaners = {c1, c2}
    Root = root
    Profile <- MCProfile
SYMMETRY Symmetry
VIEW View
INVARIANTS
    LastOneCleansUp
    CleanupComplete
    FailureHasCause
    MeasuredUndisturbed
CHECK_DEADLOCK FALSE
