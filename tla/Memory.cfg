SPECIFICATION Spec
CONSTANTS
    Owners = {"A", "B", "C"}
    MaxMemory = 6
    Pages = {0, 1, 2, 3}
    MaxFrames = 3
    MaxReferences = 7
INVARIANTS
    TypeOK
    Tiling
    Inclusion
PROPERTIES
    ImplementsMap
    ImplementsCache
CHECK_DEADLOCK FALSE
