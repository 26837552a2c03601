SPECIFICATION Spec
CONSTANTS
    MaxLength = 3
    MaxInt = 7
    Names <- MCNames
    Paths <- MCPaths
    Contents <- MCContents
    Disks <- MCDisks
INVARIANTS
    TypeOK
    BlocksOwned
    TreeConnected
PROPERTIES
    ImplementsStore
