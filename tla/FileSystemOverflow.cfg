SPECIFICATION Spec
CONSTANTS
    MaxLength = 4
    MaxInt = 7
    Names <- MCNames
    Paths <- MCPaths
    Contents <- MCContents
    Disks <- HugeDisk
PROPERTIES
    OverwriteReplaces
