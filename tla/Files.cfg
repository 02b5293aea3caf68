SPECIFICATION Spec
CONSTANTS
    NameLength = 4
    VFS_MAX_DESCRIPTORS = 2
    Names <- MCNames
    Paths <- MCPaths
    InitPath <- MCInitPath
    MaxFiles = 3
    AtNull <- MCAtNull
INVARIANTS TypeOK StartsInit
PROPERTIES ImplementsDirectory OpensNamedFile
\* The kernel halts on an image it rejects, and in a panic.
CHECK_DEADLOCK FALSE
