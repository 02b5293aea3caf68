SPECIFICATION Spec
CONSTANTS
    NameLength = 4
    VFS_MAX_DESCRIPTORS = 2
    Names <- MCNames
    Paths <- MCPaths
    InitPath <- MCInitPath
    MaxFiles = 3
    AtNull <- MCAtNull
INVARIANT PanicsWhenCorrupt
\* The kernel halts on an image it rejects, and in a panic.
CHECK_DEADLOCK FALSE
