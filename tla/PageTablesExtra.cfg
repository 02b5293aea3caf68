\* ALLOCATEMEMORY opens a page too many.
CONSTANTS
    Fanout = 4
    Memory = 20
    Locked <- LowFrames
    Reach = 17
    Framebuffer <- FramebufferPages
    PciPages <- ConfigurationPages
    HeapStart = 67
    MaxHeapPages = 2
    BlockSizes = {2}
    Requests = {1, 2}
SPECIFICATION Spec
INVARIANT OnlyGivenPagesOpened
\* A kernel panic halts the machine.
CHECK_DEADLOCK FALSE
