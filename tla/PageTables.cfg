\* Boot, the heap, the PCI scan and userspace on sixteen frames, to the last.
CONSTANTS
    Fanout = 4
    Memory = 16
    Locked <- LowFrames
    Reach = 12
    Framebuffer <- FramebufferPages
    PciPages <- ConfigurationPages
    HeapStart = 67
    MaxHeapPages = 2
    BlockSizes = {2}
    Requests = {3, 6, 16}
SPECIFICATION Spec
INVARIANTS
    TypeOK
    TablesFormTree
    KernelStaysMapped
    HeapFramesPrivate
    GivenPagesUsable
PROPERTIES
    ImplementsAddressSpace
    StraysOnlyOnHugeRequest
\* A kernel panic halts the machine.
CHECK_DEADLOCK FALSE
