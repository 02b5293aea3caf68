\* Single pages and blocks, 17 pages of memory.
CONSTANTS
    MemoryMap <- WithHole
    ByteBits = 2
    PageBytes = 4
    LegacyPages = 2
    Kernel <- KernelImage
    FrameBuffer <- HighFrameBuffer
    BlockSizes = {2, 3}
SPECIFICATION Spec
INVARIANTS
    TypeOK
    GrantsDisjoint
    GrantsAvoidWithheld
    Accounting
    PanicLosesOnlySkipped
PROPERTY OwnsFrames
\* KernelPanic halts the machine.
CHECK_DEADLOCK FALSE
