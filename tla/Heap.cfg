\* Allocations of four sizes, freed in every order, up to four pages.
CONSTANTS
    HDR = 3
    ALIGN = 2
    PAGE = 8
    heapStart = 1
    InitialPages = 1
    SparePages = 3
    Sizes <- SmallSizes
SPECIFICATION FairSpec
INVARIANTS
    TypeOK
    ListTilesHeap
    NoAdjacentFree
    HeldIntact
\* A kernel panic halts the machine.
PROPERTY MallocReturns
CHECK_DEADLOCK FALSE
