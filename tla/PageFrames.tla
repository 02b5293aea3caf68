------------------------------ MODULE PageFrames ------------------------------
(***************************************************************************)
(* The physical page-frame allocator (kernel/src/memory/pfa.cpp) with the  *)
(* bitmap it keeps (kernel/src/misc/bitmap/bitmap.cpp), driven by the boot *)
(* sequence of kernel/src/kernelInit.h and then by its callers.            *)
(*                                                                         *)
(* A frame is a page number, the bitmap is the set of the indices whose    *)
(* bit is 1, and the byte counters are counted in pages.  The counters are *)
(* uint64_t in the code; here they are integers, and a negative value      *)
(* stands for the wrapped one.                                             *)
(***************************************************************************)
EXTENDS Integers, Sequences, FiniteSets, FiniteSetsExt

CONSTANTS
    MemoryMap,          \* the EFI map: a sequence of [usable, start, pages]
    ByteBits,           \* bits in a byte of the bitmap: 8 in the code
    PageBytes,          \* bytes in a page: 4096 in the code
    LegacyPages,        \* the "legacy" area: 0x100 pages in the code
    Kernel,             \* the pages of the kernel image
    FrameBuffer,        \* the pages of the GOP frame buffer
    BlockSizes          \* the lengths RequestPages is called with

(* A run of pages, as the loops of LockPages, ReservePages and the others  *)
(* enumerate it from an address and a count.                               *)
Run(start, pages) == start .. (start + pages - 1)

Descriptors == DOMAIN MemoryMap

PagesOf(i) == Run(MemoryMap[i].start, MemoryMap[i].pages)

(* EfiConventionalMemory.                                                  *)
Usable == {i \in Descriptors : MemoryMap[i].usable}

Conventional == UNION {PagesOf(i) : i \in Usable}

(* GetMemorySize adds the lengths up; holes between descriptors are not    *)
(* counted, so the last page may lie beyond this number.                   *)
MemoryPages == MapThenSumSet(LAMBDA i : MemoryMap[i].pages, Descriptors)

(* PageBitmap.Size, in bytes, and the bits it holds.                       *)
Size == (MemoryPages \div ByteBits) + 1
Bits == Size * ByteBits

(* Get and Set refuse an index only when it is greater than Size * 8: the  *)
(* bit just past the buffer is in reach.                                   *)
Tracked == 0 .. Bits

(* The first of the longest conventional segments; NULL when there is none.*)
LargestFreeMemSeg ==
    IF Usable = {} THEN 0
    ELSE LET longest == {i \in Usable : \A j \in Usable :
                            MemoryMap[j].pages <= MemoryMap[i].pages}
         IN MemoryMap[Min(longest)].start

BitmapPagesFloor == Run(LargestFreeMemSeg, Size \div PageBytes)

(* LockPages(PageBitmap.Buffer, PageBitmap.Size / 4096 + 1).               *)
BitmapPages == Run(LargestFreeMemSeg, (Size \div PageBytes) + 1)

(***************************************************************************)
(* The sizes are numbers, and the bitmap has a bit for every page.         *)
(***************************************************************************)
ASSUME SizesAssumption ==
    /\ MemoryPages \in Nat
    /\ Size \in Nat \ {0}
    /\ Bits \in Nat
    /\ Size <= Bits
    /\ MemoryPages < Bits
    /\ PageBytes \in Nat \ {0}
    /\ LargestFreeMemSeg \in Nat

(* Left out are requests for seven eighths of the memory at once: a search *)
(* for so many pages can look past the bitmap, where operator[] reads      *)
(* every page as free.                                                     *)
ASSUME BlocksAssumption ==
    \A n \in BlockSizes : n \in Nat \ {0} /\ Size + n <= Bits + 1

VARIABLES
    PageBitmap,         \* the indices in Tracked whose bit is 1
    pageBitmapIndex,    \* where the next search starts
    freeMemory,
    usedMemory,
    reservedMemory,
    stage,              \* how far the boot sequence is
    holders,            \* per frame, the grants of it not yet freed
    strayBit,           \* what the bit past the buffer held at the start
    skipped             \* history: the free pages behind the index that
                        \* searches for a block have passed over

vars == <<PageBitmap, pageBitmapIndex, freeMemory, usedMemory,
          reservedMemory, stage, holders, strayBit, skipped>>

counters == <<freeMemory, usedMemory, reservedMemory>>

Stages == {"off", "mapped", "early", "running", "panicked"}

StrayBits == IF strayBit THEN {Bits} ELSE {}

(* operator[]: an index past the bitmap reads as free.                     *)
IsSet(p) == p \in PageBitmap

(***************************************************************************)
(* Init.  The buffer is cleared by InitBitmap; the byte behind it is not.  *)
(***************************************************************************)
Init ==
    /\ strayBit \in BOOLEAN
    /\ PageBitmap = StrayBits
    /\ pageBitmapIndex = 0
    /\ freeMemory = 0
    /\ usedMemory = 0
    /\ reservedMemory = 0
    /\ stage = "off"
    /\ holders = [p \in Tracked |-> 0]
    /\ skipped = {}

(***************************************************************************)
(* ReadEFIMemoryMap reserves the head of the largest segment, then every   *)
(* page up to the memory size, gives the conventional pages back, reserves *)
(* the legacy area and locks the bitmap's own pages.                       *)
(***************************************************************************)
AllReservedHeadOnly ==
    StrayBits \cup (Tracked \cap Run(LargestFreeMemSeg, Size \div PageBytes))

AllReserved ==
    StrayBits
        \cup (Tracked \cap Run(LargestFreeMemSeg, Size \div PageBytes))
        \cup (Tracked \cap Run(0, MemoryPages + 1))
Unreserved == AllReserved \ Conventional
LegacyReserved == Unreserved \cup (Tracked \cap Run(0, LegacyPages))
BootBitmap == LegacyReserved \cup (Tracked \cap BitmapPages)

ReadEFIMemoryMap ==
    LET reserved == (Cardinality(AllReserved) - Cardinality(StrayBits))
                      - (Cardinality(AllReserved) - Cardinality(Unreserved))
                      + (Cardinality(LegacyReserved) - Cardinality(Unreserved))
        locked == Cardinality(BootBitmap) - Cardinality(LegacyReserved)
    IN  /\ stage = "off"
        /\ stage' = "mapped"
        /\ PageBitmap' = BootBitmap
        /\ reservedMemory' = reservedMemory + reserved
        /\ usedMemory' = usedMemory + locked
        /\ freeMemory' = MemoryPages - reserved - locked
        /\ UNCHANGED <<pageBitmapIndex, holders, strayBit, skipped>>

(***************************************************************************)
(* LockPage for each page of a set: a page that is set already, or is past *)
(* the bitmap, changes nothing.                                            *)
(***************************************************************************)
LockPagesUnbounded(pages) ==
    LET fresh == pages \ PageBitmap
    IN  /\ PageBitmap' = PageBitmap \cup fresh
        /\ freeMemory' = freeMemory - Cardinality(fresh)
        /\ usedMemory' = usedMemory + Cardinality(fresh)
        /\ UNCHANGED reservedMemory

LockPagesRecounted(pages) ==
    LET fresh == Tracked \cap pages
    IN  /\ PageBitmap' = PageBitmap \cup fresh
        /\ freeMemory' = freeMemory - Cardinality(fresh)
        /\ usedMemory' = usedMemory + Cardinality(fresh \ PageBitmap)
        /\ UNCHANGED reservedMemory

LockPages(pages) ==
    LET fresh == (Tracked \cap pages) \ PageBitmap
    IN  /\ PageBitmap' = PageBitmap \cup fresh
        /\ freeMemory' = freeMemory - Cardinality(fresh)
        /\ usedMemory' = usedMemory + Cardinality(fresh)
        /\ UNCHANGED reservedMemory

(* InitDrivers locks the kernel image before anything is requested.        *)
LockKernel ==
    /\ stage = "mapped"
    /\ stage' = "early"
    /\ LockPages(Run(Kernel.start, Kernel.pages))
    /\ UNCHANGED <<pageBitmapIndex, holders, strayBit, skipped>>

(* EnablePaging locks the frame buffer after the first page tables.        *)
LockFrameBuffer ==
    /\ stage = "early"
    /\ stage' = "running"
    /\ LockPages(Run(FrameBuffer.start, FrameBuffer.pages))
    /\ UNCHANGED <<pageBitmapIndex, holders, strayBit, skipped>>

Grant(pages) ==
    /\ LockPages(pages)
    /\ holders' = [p \in Tracked |-> IF p \in pages THEN holders[p] + 1
                                                   ELSE holders[p]]

(***************************************************************************)
(* RequestPage: the first clear bit at or after the index.  The index      *)
(* stays on the granted page.                                              *)
(***************************************************************************)
RequestPage ==
    /\ stage \in {"early", "running"}
    /\ \E p \in pageBitmapIndex .. (Bits - 1) :
         /\ ~IsSet(p)
         /\ \A q \in pageBitmapIndex .. (p - 1) : IsSet(q)
         /\ pageBitmapIndex' = p
         /\ Grant({p})
    /\ UNCHANGED <<stage, strayBit, skipped>>

(* No clear bit is left in front of the index: KernelPanic, which halts.   *)
OutOfMemory ==
    /\ stage \in {"early", "running"}
    /\ \A q \in pageBitmapIndex .. (Bits - 1) : IsSet(q)
    /\ pageBitmapIndex' = IF pageBitmapIndex < Bits THEN Bits
                                                    ELSE pageBitmapIndex
    /\ stage' = "panicked"
    /\ UNCHANGED <<PageBitmap, counters, holders, strayBit, skipped>>

(***************************************************************************)
(* RequestPages(n): the first run of n clear bits that starts at or after  *)
(* the index and below Size (bytes of the bitmap, not bits).  A set bit    *)
(* moves the index past itself, so the bits in front of a run are given up.*)
(***************************************************************************)
FreeRunOneShort(s, n) == \A p \in Run(s, n - 1) : ~IsSet(p)

FreeRun(s, n) == \A p \in Run(s, n) : ~IsSet(p)

NoRun(first, last, n) == \A s \in first .. last : ~FreeRun(s, n)

RequestPages(n) ==
    /\ stage = "running"
    /\ \E s \in pageBitmapIndex .. (Size - 1) :
         /\ FreeRun(s, n)
         /\ NoRun(pageBitmapIndex, s - 1, n)
         /\ pageBitmapIndex' = s + n
         /\ Grant(Run(s, n))
         /\ skipped' = skipped \cup {q \in pageBitmapIndex .. (s - 1) : ~IsSet(q)}
    /\ UNCHANGED <<stage, strayBit>>

(* No run found: NULL is returned, and the index stays where the search    *)
(* stopped, just past the set bit that carried it over Size.               *)
RequestPagesFails(n) ==
    /\ stage = "running"
    /\ NoRun(pageBitmapIndex, Size - 1, n)
    /\ IF pageBitmapIndex >= Size
       THEN pageBitmapIndex' = pageBitmapIndex
       ELSE \E q \in PageBitmap :
              /\ q >= pageBitmapIndex /\ q >= Size - 1
              /\ \A r \in PageBitmap :
                   (r >= pageBitmapIndex /\ r >= Size - 1) => q <= r
              /\ pageBitmapIndex' = q + 1
    /\ skipped' = skipped \cup {q \in pageBitmapIndex .. (pageBitmapIndex' - 1) : ~IsSet(q)}
    /\ UNCHANGED <<PageBitmap, counters, stage, holders, strayBit>>

(***************************************************************************)
(* FreePages on pages the caller holds; FreePage is a run of one.  Each    *)
(* cleared bit pulls the index back to it.                                 *)
(***************************************************************************)
IndexKept(freed) == pageBitmapIndex

IndexAfterFree(freed) ==
    IF \E p \in freed : p < pageBitmapIndex THEN Min(freed) ELSE pageBitmapIndex

FreePages(s, n) ==
    LET freed == Run(s, n) \cap PageBitmap
    IN  /\ stage \in {"early", "running"}
        /\ Run(s, n) \subseteq Tracked
        /\ \A p \in Run(s, n) : holders[p] > 0
        /\ PageBitmap' = PageBitmap \ freed
        /\ freeMemory' = freeMemory + Cardinality(freed)
        /\ usedMemory' = usedMemory - Cardinality(freed)
        /\ pageBitmapIndex' = IndexAfterFree(freed)
        /\ skipped' = {q \in skipped : q < pageBitmapIndex'}
        /\ holders' = [p \in Tracked |-> IF p \in Run(s, n) THEN holders[p] - 1
                                                           ELSE holders[p]]
        /\ UNCHANGED <<reservedMemory, stage, strayBit>>

Next ==
    \/ ReadEFIMemoryMap
    \/ LockKernel
    \/ LockFrameBuffer
    \/ RequestPage
    \/ OutOfMemory
    \/ \E n \in BlockSizes : RequestPages(n)
    \/ \E n \in BlockSizes : RequestPagesFails(n)
    \/ \E s \in Tracked, n \in BlockSizes \cup {1} : FreePages(s, n)

Spec == Init /\ [][Next]_vars

-----------------------------------------------------------------------------
(***************************************************************************)
(* Properties.                                                             *)
(***************************************************************************)

(* Every variable has its type: the bitmap never holds a bit that Get and  *)
(* Set cannot reach, and the search index never goes negative.             *)
TypeOK ==
    /\ PageBitmap \subseteq Tracked
    /\ pageBitmapIndex \in Nat
    /\ freeMemory \in Int
    /\ usedMemory \in Int
    /\ reservedMemory \in Int
    /\ stage \in Stages
    /\ holders \in [Tracked -> Nat]
    /\ strayBit \in BOOLEAN
    /\ skipped \subseteq Nat

(* What must never be handed out once the boot sequence has set it aside:  *)
(* firmware memory, the legacy area, every page that holds a byte of the   *)
(* bitmap or the stray bit behind it, the kernel image.                    *)
WithheldByMap ==
    (Run(0, MemoryPages + 1) \ Conventional)
        \cup Run(0, LegacyPages)
        \cup {LargestFreeMemSeg + (byte \div PageBytes) : byte \in 0 .. Size}

Withheld ==
    Tracked \cap (WithheldByMap \cup Run(Kernel.start, Kernel.pages))

(* No frame ever has two holders, whatever RequestPage, RequestPages and   *)
(* FreePages do to the shared index, and a held frame is marked as taken.  *)
GrantsDisjoint ==
    \A p \in Tracked : /\ holders[p] <= 1
                       /\ holders[p] = 1 => IsSet(p)

(* RequestPage and RequestPages never hand out a frame ReadEFIMemoryMap or *)
(* InitDrivers has set aside; page 0 is among them, so a grant is never    *)
(* mistaken for NULL.                                                      *)
GrantsAvoidWithheld == \A p \in Withheld : holders[p] = 0

(* The three counters always add up to the memory size, and GetFreeRAM     *)
(* counts the clear bits, less the padding bits behind the last page.      *)
Accounting ==
    stage # "off" =>
        /\ freeMemory + usedMemory + reservedMemory = MemoryPages
        /\ freeMemory = (MemoryPages + Cardinality(StrayBits))
                            - Cardinality(PageBitmap)

(* "panic because we don't have free pages" (pfa.cpp): when the kernel     *)
(* panics for lack of memory, no frame of conventional memory is free.     *)
PanicOnlyWhenFull ==
    stage = "panicked" => \A p \in Conventional \cap (0 .. (Bits - 1)) : IsSet(p)

(* When the kernel panics for lack of memory, every page of conventional   *)
(* memory is taken or was passed over by a search for a block: no request  *)
(* for a single page and no free, in whatever order, ever loses a page.    *)
PanicLosesOnlySkipped ==
    stage = "panicked" =>
        \A p \in Conventional \cap (0 .. (Bits - 1)) : IsSet(p) \/ p \in skipped

(* Seen from its callers the allocator is the ownership protocol of        *)
(* FrameOwnership: every request hands out one run nobody holds, outside   *)
(* what is withheld, and every free ends exactly those grants.             *)
Ownership == INSTANCE FrameOwnership
    WITH Frames <- Tracked, Grantable <- Tracked \ Withheld, Lengths <- BlockSizes \cup {1}

OwnsFrames == Ownership!Spec

=============================================================================
