----------------------------- MODULE MCPageFrames -----------------------------
(***************************************************************************)
(* Small machines for PageFrames.  The ratios of the code are kept: the    *)
(* bitmap has fewer bytes than the machine has pages, the memory size is   *)
(* no multiple of a byte, and the legacy area is part of the first segment.*)
(***************************************************************************)
EXTENDS PageFrames

Entry(usable, start, pages) ==
    [usable |-> usable, start |-> start, pages |-> pages]

(* Conventional memory around a block of firmware memory.                  *)
Contiguous == << Entry(TRUE, 0, 5), Entry(FALSE, 5, 1), Entry(TRUE, 6, 7) >>

(* The same with a hole, so that the top of memory is beyond MemoryPages.  *)
WithHole == << Entry(TRUE, 0, 5), Entry(FALSE, 5, 2), Entry(TRUE, 9, 10) >>

(* The image's first page has been listed as conventional, its last not.   *)
KernelImage == [start |-> 4, pages |-> 2]

HighFrameBuffer == [start |-> 30, pages |-> 2]

=============================================================================
