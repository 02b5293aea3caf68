--------------------------------- MODULE Heap ---------------------------------
(***************************************************************************)
(* The kernel heap (kernel/src/memory/heap.cpp): a doubly linked list of   *)
(* segments, each behind its header, which tile the heap from heapStart to *)
(* heapEnd.  A segment is named by the address of its header.  malloc runs *)
(* here one iteration of its loop at a time.                               *)
(***************************************************************************)
EXTENDS Integers

CONSTANTS
    HDR,            \* sizeof(HeapSegHdr): 25 in the code
    ALIGN,          \* malloc's granularity and the least split: 0x10
    PAGE,           \* 0x1000 in the code
    heapStart,      \* 0x0000100000000000 in the code
    InitialPages,   \* 0x10 in the code
    SparePages,     \* the page frames left for ExpandHeap
    Sizes           \* what malloc is called with

ASSUME HeapAssumption ==
    /\ HDR \in Nat \ {0} /\ ALIGN \in Nat \ {0} /\ PAGE \in Nat
    /\ HDR + ALIGN <= PAGE
    /\ heapStart \in Nat \ {0}
    /\ InitialPages \in Nat \ {0}
    /\ SparePages \in Nat
    /\ Sizes \subseteq Nat

NULL == 0

VARIABLES
    segments,       \* the headers in the heap, by address
    LastHdr,
    heapEnd,
    request,        \* the rounded size malloc is serving, 0 for none
    currentSeg,     \* the segment malloc's loop looks at
    held,           \* the blocks callers have: [seg, size], not yet freed
    pagesLeft,
    panicked

vars == <<segments, LastHdr, heapEnd, request, currentSeg, held, pagesLeft, panicked>>

(* A heap as the methods of HeapSegHdr see and change it.                  *)
TheHeap == [segs |-> segments, lastHdr |-> LastHdr]

HeapBecomes(h) == segments' = h.segs /\ LastHdr' = h.lastHdr

With(segs, a, header) ==
    [s \in DOMAIN segs \cup {a} |-> IF s = a THEN header ELSE segs[s]]

Without(segs, a) == [s \in DOMAIN segs \ {a} |-> segs[s]]

KeptLast(segs, a, last) == segs

(* Through a null link the code stores too, outside the heap: what that    *)
(* does is SplitLink in Boot.                                              *)
Relinked(segs, a, last) ==
    IF a = NULL THEN segs ELSE [segs EXCEPT ![a].last = last]

(***************************************************************************)
(* InitializeHeap: one free segment.                                       *)
(***************************************************************************)
Init ==
    /\ segments = [a \in {heapStart} |->
                    [length |-> InitialPages * PAGE - HDR,
                     next |-> NULL, last |-> NULL, free |-> TRUE]]
    /\ LastHdr = heapStart
    /\ heapEnd = heapStart + InitialPages * PAGE
    /\ request = 0
    /\ currentSeg = heapStart
    /\ held = {}
    /\ pagesLeft = SparePages
    /\ panicked = FALSE

(***************************************************************************)
(* HeapSegHdr::Split: a tail too short for a segment of its own stays.     *)
(***************************************************************************)
RestAlways(header, splitLength) == TRUE

RestIsSegment(header, splitLength) ==
    header.length - splitLength - HDR >= ALIGN

Split(h, this, splitLength) ==
    LET header == h.segs[this]
        newSplitHdr == this + splitLength + HDR
        linked == Relinked(h.segs, header.next, newSplitHdr)
        cut == [linked EXCEPT ![this].length = splitLength,
                              ![this].next = newSplitHdr]
    IN  IF RestIsSegment(header, splitLength)
        THEN [segs |-> With(cut, newSplitHdr,
                            [length |-> header.length - splitLength - HDR,
                             next |-> header.next, last |-> this,
                             free |-> header.free]),
              lastHdr |-> IF h.lastHdr = this THEN newSplitHdr ELSE h.lastHdr]
        ELSE h

(***************************************************************************)
(* CombineForward swallows a free successor; CombineBackward has a free    *)
(* predecessor do so.                                                      *)
(***************************************************************************)
CombineForward(h, this) ==
    LET next == h.segs[this].next
        after == h.segs[next].next
        grown == [Relinked(h.segs, after, this) EXCEPT
                    ![this].length = @ + h.segs[next].length + HDR,
                    ![this].next = after]
    IN  IF next = NULL THEN h
        ELSE IF ~h.segs[next].free THEN h
        ELSE [segs |-> Without(grown, next),
              lastHdr |-> IF next = h.lastHdr THEN this ELSE h.lastHdr]

CombineNothing(h, this) == h

CombineBackward(h, this) ==
    LET last == h.segs[this].last
    IN  IF last = NULL THEN h
        ELSE IF h.segs[last].free THEN CombineForward(h, last)
        ELSE h

(***************************************************************************)
(* malloc.                                                                 *)
(***************************************************************************)
Rounded(size) ==
    IF size % ALIGN > 0 THEN size - (size % ALIGN) + ALIGN ELSE size

Malloc(size) ==
    /\ ~panicked /\ request = 0
    /\ request' = Rounded(size)
    /\ currentSeg' = heapStart
    /\ UNCHANGED <<segments, LastHdr, heapEnd, held, pagesLeft, panicked>>

FitsWithHeader == segments[currentSeg].length + HDR >= request

Fits == segments[currentSeg].length >= request

(* The segment is free and long enough: it is cut to size and handed out.  *)
Take ==
    /\ ~panicked /\ request # 0
    /\ segments[currentSeg].free /\ Fits
    /\ LET h == Split(TheHeap, currentSeg, request)
       IN  HeapBecomes([h EXCEPT !.segs[currentSeg].free = FALSE])
    /\ held' = held \cup {[seg |-> currentSeg, size |-> request]}
    /\ request' = 0
    /\ currentSeg' = heapStart
    /\ UNCHANGED <<heapEnd, pagesLeft, panicked>>

Advance ==
    /\ ~panicked /\ request # 0
    /\ ~(segments[currentSeg].free /\ Fits)
    /\ segments[currentSeg].next # NULL
    /\ currentSeg' = segments[currentSeg].next
    /\ UNCHANGED <<segments, LastHdr, heapEnd, request, held, pagesLeft, panicked>>

(***************************************************************************)
(* ExpandHeap, and malloc over again.  A page frame that is not there is a *)
(* kernel panic in RequestPage.                                            *)
(***************************************************************************)
PagesRoundedDown(size) == size \div PAGE

PagesFor(size) == IF size % PAGE > 0 THEN size \div PAGE + 1 ELSE size \div PAGE

Expanded(length) ==
    LET header == [length |-> length - HDR, next |-> NULL, last |-> LastHdr,
                   free |-> TRUE]
        linked == [segments EXCEPT ![LastHdr].next = heapEnd]
    IN  CombineBackward([segs |-> With(linked, heapEnd, header),
                         lastHdr |-> heapEnd], heapEnd)

ExpandHeap ==
    /\ ~panicked /\ request # 0
    /\ ~(segments[currentSeg].free /\ Fits)
    /\ segments[currentSeg].next = NULL
    /\ IF PagesFor(request) <= pagesLeft
       THEN /\ HeapBecomes(Expanded(PagesFor(request) * PAGE))
            /\ heapEnd' = heapEnd + PagesFor(request) * PAGE
            /\ pagesLeft' = pagesLeft - PagesFor(request)
            /\ currentSeg' = heapStart
            /\ UNCHANGED panicked
       ELSE /\ panicked' = TRUE
            /\ UNCHANGED <<segments, LastHdr, heapEnd, pagesLeft, currentSeg>>
    /\ UNCHANGED <<request, held>>

(***************************************************************************)
(* free, of a block that is held.                                          *)
(***************************************************************************)
Free(block) ==
    LET seg == block.seg
        marked == [TheHeap EXCEPT !.segs[seg].free = TRUE]
    IN  /\ ~panicked /\ request = 0
        /\ HeapBecomes(CombineBackward(CombineForward(marked, seg), seg))
        /\ held' = held \ {block}
        /\ UNCHANGED <<heapEnd, request, currentSeg, pagesLeft, panicked>>

MallocStep == Take \/ Advance \/ ExpandHeap

Next ==
    \/ \E size \in Sizes : Malloc(size)
    \/ Take
    \/ Advance
    \/ ExpandHeap
    \/ \E block \in held : Free(block)

Spec == Init /\ [][Next]_vars

(* Nothing runs between the iterations of malloc.                          *)
FairSpec == Spec /\ WF_vars(MallocStep)

-----------------------------------------------------------------------------
(***************************************************************************)
(* Properties.                                                             *)
(***************************************************************************)

Addresses == heapStart .. heapEnd

(* Every variable has its type; no segment has a negative length, and no   *)
(* pointer leaves the headers.                                             *)
TypeOK ==
    /\ DOMAIN segments \subseteq Addresses
    /\ \A a \in DOMAIN segments :
         /\ segments[a].length \in 0 .. (heapEnd - heapStart)
         /\ segments[a].next \in DOMAIN segments \cup {NULL}
         /\ segments[a].last \in DOMAIN segments \cup {NULL}
         /\ segments[a].free \in BOOLEAN
    /\ LastHdr \in DOMAIN segments
    /\ heapEnd \in Nat
    /\ request \in Nat
    /\ pagesLeft \in 0 .. SparePages
    /\ panicked \in BOOLEAN

(* The segments tile the heap in the order of the list, the links agree in *)
(* both directions and LastHdr is the tail, after any sequence of splits,  *)
(* merges and expansions.                                                  *)
ListTilesHeap ==
    \A a \in DOMAIN segments :
      LET s == segments[a]
      IN  /\ a + HDR + s.length = IF s.next = NULL THEN heapEnd ELSE s.next
          /\ s.next # NULL => segments[s.next].last = a
          /\ s.last # NULL => segments[s.last].next = a
          /\ s.last = NULL <=> a = heapStart
          /\ s.next = NULL <=> a = LastHdr

(* free and ExpandHeap leave no two free segments side by side, so that    *)
(* freed memory can serve a larger request again.                          *)
NoAdjacentFree ==
    \A a \in DOMAIN segments :
      segments[a].free /\ segments[a].next # NULL
        => ~segments[segments[a].next].free

(* A block stays a segment of its own, in use and long enough, until its   *)
(* caller frees it, and every segment in use is somebody's block.          *)
HeldIntact ==
    /\ \A b \in held : /\ b.seg \in DOMAIN segments
                       /\ ~segments[b.seg].free
                       /\ segments[b.seg].length >= b.size
    /\ \A a \in DOMAIN segments :
         ~segments[a].free => \E b \in held : b.seg = a

(* malloc ends: with a block, or in the panic for lack of page frames.     *)
MallocReturns == request # 0 ~> (request = 0 \/ panicked)
=============================================================================
