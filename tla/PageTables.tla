------------------------------ MODULE PageTables ------------------------------
(***************************************************************************)
(* The four-level page tables (kernel/src/memory/ptm.cpp) and those who    *)
(* change them: EnablePaging at boot, the heap, the PCI scan, and whoever  *)
(* opens pages to userspace.  Memory is mapped one to one, so that a table *)
(* is named by its frame and page 0 is what NULL points to.                *)
(***************************************************************************)
EXTENDS Integers, Sequences

CONSTANTS
    Fanout,         \* entries of a table: 512 in the code
    Memory,         \* GetMemorySize, in frames
    Locked,         \* frames that are not free when EnablePaging starts
    Reach,          \* where RequestPages stops its search
    Framebuffer,    \* its pages, in order, above Memory
    PciPages,       \* configuration space, above Memory
    HeapStart,      \* the first virtual page of the heap
    MaxHeapPages,   \* a bound on the heap
    BlockSizes,     \* how many pages the kernel asks for: stack, RAM disk
    Requests        \* how many pages a program asks for: arg1 is not checked

Frames == 0 .. Memory - 1
Devices == PciPages \cup {Framebuffer[i] : i \in 1 .. Len(Framebuffer)}
HeapArea == HeapStart .. HeapStart + MaxHeapPages - 1
VirtualPages == 0 .. Memory \cup Devices \cup HeapArea

ASSUME PageTablesAssumption ==
    /\ Fanout \in Nat \ {0, 1} /\ Memory \in Nat
    /\ Locked \subseteq Frames /\ 0 \in Locked /\ Locked # Frames
    /\ Framebuffer \in Seq(Nat) /\ PciPages \subseteq Nat
    /\ HeapStart \in Nat /\ MaxHeapPages \in Nat
    /\ BlockSizes \subseteq Nat \ {0} /\ Requests \subseteq Nat \ {0}
    /\ Reach \in Nat /\ \A count \in BlockSizes : Reach + count < Memory
    /\ HeapArea \cap (Frames \cup Devices) = {}
    /\ \A v \in VirtualPages : v < Fanout * (Fanout * (Fanout * Fanout))

NULL == 0
Indexes == 0 .. Fanout - 1

VARIABLES
    tables,         \* the frames that are tables, with their entries
    free,           \* the free frames that the allocator has not passed by
    toMap,          \* what EnablePaging has yet to map
    heapEnd,
    given,          \* history: the pages userspace was meant to get
    strayed,        \* an entry has been looked for in a table at NULL
    panicked

vars == <<tables, free, toMap, heapEnd, given, strayed, panicked>>

Lowest(S) == CHOOSE x \in S : \A y \in S : x <= y

Absent == [present |-> FALSE, user |-> FALSE, addr |-> NULL]
EmptyTable == [i \in Indexes |-> Absent]

PML4 == Lowest(Frames \ Locked)

Init ==
    /\ tables = [t \in {PML4} |-> EmptyTable]
    /\ free = Frames \ (Locked \cup {PML4})
    /\ toMap = [i \in 1 .. Memory |-> i - 1] \o Framebuffer
    /\ heapEnd = HeapStart
    /\ given = {}
    /\ strayed = FALSE
    /\ panicked = FALSE

(***************************************************************************)
(* GetIndexes and PageMapIndexer: the address of page v is shifted by one  *)
(* index after the other, the lowest table's first, the PML4's last.       *)
(***************************************************************************)
GetIndexes(v) ==
    LET v2 == v \div Fanout
        v3 == v2 \div Fanout
        v4 == v3 \div Fanout
    IN  <<v % Fanout, v2 % Fanout, v3 % Fanout, v4 % Fanout>>

IndexInUpperTable(v, level) == GetIndexes(v)[IF level = 4 THEN 3 ELSE level]

Index(v, level) == GetIndexes(v)[level]

(***************************************************************************)
(* MapMemory goes down from the PML4 and takes a frame for every table     *)
(* that is missing.  The walk carries the tables, the free frames and the  *)
(* table it is at.  An entry that gets an address keeps its other bits.    *)
(***************************************************************************)
SetAddress(entry, f) == [entry EXCEPT !.present = TRUE, !.addr = f]

WithTable(walk, i, new) ==
    [walk EXCEPT
       !.tables = [t \in DOMAIN walk.tables \cup {new} |->
                     IF t = new THEN EmptyTable
                     ELSE IF t = walk.at
                          THEN [walk.tables[t] EXCEPT ![i] = SetAddress(@, new)]
                          ELSE walk.tables[t]],
       !.free = @ \ {new},
       !.at = new]

DescendUnchecked(walk, i) ==
    LET entry == walk.tables[walk.at][i]
    IN  IF entry.present THEN [walk EXCEPT !.at = entry.addr]
        ELSE IF walk.free = {} THEN WithTable(walk, i, NULL)
        ELSE WithTable(walk, i, Lowest(walk.free))

DescendNotTaking(walk, i) ==
    LET entry == walk.tables[walk.at][i]
    IN  CASE walk.panicked -> walk
          [] ~walk.panicked /\ entry.present -> [walk EXCEPT !.at = entry.addr]
          [] ~walk.panicked /\ ~entry.present /\ walk.free = {} ->
               [walk EXCEPT !.panicked = TRUE]
          [] OTHER -> [WithTable(walk, i, Lowest(walk.free)) EXCEPT
                         !.free = walk.free]

DescendIntoNew(walk, i) ==
    IF walk.panicked \/ walk.free = {} THEN [walk EXCEPT !.panicked = TRUE]
    ELSE WithTable(walk, i, Lowest(walk.free))

Descend(walk, i) ==
    LET entry == walk.tables[walk.at][i]
    IN  IF walk.panicked THEN walk
        ELSE IF entry.present THEN [walk EXCEPT !.at = entry.addr]
        ELSE IF walk.free = {} THEN [walk EXCEPT !.panicked = TRUE]
        ELSE WithTable(walk, i, Lowest(walk.free))

(* Once the tables are there the entry of the page itself gets its frame.  *)
MapMemory(available, v, f) ==
    LET atPml4 == [tables |-> tables, free |-> available, at |-> PML4,
                   panicked |-> FALSE]
        walk == Descend(Descend(Descend(atPml4, Index(v, 4)), Index(v, 3)),
                        Index(v, 2))
    IN  IF walk.panicked THEN walk
        ELSE [walk EXCEPT !.tables =
                [walk.tables EXCEPT ![walk.at][Index(v, 1)] = SetAddress(@, f)]]

TablesBecome(walk) ==
    /\ tables' = walk.tables
    /\ free' = walk.free
    /\ panicked' = walk.panicked

(***************************************************************************)
(* The walk of the processor, and of MapUserspaceMemory, which follows the *)
(* address of an entry, 0 when it is absent, without a look at Present.    *)
(***************************************************************************)
Below(t, i) == IF t # NULL /\ tables[t][i].present THEN tables[t][i].addr
                                                   ELSE NULL
TableAt3(v) == Below(PML4, Index(v, 4))
TableAt2(v) == Below(TableAt3(v), Index(v, 3))
TableAt1(v) == Below(TableAt2(v), Index(v, 2))

Path(v) == {<<PML4, Index(v, 4)>>, <<TableAt3(v), Index(v, 3)>>,
            <<TableAt2(v), Index(v, 2)>>, <<TableAt1(v), Index(v, 1)>>}

LastEntry(v) == <<TableAt1(v), Index(v, 1)>>

MapLastEntryOnly(pages) ==
    LET entries == {LastEntry(v) : v \in pages}
    IN  /\ tables' = [t \in DOMAIN tables |-> [i \in Indexes |->
                        [tables[t][i] EXCEPT !.user = @ \/ <<t, i>> \in entries]]]
        /\ strayed' = strayed

MapUserspaceMemory(pages) ==
    LET entries == UNION {Path(v) : v \in pages}
    IN  /\ tables' = [t \in DOMAIN tables |-> [i \in Indexes |->
                        [tables[t][i] EXCEPT !.user = @ \/ <<t, i>> \in entries]]]
        /\ strayed' = (strayed \/ \E v \in pages : TableAt1(v) = NULL)

(***************************************************************************)
(* EnablePaging maps memory and framebuffer, a page at a time; cr3 is      *)
(* loaded when nothing is left to map.  Once entries have been looked for  *)
(* in what stands at address 0, and written there and where that leads to, *)
(* anything may happen, and the model ends.                                *)
(***************************************************************************)
Running == toMap = <<>> /\ ~panicked /\ ~strayed

EnablePaging ==
    /\ toMap # <<>> /\ ~panicked
    /\ TablesBecome(MapMemory(free, Head(toMap), Head(toMap)))
    /\ toMap' = Tail(toMap)
    /\ UNCHANGED <<heapEnd, given, strayed>>

(***************************************************************************)
(* A page of the heap: the frame is requested before MapMemory's tables.   *)
(***************************************************************************)
GrowHeapTablesFirst ==
    /\ Running /\ heapEnd < HeapStart + MaxHeapPages
    /\ IF free = {}
       THEN panicked' = TRUE /\ UNCHANGED <<tables, free>>
       ELSE TablesBecome(MapMemory(free, heapEnd, Lowest(free)))
    /\ heapEnd' = heapEnd + 1
    /\ UNCHANGED <<toMap, given, strayed>>

GrowHeap ==
    /\ Running /\ heapEnd < HeapStart + MaxHeapPages
    /\ IF free = {}
       THEN panicked' = TRUE /\ UNCHANGED <<tables, free>>
       ELSE TablesBecome(MapMemory(free \ {Lowest(free)}, heapEnd, Lowest(free)))
    /\ heapEnd' = heapEnd + 1
    /\ UNCHANGED <<toMap, given, strayed>>

(* EnumerateBus, EnumerateDevice and EnumerateFunction map configuration   *)
(* space before they look at it, the same page more than once.             *)
MapDevice(v) ==
    /\ Running
    /\ TablesBecome(MapMemory(free, v, v))
    /\ UNCHANGED <<toMap, heapEnd, given, strayed>>

(***************************************************************************)
(* Opening pages to userspace.                                             *)
(***************************************************************************)

(* AddTask opens the page of the entry point: a program's is in the heap,  *)
(* IdleTask's in the kernel, and a program that the loader finds corrupt   *)
(* has the loader's 2 for its entry point, in page 0.                      *)
AddTask(entry) ==
    /\ Running /\ entry \in Locked \cup HeapStart .. heapEnd - 1
    /\ MapUserspaceMemory({entry})
    /\ given' = given \cup {entry}
    /\ UNCHANGED <<free, toMap, heapEnd, panicked>>

(* OPEN, with a page for the descriptor.                                   *)
SyscallOpen ==
    /\ Running
    /\ IF free = {}
       THEN panicked' = TRUE /\ UNCHANGED <<tables, free, given, strayed>>
       ELSE LET descriptor == Lowest(free)
            IN  /\ free' = free \ {descriptor}
                /\ MapUserspaceMemory({descriptor})
                /\ given' = given \cup {descriptor}
                /\ UNCHANGED panicked
    /\ UNCHANGED <<toMap, heapEnd>>

(* RequestPages (PageFrames has it in full): the first run of free frames  *)
(* that starts below Reach or, when there is none, NULL; the frames in     *)
(* front of the run are passed by.  ReadEFIMemoryMap has reserved the page *)
(* after memory, unless the map has a hole: no run goes on beyond it.      *)
Block(base, count) == base .. base + count - 1

RunsAnywhere(count) == {base \in free : Block(base, count) \subseteq free}

RunsOf(count) ==
    {base \in free : base < Reach /\ Block(base, count) \subseteq free}

RequestPages(count) == IF RunsOf(count) = {} THEN NULL ELSE Lowest(RunsOf(count))

SearchStops(count) ==
    IF RunsOf(count) = {} THEN Lowest((Reach - 1 .. Memory) \ free)
                          ELSE RequestPages(count) + count - 1

(* The block at base is there for userspace, and pages are opened.         *)
OpenPages(base, count, pages) ==
    /\ free' = {f \in free : f > SearchStops(count)}
    /\ MapUserspaceMemory(pages)
    /\ given' = IF base = NULL THEN given
                              ELSE given \cup (Block(base, count) \cap pages)
    /\ UNCHANGED <<toMap, heapEnd, panicked>>

(* LLFSMap opens the page of every header in the copy of the RAM disk.     *)
LLFSMap(count) ==
    /\ Running
    /\ LET LLFSSource == RequestPages(count)
       IN  \E headers \in SUBSET Block(LLFSSource, count) :
             OpenPages(LLFSSource, count, headers)

(* A terminal's buffer is one page.                                        *)
InitTerminal ==
    /\ Running
    /\ LET buffer == RequestPages(1)
       IN  OpenPages(buffer, 1, {buffer})

(* GenerateUserspaceStack steps by pages; AddTask opens the first again.   *)
GenerateUserspaceStack(count) ==
    /\ Running
    /\ LET Stack == RequestPages(count)
       IN  OpenPages(Stack, count, Block(Stack, count))

(* ALLOCATEMEMORY steps by bytes, up to and with the first of the page     *)
(* after the block.  The program's count is looked at for 0 alone, and the *)
(* answer not at all.                                                      *)
SyscallAllocateMemory(count) ==
    /\ Running
    /\ LET mem == RequestPages(count)
       IN  OpenPages(mem, count, Block(mem, count + 1))

Next ==
    \/ EnablePaging
    \/ GrowHeap
    \/ \E v \in PciPages : MapDevice(v)
    \/ \E v \in Locked \cup HeapStart .. heapEnd - 1 : AddTask(v)
    \/ SyscallOpen
    \/ InitTerminal
    \/ \E count \in BlockSizes : GenerateUserspaceStack(count)
    \/ \E count \in BlockSizes : LLFSMap(count)
    \/ \E count \in Requests : SyscallAllocateMemory(count)

Spec == Init /\ [][Next]_vars

-----------------------------------------------------------------------------
(***************************************************************************)
(* Properties.                                                             *)
(***************************************************************************)

HeapPages == HeapStart .. heapEnd - 1

Mapped(v) == TableAt1(v) # NULL /\ tables[TableAt1(v)][Index(v, 1)].present
FrameOf(v) == tables[TableAt1(v)][Index(v, 1)].addr
IsUser(v) == TableAt1(v) # NULL /\ tables[TableAt1(v)][Index(v, 1)].user

(* Every variable has its type, and no table is made where none may be.    *)
TypeOK ==
    /\ DOMAIN tables \subseteq Frames \ Locked
    /\ \A t \in DOMAIN tables, i \in Indexes :
         /\ tables[t][i].present \in BOOLEAN
         /\ tables[t][i].user \in BOOLEAN
         /\ tables[t][i].addr \in VirtualPages
    /\ free \subseteq Frames \ Locked
    /\ toMap \in Seq(Nat)
    /\ heapEnd \in HeapStart .. HeapStart + MaxHeapPages
    /\ given \subseteq VirtualPages
    /\ strayed \in BOOLEAN
    /\ panicked \in BOOLEAN

(* The tables that the walks of MapMemory leave form a tree: no frame is a *)
(* table twice, or both a table and free.                                  *)
TablesUnder(t) ==
    {tables[t][i].addr : i \in {j \in Indexes : t \in DOMAIN tables /\ tables[t][j].present}}

TablesFormTree ==
    LET threes == TablesUnder(PML4)
        twos == UNION {TablesUnder(t) : t \in threes}
        ones == UNION {TablesUnder(t) : t \in twos}
        upper == {PML4} \cup threes \cup twos
    IN  /\ DOMAIN tables = upper \cup ones
        /\ threes \cap twos = {} /\ (threes \cup twos) \cap ones = {}
        /\ PML4 \notin threes \cup twos \cup ones
        /\ \A t \in upper, s \in upper : \A i \in Indexes, j \in Indexes :
             /\ tables[t][i].present /\ tables[s][j].present
             /\ tables[t][i].addr = tables[s][j].addr
             => t = s /\ i = j
        /\ DOMAIN tables \cap free = {}

(* From the load of cr3 on, all memory and the framebuffer are mapped one  *)
(* to one, whatever is mapped after them: the kernel runs on that.         *)
KernelStaysMapped ==
    Running => \A v \in Frames \cup {Framebuffer[i] : i \in 1 .. Len(Framebuffer)} :
                 Mapped(v) /\ FrameOf(v) = v

(* The frame of a heap page is no table, no free frame and no other heap   *)
(* page's.                                                                 *)
HeapFramesPrivate ==
    ~panicked => \A v \in HeapPages :
      /\ Mapped(v)
      /\ FrameOf(v) \notin DOMAIN tables \cup free
      /\ \A w \in HeapPages : FrameOf(v) = FrameOf(w) => v = w

(* A page given to userspace can be used there: the processor wants the    *)
(* user bit on every level.                                                *)
GivenPagesUsable ==
    \A v \in given : Mapped(v) /\ \A e \in Path(v) : tables[e[1]][e[2]].user

(* The tables implement the abstract address space: each step maps one     *)
(* page or opens some, and no other page is affected.                      *)
NoFrame == -1

Abstract == INSTANCE AddressSpace WITH
    Frames <- Frames \cup Devices,
    Unmapped <- NoFrame,
    frameOf <- [v \in VirtualPages |-> IF Mapped(v) THEN FrameOf(v) ELSE NoFrame],
    user <- {v \in VirtualPages : IsUser(v)}

ImplementsAddressSpace == Abstract!Spec

(* MapUserspaceMemory follows entries without a look at Present, and       *)
(* ALLOCATEMEMORY checks neither its count nor the answer of RequestPages. *)
(* Pages without tables are opened all the same only when a program asks   *)
(* for so much that a block below Reach could end with the last frame of   *)
(* memory, seven eighths of it: no smaller request strays, granted or not, *)
(* and neither does anything the kernel opens for itself.                  *)
StraysOnlyOnHugeRequest ==
    [][strayed' => \/ strayed
                   \/ \E count \in Requests : /\ Reach + count >= Memory
                                              /\ SyscallAllocateMemory(count)]_vars

(* "map them" (userspace.cpp): what ALLOCATEMEMORY opens to userspace are  *)
(* the pages it has requested.                                             *)
OnlyGivenPagesOpened == \A v \in VirtualPages : IsUser(v) => v \in given

=============================================================================
