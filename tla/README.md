# A verification of moldOS

TLA+ models of the moldOS kernel (`src/kernel`), the runs that check them with
TLC on small instances, and theorems about them that TLAPS proves for every
instance. Paths below are relative to `src/kernel/src` unless they start with
`src/`.

    tlc -config PageFrames.cfg MCPageFrames        # a run: its cfg, its MC module
    tlapm PageFrames_proofs.tla                    # the proofs of a module

`PROJECT.json` lists every run with the properties it checks, the source lines
of every definition, one mutant of the code per property (a change that makes
TLC find the property violated), the disagreements found between code and
comments, the hazards and the theorems.

## 1. The system

moldOS is a small x86-64 kernel with preemptive multitasking on one processor.
A UEFI loader reads kernel and RAM disk; `kernelMain` sets everything up, adds
two tasks and leaves for ring 3. From then on the kernel is entered by the timer
(18 times a second), by keyboard and mouse, and by the `syscall` instruction.
Interrupts are off in all handlers and, after the first instruction, in system
calls. What runs concurrently is therefore: programs with each other, at any
instruction; programs with handlers; and the boot sequence with handlers, from
its `sti` on.

| component | state | operations | used by |
|---|---|---|---|
| page frames, `memory/pfa.cpp`, `misc/bitmap` | the bitmap, the search index, three counters | ReadEFIMemoryMap, LockPages, RequestPage(s), FreePage(s) | everything below |
| page tables, `memory/ptm.cpp`, `paging.cpp` | four levels of tables | MapMemory, MapUserspaceMemory | boot, heap, PCI, AddTask, stacks, terminals, OPEN, ALLOCATEMEMORY, LLFS |
| heap, `memory/heap.cpp` | the doubly linked list of segments, `heapEnd`, `LastHdr` | malloc (Split, ExpandHeap), free (both merges) | VFS, ELF loader |
| tasks, `scheduling/taskmgr.cpp` | `tasks[]`, `currentTask`, `taskNum`, `isEnabled` | AddTask, Schedule, ExitCurrentTask | timer, EXIT, boot |
| context switch, `cpu/intrerupts.asm`, `cpu/tss.cpp`, `userspace/userspace.asm` | registers, RSP0 of the TSS, the frame on the stack | PUSH_REG, POP_REG, syscall_entry, RunInUserspace | hardware |
| system calls, `userspace/userspace.cpp` | none of its own | ten calls | programs (`src/mlib`, `src/apps/minit`) |
| terminals, `terminal/terminal.cpp`, `terminal/ansi.cpp` | a page of text, an index, the parser's place | append, ANSIPrint | WRITE, EXIT, log; the timer handler shows them |
| display, `drivers/display` | cursor, colour, two frame buffers | putc, cursorNewLine, scroll | ANSIPrint, HandleBlink, panic |
| files, `filesystem/vfs.cpp`, `llfs.cpp` | descriptors, the RAM disk's chain of entries | VFSAdd/Remove/Open/Read/Size, LLFSOpenFile | OPEN, READ, ELF loader |
| ELF loader, `elf/loader.cpp` | the image in memory | LoadELFExecutable | kernelMain |
| keyboard and mouse, `drivers/keyboard`, `drivers/mouse` | modifier keys, a buffer; three bytes of a packet | Handle, one byte at a time | IRQ 1 and 12 |
| boot, `kernelInit.h`, `kernel.cpp`, `panic.cpp` | the globals, as they become set | InitDrivers, kernelMain, KernelPanic | |
| PCI, RTC, PIT, PIC, GDT, serial, ACPI, SMBIOS, printf | constants in registers, tables of names | | |

What is hard in it, and is what the properties are for:

* **Interleaving.** A tick may come at any instruction of a program, between
  `syscall` and the `cli` behind it, in the jump to userspace, and between two
  system calls that belong together (one escape sequence is seven of them).
* **One allocator under everything.** One bitmap and one search index serve
  single pages, blocks and, in the middle of one MapMemory, the page tables.
  Its memory ends in a panic or, for blocks, in a NULL nobody tests.
* **Long sequences of legal calls.** malloc and free in any order must leave a
  list that tiles the heap; mapping again, opening and growing must leave the
  tables a tree.
* **Boundaries.** Rounding of sizes and bitmaps, a `strlen` that returns the
  index of the last character, headers of 25 bytes, a scroll of 16 lines that
  moves the cursor by 17, a buffer full to its last byte.
* **Address 0.** Two pointers are never assigned, handlers run before their
  objects exist, a failed RequestPages and the heap's first split write through
  null: all of them meet in the first forty bytes of memory, which is mapped.
* **One port for two devices.** A poll and two interrupt handlers read port
  0x60; a byte that is taken by the wrong one, or lost, shifts every packet.
* **Liveness.** malloc calls itself until a segment is long enough; the
  scheduler searches until it finds a task that has not exited.

What makes each part correct: a frame has one holder and nothing set aside is
handed out; the tables translate exactly what was mapped; a block of the heap
stays its caller's; a program cannot tell that others run; every program gets
its turn; the screen shows what the program wrote, and of a panic its message where it can; a
path opens the file of that name; pointer and keyboard buffer are what the
devices sent.

## 2. The modules

| order | module | of | with |
|---|---|---|---|
| 1 | `PageFrames` | the allocator, from the memory map to exhaustion | refines `FrameOwnership`; `PageFrames_proofs` |
| 2 | `Multitasking` | tasks, timer, context switch, entry of system calls, the end of kernelMain, composed in one module | refines `VirtualCpus`; `Multitasking_proofs` |
| 3 | `Heap` | malloc and free | `Heap_proofs` |
| 4 | `PageTables` | page tables and all who change them, over a first-fit pool of frames | refines `AddressSpace`; `PageTables_proofs` |
| 5 | `Terminals` | WRITE, the terminals, the timer handler's ANSIPrint, HandleBlink, the display's cursor, composed in one module | `Terminals_proofs` |
| 6 | `Files` | the RAM image, the descriptors of the VFS, both lookups, loading the first program, OPEN and READ | refines `Directory`; `Files_proofs` |
| 7 | `Ps2` | Mouse::Init, the keyboard's and the mouse's handlers, the controller with its one register and both devices | `Ps2_proofs` |
| 8 | `Boot` | InitDrivers and kernelMain stage by stage with interrupts on, KernelPanic where pages are requested, where a handler finds no object yet and in userspace, everything that is written at address 0 | `Boot_proofs` |

Modules state their parameters as CONSTANTS with a named ASSUME, have one action
per operation or handler, and no recursive operator, so that all can be proved
about. `MC<module>` gives values to the constants that a cfg cannot write.

**PageFrames.** `PageBitmap` is the set of indices whose bit is 1; `stage` says
how far boot is, `holders` is history: grants not yet returned, and `skipped` the
free pages that a search for a block has left behind its index. `ReadEFIMemoryMap`
follows the function's order of reserving, giving back and reserving again, with
`BootBitmap` the result, and counts as it does. `Tracked` has one index more than
the buffer has bits, because `Bitmap::Set` admits it; `strayBit` is what that
byte happened to hold. `RequestPages` moves the index as the code does, past the
free pages it has rejected. FreePage(s) have no callers in the kernel; the model
lets holders call them.

**Multitasking.** A register file is reduced to five fields: one register from
the half `POP_REG` takes before it reloads `rsp`, three from the half after, and
the `KernelRsp` slot. `Frame` is the stack an interrupt uses: the TSS's from ring
3, the current one from ring 0. `Tick` is the whole of PITHandler but for the
screen. System calls are two steps, the instruction and what happens after `cli`.

**Heap.** A segment is named by its header's address. malloc is modelled one
iteration of its loop at a time (`Malloc`, `Advance`, `Take`, `ExpandHeap`), free
in one step, with the merges as functions on the list. Page frames of expansions
come from a counter. Sizes are numbers without the wrap at 2^64. The store through a
null link of the first split is not in the heap, and is part of `Boot`.

**PageTables.** A table is named by its frame; 0 is NULL. `MapMemory` walks four
levels and takes frames where tables are missing, panicking in mid-walk when
there are none. Each caller is an action, with the number of pages it opens and
the order in which it asks for frames. `RequestPages` is PageFrames' abstracted to
the frames not yet passed by. `given` is history. The counts of ALLOCATEMEMORY are
`Requests`, without a bound, as arg1 is tested for zero only; those of the kernel's own
stacks and RAM disk are `BlockSizes`. `strayed` says that an entry of a table at NULL
was looked for, and ends the model.

**Terminals.** The pages of all terminals lie one after another in `memory`, so
that a write beyond one is a write to the next. ANSIPrint is one action per turn
of its loop, and the loop over parameters one per character, which ends at an
"m" and nowhere else, as in the code. `written` and `drawn` are history. A character is a string
that names it, and a foreground colour the second digit of its parameter. `Shows`
says of the glyphs drawn how many there are and, by rank, which character each is
and in which colour. Interrupts are off in the handler and in system calls, so that
neither interrupts the other: `handler = "none"` guards a write.

**Files.** A name is a sequence of characters padded to `NameLength`; strings
are compared as the code compares them, with `strlen` the index of the last
character and a path that may run on into the byte behind it (`tail`, what the
heap's last user left). kernelMain is three steps, one turn of its loop at a time
(`CheckImage`, `AddFile`, `RunInit`); a file's contents are whose they are and
whether they are a program.

**Ps2.** `port` is the controller's output register with the sender of the byte
in it, `irq` the request it raised; a device sends only while neither is pending.
`InitDrivers` has a step per statement of Mouse::Init and per global that becomes
set. The mouse sends one of `Reports`, byte by byte, and may lose one; keys go
down, repeat and come up. `target`, `caps` and `text` are history of what the
devices sent; `mishaps` records which of six events without remedy has befallen.

**Boot.** `Stages` is the order of InitDrivers and kernelMain. `low` says of each
of the five words of a DisplayBuffer at address 0 who wrote it last: `idt` and
`doubleBuffer` are never assigned, so that the IDTR and the double buffer's
descriptor lie there, and so do the objects of handlers that run early, the
`last` link that Split stores through null, text for a terminal without a page
and an image copied to null. `blocks` is how often RequestPages can still succeed,
`denied` whether it has failed. A tick that draws through a broken descriptor, or
a panic that cannot show, is `pc = "wild"`. `KernelPanic` may come in every stage
that calls RequestPage ("out of memory"; in `load` also without a moldInit), in every
stage before GlobalDisplay is set, when HandlePacket reads through it
(drivers/mouse/mouse.cpp:83) and the page fault's handler panics, and in userspace.
`name` is history: whether what the panic read for the name of the current task was
a name, something longer than the page, or not readable.

**The abstract specifications.** `FrameOwnership`: runs of frames are taken when
nobody holds them and given back. `VirtualCpus`: every program has a processor of
its own, calls act on their caller, turns go round. `AddressSpace`: a map of
pages, changed one page at a time, and a set of pages open to userspace.
`Directory`: files are added once, a path opens the first that matches it, a read
gives what was opened last.

## 3. What is checked

Passing runs; every action of their modules is taken in them.

| run | instance | shows |
|---|---|---|
| `PageFrames` | 17 pages around a hole, blocks of 1, 2, 3; 3 700 states | `TypeOK`; no frame has two holders (`GrantsDisjoint`); firmware, legacy area, bitmap and kernel are never granted (`GrantsAvoidWithheld`); the RAM counters agree with each other and the bitmap (`Accounting`); the allocator refines `FrameOwnership` (`OwnsFrames`); a panic leaves no page free but those that searches for blocks skipped (`PanicLosesOnlySkipped`) |
| `Multitasking` | idle task and two programs in four slots, the last of which may be stale; 20 000 states | no switch pops a broken frame (`NeverFaults`); programs cannot tell they share a processor and turns go round (`RunsLikeOwnCpus`, a refinement); everyone runs again and again (`EveryTaskRuns`), whoever has exited never again (`ExitedLeaves`) |
| `Heap` | sizes 0, 1, 3, 6, 9 on one page of 8 that grows by three; 408 000 states | the list tiles the heap with links agreeing both ways (`ListTilesHeap`); freed neighbours are merged (`NoAdjacentFree`); blocks stay whole (`HeldIntact`); malloc ends (`MallocReturns`) |
| `PageTables` | 16 frames, tables of 4 entries, requests of 3, 6 and 16 pages, to the last frame; 5 900 states | tables form a tree disjoint from free frames (`TablesFormTree`); the kernel's mapping stays (`KernelStaysMapped`); heap frames are private (`HeapFramesPrivate`); pages given have the user bit on all levels (`GivenPagesUsable`); a table at NULL is walked only for a request that could reach the end of memory (`StraysOnlyOnHugeRequest`); each step is one of `AddressSpace` (`ImplementsAddressSpace`) |
| `Terminals` | two terminals of ten characters, a screen of three by three glyphs; 145 000 states | the cursor stays on the screen (`CursorOnScreen`); a tick shows what the program wrote since the last reset, in its colours (`ShownIsWritten`); a write stays in its terminal's page (`WritesOwnPage`) |
| `Files` | every image of up to three files with names of every length, two descriptors, anything at address 0; 125 200 states | the two lookups together are one directory's (`ImplementsDirectory`); a file is opened by its name if no file before it differs in the last character only (`OpensNamedFile`); kernelMain takes the first file that matches, finds it corrupt only for a reason, and panics only if there is none (`StartsInit`; what it does with a corrupt one is `FilesCorrupt`) |
| `Ps2` | four reports, six keys, 8 bytes at any point of Mouse::Init or after it, one of them lost; 1 570 000 states | packets begin where reports do (`PacketsInStep`); the pointer follows all reports (`PointerFollowsReports`) and stays on the display (`PointerOnDisplay`); the buffer holds what was typed (`BufferHoldsText`); the controller keeps its configuration (`ConfigurationKept`); Mouse::Init ends (`InitEnds`) |
| `Boot` | three terminals of four lines, blocks for none to all of nine requests; 8 400 states | unless RequestPages has failed, ticks draw through a whole descriptor (`TicksDrawWell`), and a panic leaves its message on the screen if and only if terminal 0 has its page and is on display, the task has a readable name and the message does not fill the page (`PanicShown`) |

Runs that end in a violation, each a place where a comment of the source says
something the code does not do ("findings" quotes them):

| run | what happens |
|---|---|
| `MultitaskingBootTick` | a tick between `isEnabled = 1` and the end of RunInUserspace saves kernelMain as the idle task and starts a program before the TSS has a stack |
| `PageTablesExtra` | ALLOCATEMEMORY opens the page after its block to userspace |
| `TerminalsEscape` | a tick between two characters of an escape sequence finds no "m", and ANSIPrint writes behind its parameter buffers |
| `FilesCorrupt` | "moldInit is missing or corrupt." is never said of a corrupt one: kernelMain tests the loader's answer for 0, the loader answers 2, and a task is started at address 2 |

RequestPage panics "because we don't have free pages" (memory/pfa.cpp:66), and that is
not so either: a search for a block moves the shared index past free pages for good.
`PanicOnlyWhenFull` states the comment. It has no run of its own, since
`PanicLosesOnlySkipped` and the theorems below say exactly which pages may still be
free, and when the comment is right.

**Bounds, and why they are enough.** The sizes keep the ratios that the code's
cases depend on. PageFrames: the bitmap's bytes do not divide the memory, its own
pages do not fill the last one, the legacy area is part of the first segment,
there is a hole, and requests go on to the panic. Multitasking: two programs and
idle make "next" and "first" different, and one slot more than tasks. Heap: the
header is no multiple of the granularity, so that tails too short to split and
requests that miss by one header occur; it grows by three pages, each merged with
a free tail or linked behind a used one. PageTables: tables are shared by memory
and frame buffer, split between them, and new on every level; `MaxHeapPages`
bounds the heap at two pages, the second in a table of its own; of the `Requests` one
is below the limit that `StraysOnlyOnHugeRequest` names, one is above it and still
granted as long as six frames are left, one is as large as memory. PageTablesExtra has 20 frames and small requests, so that its trace is about the page after
a block that was granted. Terminals: text
and buffer lengths have no common divisor, so that resets fall on every
character, within escapes too; `Slack` bounds how far the parser reads behind
the last page. Files: names of one to four characters where a Filename has four,
so that one leaves no space and one no terminator behind it, twins in the last
character, names that are another's beginning, and one file more than descriptors;
`AtNull` has a descriptor that is free, one of no file, one of a file and one without a name.
Ps2: `MaxTraffic` = 8 is two reports and two bytes more, or four key codes, and
the buffer is full after two characters; movements leave the small display on
every side. Boot: `LastTerminal` = 2 is the terminal on display after boot,
a page of four lines overflows in the midst of a panic's three, and `MaxBlocks` = 9
is every request for a block. `CHECK_DEADLOCK FALSE` is given where KernelPanic halts the
machine, where a faulted machine stops or where the stack is overrun.

**Fairness.** Weak fairness of the boot steps (nothing else runs before the jump
to userspace) and of `Tick`: the timer is periodic, and ring 3 and the window
after `syscall` run with interrupts on. No program's own steps are fair: it may
spin. In Heap, weak fairness of malloc's iterations: nothing else runs in between.
In Ps2, weak fairness of InitDrivers and of both handlers: the processor goes on
and takes what interrupts are requested. Devices and keys are not fair. The other
modules state no liveness.

## 4. What is proved

`PageFrames_proofs`, for every memory map, geometry of the bitmap, kernel and
frame buffer, and every set of block sizes:

* `TypeCorrect`, `DisjointGrants`, `WithheldNeverGranted`, `CountersTruthful`,
  `ImplementsOwnership`;
* `PanicLosesNoOther`: when the kernel panics for lack of memory, every page it
  could still give has been skipped by a search for a block; and its corollary
  `SinglesPanicOnlyWhenFull`: without blocks the panic means what it says.

The assumptions are `SizesAssumption` (sizes are numbers and the bitmap has a bit
per page: what the division in ReadEFIMemoryMap yields) and `BlocksAssumption`
(no request for seven eighths of the memory at once: the search's bound is in
bytes, and past the bitmap `operator[]` reads every page as free). None of the
invariants is inductive alone: that a grant is not held already follows from held
frames having their bit set, that counters are right from the number of bits, that
withheld frames are never granted from their bits staying set, and that again from
FreePages touching held frames only. `IndInv` is the conjunction; a lemma per
effect (a run locked, granted, freed) says what becomes of bits and counters, and
`NextIndInv` has a step per action. The refinement maps each grant to `Take` and
each free to `GiveBack`.

`Terminals_proofs`, for every number and length of terminals, every output and
every display of more than two glyphs each way:

* `TypeCorrect`: no index passes the end of its buffer;
* `CursorStaysOnScreen`: from lemmas on new line and advance, which hold for a
  cursor beyond the last column too, since a wrap passes such a one on;
* `WritesStayInPage`: from the place a write goes to being below `maxLen` and
  pages of different terminals being disjoint (a product of two variables);
* `ShownAsWritten`: a tick shows what was written, in its colours.

`ShownAsWritten` assumes `Coloured`: on the terminal on display every escape sequence of the
program is whole and of the form `ESC [ 1 ; 3` digit `m`, as all of minit's and
of the kernel's are (`MCColoured` says that the run's program is one). Its
invariant has three parts next to the types. `PagesHold`: every page holds what
was written to it and zeros behind. `Written`: the text on display is a stretch of what the
program writes over and over, so that a sequence in it is whole as far as it goes
(`StretchRegular`). `Drawing`: while a tick goes on and the text ends outside a
sequence, the glyphs drawn show all that precedes the parser's place; inside a
sequence, the two parameters hold the digits read so far (`Reading`), and their
buffers are never outgrown. `TextIsShown` says that strlen finds the text one
short, which the bound of ANSIPrint's loop makes good; `ShowsNext`, `ShowsOver`
and `ColourKept`, `ColourSet` that the glyphs seen and the last colour of a text
follow from those of a shorter one, so that no induction over texts is needed.

`Heap_proofs`, for every size of header, page and first heap, every granularity,
supply of page frames and set of sizes:

* `HeapTypeCorrect`, `SegmentsAlwaysTile`, `FreeSegmentsApart`, `BlocksStayHeld`.

`HeapAssumption` asks that a header and the least segment fit into a page and that
the heap does not start at null. `ListTilesHeap` is not inductive: Split writes a
header at a computed address, and nothing in the links says that no header is
there already. `Listed` adds that no header lies inside another segment
(`Disjoint`), and the types. `HeldIntact` needs in addition that no two blocks
share a segment, or freeing one would free the other; `NoAdjacentFree` is broken
inside `free`, so that the lemmas carry it with exceptions (`ApartBut`): marking a
segment free leaves it and its predecessor as exceptions, and each merge removes
one. The lemmas state what Split, a merge, a mark and an expansion change, field
by field (`IsSplit`, `IsMerge`, `IsMarked`, `IsExtension`), then that each leaves a
list (`SplitKeeps`, `MergeKeeps`, ...) and the segments in use (`SameInUse`); there
is one lemma per action, and `StepIndInv` combines them.

`Boot_proofs`, for three or more terminals, every length of page and
every number of blocks:

* `BootDrawsWell`: unless RequestPages has failed, no tick draws through a broken
  descriptor;
* `BootPanicShown`: a panic is told only if it is heard, and one that is heard
  is told unless RequestPages has failed. Told: the kernel halts with the message on the
  screen. Heard: terminal 0 has its page and is on display, the task's name is a
  name, and the message is not the line that fills the page. So no message appears
  before terminal 0 has its page, in userspace (terminal 2 is on display), or where
  what is read as a name is none, as it may be from tmgr's garbage.

`BootAssumption` asks for a page of three lines or more, since the three lines of a
panic are far shorter than 4096 bytes. The invariant adds what the order of the
stages gives (`InOrder`: GlobalKeyboard is set before the double buffer's
descriptor is written, GlobalDisplay before a terminal says it is initialized),
that the three words of the descriptor that are drawn through stay as they were
written (`DescriptorKept`) and that terminal 0 has its page (`HasPage`), the
last two unless RequestPages has failed. `MessageLogged` follows the three lines of
a panic through a page that may start again at any of them, `PanicTold` is the one
step that matters, and `OthersSilent` says that no other action panics.

`Ps2_proofs`, for every configuration the firmware may leave, every set of reports,
every layout of keys and every size of display and buffer:

* `DriversTypeCorrect`, `PacketsStayInStep`, `ConfigurationStays`,
  `PointerStaysOnDisplay`, `BufferKeepsText`, `PointerKeepsFollowing`.

`Ps2Assumption` asks that the firmware has the keyboard on and the mouse's clock
running, that the layouts name letters and signs only, and that no layout has a NUL
where another has a character (the three tables of keyboard.h have zeros at the
same places). The invariant follows
the bytes of the mouse on their way: each acknowledgement belongs to a command that
Mouse::Init has sent (`Commands`); from the write of the mode on every byte of the
mouse raises an interrupt, and none does before (`Configured`); by the first report
`skipPacket` is spent on an acknowledgement (`Skipped`); and the handler is behind
the mouse by the byte that is pending (`InStep`). The last is what
`PacketsInStep` lacks to be inductive. `PointerOnDisplay` rests on the clamp after
each move alone, and so holds with bytes lost.

The last two theorems compare the drivers with histories, each with an invariant
that is inductive next to the first. `Buffered`: the keyboard object agrees with
the keys that are down, caps lock and the text (`Agrees`), or will once the code in the port is
handled; a request without a code is the answer to the question for the mode, which
no handler of a keyboard sees. It rests on what one code does to the buffer:
a letter appends or starts it anew (`LetterAgrees`), a backspace cuts the last
letter off (`BackspaceAgrees`), the other keys and all releases leave it
(`ModifierAgrees`, `ReleaseAgrees`). `Follows`: `Packet` holds
the report under way as far as it was handled, and `target` is where the
pointer will be when the packet that waits, or the byte that is
pending, is through (`Ahead`, `Led`). `MovedMoves` shows that the handler's
arithmetic on signs and overflows is that of nine-bit movements.

`Multitasking_proofs`, for every number of programs and slots:

* `TypeCorrect`, `SwitchesNeverFault`, `RunsLikeOwnCpus`.

All three ask for `CleanSlots` (the slots AddTask takes hold zeros), the last two
also for `~BootTicks` and for `FramesFit` (an `int` holds the address of every
stack in use); the passing run is such an instance, and section 5 says which of
these the code leaves to chance. `NeverFaults` is not inductive, for it does not
say what the slots hold. `Filled`: the table fills from the front, whatever ticks do
meanwhile. `BeforeTurns`: while kernelMain runs, every program waits at its first
instruction, and the stack of the TSS is set before the jump. `InTurns`: from then on
the processor has the registers of the current task and every slot
the whole registers of another (`Whole`), so that no frame that is popped is broken.
In the refinement the steps of kernelMain are stutters (`AddTaskUnseen`,
`KernelStepUnseen`), `sysret` starts the idle task (`SysretStarts`), what a program
does its own processor does (`ProgramsSeen`), and a tick passes the turn on
(`TickIsSwitch`).

`PageTables_proofs`, for every fan-out of the tables, memory, frame buffer, set of
block sizes and end of the heap:

* `TypeCorrect`, `TablesAreTree`, `KernelIsKept`, `HeapIsPrivate`,
  `GivenStayUsable`, `HugeRequestsStray`, `IsAddressSpace`.

`PageTablesAssumption` asks that the heap's virtual pages are neither memory nor
devices (the code puts the heap at a fixed high address) and that every virtual
page is below `Fanout^4`, which is what four levels can tell apart: with 512
entries, 48 bits of address. Of the kernel's own blocks, eight pages for a stack and the
RAM disk, it asks `Reach + count < Memory`: RequestPages compares an index of pages
with a size in bytes and so searches the first eighth of memory only, and the clause says
that the RAM disk, which the loader has put into the same memory, takes less than
seven eighths of it. Nothing is asked of `Requests`. A program's count
may be any number, and `HugeRequestsStray` says which ones reach pages without tables:
none with `Reach + count < Memory`, whether the block was granted or the loop starts
from NULL. Larger ones may, and the code has nothing that stops them. The proofs speak of two functions of the tables,
`Found` (what a walk finds for a page) and `Open` (whether all its levels have the
user bit). `TablesFormTree` becomes inductive with a level for each table
(`IsTree`), by which a table hangs from one entry of the level above and no walk
meets a free frame. The lemmas follow MapMemory down: two pages differ in one of
their four indices (`IndexesDistinguish`); a new table in an empty entry keeps the
tree and changes what no page finds (`HangTree`, `HangKeeps`, `WalkDownGood`); the
last write changes what one page finds (`OneWay`, `PlacePages`); so that
`MapMemoryMaps` and `MapUserspaceMemoryOpens` state the whole effect of each
function, and the seven actions follow from these two. `KernelMapped` excepts, while paging is
being set up, the pages still in `toMap`.

`Files_proofs`, for every length of a Filename, number of descriptors, image, set
of paths and content of the heap:

* `TypeCorrect`, `StartsFirstMatch`, `IsDirectory`, `OpensByName`.

They leave open what stands at address 0 (`AtNull`): a path that matches no file may
open anything, a file included, and `Directory` promises no more (`Unpromised`). So
that this excuses no other path, `asked` is history in both.

`FilesAssumption` says what names are made of: characters that are not the
padding, the terminator or the byte that marks a source, and that there is at least
one and no more than a Filename has. `PathEqOfRecord` and `EntryCompared` compute
what each of the two comparisons comes to, `strlen` included, on a descriptor and on what
follows it; `FoundIffMatches` says that the first is `Matches`, `FreeFound` that a
free descriptor is found by "/" alone, and `LLFSFinds` that the second finds
one entry, which is the same file when its name leaves two spaces, and none
when the byte behind the descriptor is not zero. A name that `Matches` admits leaves
two spaces (`MatchesShort`): this is why both lookups agree. The invariant
says that the table is the first entries in their order (`Table`), that a program
holds one of them or nothing (`Opened`), and what was started (`Start`).

**Only model-checked:** all liveness (fairness and ENABLED are beyond the
prover). Every safety invariant and action property that a passing run checks
is stated by a theorem.

## 5. What is assumed and what is left out

* Memory of variables without initialisers (`.bss`) is zero, as are the pages of
  terminals. The memset in InitDrivers clears an eighth of the section.
* Multitasking's passing run has no ticks in the jump to userspace
  (`BootTicks = FALSE`), zero in the slots AddTask takes (`CleanStates`) and no
  kernel stack at or above 2 GiB (`HighFrames = {}`; `Schedule` keeps `KernelRsp`
  in an `int`). The first is what `MultitaskingBootTick` is about. `tmgr` is a
  local of kernelMain without initialiser (taskmgr.cpp:56, kernel.cpp:73): what
  its slots hold is up to the stack's earlier users, and a slot among the first
  that looks taken would be scheduled as a task.
* PageFrames hands out the padding bits of the bitmap's last byte when memory is
  exhausted, just before it panics; the model does as the code does, and no
  property forbids it.
* The TLB is not modelled, nor what a panic prints, pixels, fonts and the copy
  between frame buffers. KernelPanic is the end of a behaviour.
* Terminals begins when the terminals exist and has no text but WRITE's: the
  kernel's log and EXIT append whole strings, which may pass the end of a page
  where single characters cannot. A full buffer, which has no terminator, is
  outside `ShownIsWritten`.
* In PageTables a stack is a block of any size in `BlockSizes`, and requests find
  their run below `Reach`. What a walk through a table at NULL reads and writes is
  not modelled: it ends the behaviour. Nor are requests of 2 GiB or more, for which
  the `int` of ALLOCATEMEMORY's loop (userspace.cpp:47) overflows. RequestPages finds no
  run past the end of memory, as the page there is reserved; a memory map with a
  hole may leave it free (`PageFrames` has such a map), which only concerns the requests that
  `StraysOnlyOnHugeRequest` excepts.
* PageFrames leaves out such requests (`BlocksAssumption`): no block is as long as what
  lies between the end of the search and the end of the bitmap. ALLOCATEMEMORY
  checks nothing of the kind.
* Files: OPEN copies for a missing file whatever stands at address 0, any of `AtNull`;
  which file a READ of it finds, if any, is up to those bytes. A program that the loader finds corrupt is run at address 2, since
  kernelMain tests for null only (kernel.cpp:82): `FilesCorrupt` shows it,
  `StartsInit` says when that happens, and what a task at address 2 executes is not
  modelled. VFSRemove and VFSExistsFileAt have no callers. READ returns a file as a whole.
* Ps2: the firmware's mouse does not report before Mouse::Init enables it. A
  handler runs as soon as its request stands, except that an instruction under
  way, a read of the port, may come first. A handler on a null object changes
  nothing but address 0. kbhit and getch have no callers.
* Boot: what stands behind address 0 where nobody has written is the firmware's
  and arbitrary; the task manager there is taken to be disabled. After a block was
  denied the image or text may lie over the descriptor, and nothing is promised of
  ticks or panics (`~denied` in `TicksDrawWell` and `PanicShown`). After boot
  terminal 2 is on display while a panic logs to terminal 0, so that its message is
  not seen: `PanicShown` says so. Faults of the kernel other than those on null
  objects are not modelled. The run has three terminals where the code has 2048; the
  proofs are for any number.

**Not modelled.** Reads of the RTC, which log.cpp makes for the time in front of each
line and which change nothing; the set-up of PIT, PIC,
GDT and MSRs, which writes constants; serial port, ACPI, SMBIOS and log, which are
output and formats of firmware; printf and the conversions of numbers, whose only
result is text; the loops over PCI buses, which read hardware that nothing else
uses; the copy of ELF segments to the addresses the file names; the `ctype`
functions of mlib; the boot loader, straight-line calls of firmware services.

Of the repository's lines most are none of the kernel's logic: `src/gnu-efi` is a
vendored library of twenty-seven thousand lines, `elf/elf.h` is the C library's header
with four thousand constants, `pcitranslate.cpp` and the headers of scan codes and
fonts are tables. The definitions of the models cover the allocator, the heap, the
page tables, the scheduler, the system calls, terminals, files, keyboard, mouse and
boot; a larger share of the repository could be covered only by restating such
tables.
