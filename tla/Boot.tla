-------------------------------- MODULE Boot --------------------------------
(***************************************************************************)
(* The boot sequence (kernel/src/kernelInit.h, kernel.cpp) with interrupts *)
(* on, and KernelPanic wherever RequestPage is called, wherever a handler  *)
(* runs on an object that is not there yet, and in userspace.  What ties   *)
(* its parts together is address 0: idt and doubleBuffer are never         *)
(* assigned, the handlers run before their objects exist, the heap's first *)
(* split writes through a null link, and RequestPages answers null when no *)
(* block is left.  The descriptor of the double buffer lies in the same    *)
(* five words that all of these write.                                     *)
(***************************************************************************)
EXTENDS Integers, Sequences

CONSTANTS
    LastTerminal,       \* 0x7FF in the code
    PageLines,          \* lines that the page of a terminal holds
    MaxBlocks           \* a bound: blocks that RequestPages can still find

Terminals == 0 .. LastTerminal

ASSUME BootAssumption ==
    /\ LastTerminal \in Nat /\ LastTerminal >= 2 /\ MaxBlocks \in Nat
    /\ PageLines \in Nat /\ PageLines >= 3    \* the three lines of a panic fit in 4096 bytes

VARIABLES
    pc,                 \* the stage that comes next
    turn,               \* of the loop over the terminals
    blocks,             \* that RequestPages can still find
    denied,             \* history: RequestPages has answered null
    low,                \* of each word at address 0: who wrote it last
    GlobalKeyboard,     \* and GlobalMouse: are set
    GlobalDisplay,      \* is set
    GlobalTaskManager,  \* "NULL", or what its tasks are: "garbage" or "added"
    terminals,          \* initialized, and whether buffer is a page or null
    CurrentTerminal,
    log,                \* the lines in the page of terminal 0
    screen,             \* the lines on it
    cause,              \* the stage in which the kernel panicked
    name                \* history: what the panic found for the name of a task

memory == <<blocks, denied>>
globals == <<GlobalKeyboard, GlobalDisplay, GlobalTaskManager>>
console == <<terminals, CurrentTerminal, log>>
vars == <<pc, turn, memory, low, globals, console, screen, cause, name>>

(* The stages of InitDrivers and kernelMain, each with the next.           *)
Stages ==
    [idt |-> "paging", paging |-> "input", input |-> "heap", heap |-> "double",
     double |-> "display", display |-> "padding", padding |-> "terminal",
     terminal |-> "page", page |-> "map", map |-> "acpi", acpi |-> "check",
     check |-> "print", print |-> "image", image |-> "vfs", vfs |-> "manager",
     manager |-> "load", load |-> "tasks", tasks |-> "enable", enable |-> "userspace"]

(* The stages in which RequestPage is called, which panics; "load" panics  *)
(* without a moldInit as well.                                             *)
Requesting == {"idt", "paging", "heap", "double", "acpi", "vfs", "load"}

(* The fields of a DisplayBuffer.                                          *)
Words == {"BaseAddr", "BufferSize", "Width", "Height", "PixelPerScanLine"}

Init ==
    /\ pc = "idt" /\ turn = 0
    /\ blocks \in 0 .. MaxBlocks /\ denied = FALSE
    /\ low = [w \in Words |-> "firmware"]
    /\ GlobalKeyboard = FALSE /\ GlobalDisplay = FALSE /\ GlobalTaskManager = "NULL"
    /\ terminals = [t \in Terminals |-> [initialized |-> FALSE, page |-> FALSE]]
    /\ CurrentTerminal = 0
    /\ log = <<>> /\ screen = <<>>
    /\ cause = "none" /\ name = "none"

-----------------------------------------------------------------------------
(***************************************************************************)
(* The order of the stages, and what they share.                           *)
(***************************************************************************)
AfterInputLate(stage) ==
    [Stages EXCEPT !.paging = "heap", !.display = "input", !.input = "padding"][stage]
After(stage) == Stages[stage]

Go(stage) == pc = stage /\ pc' = After(stage)

Written(words, writer) == [w \in Words |-> IF w \in words THEN writer ELSE low[w]]

RequestPages ==
    /\ blocks' = IF blocks = 0 THEN 0 ELSE blocks - 1
    /\ denied' = (denied \/ blocks = 0)

(* A full page starts again at its front.                                  *)
AppendedUntilFull(lines, line) ==
    IF Len(lines) >= PageLines THEN lines ELSE Append(lines, line)
Appended(lines, line) == IF Len(lines) >= PageLines THEN <<line>> ELSE Append(lines, line)

(* Where the heap's Split stores to next->last when next is null.          *)
SplitLink == "Width"

(* The double buffer can be drawn on: Width and Height are read of the     *)
(* other descriptor only.                                                  *)
Intact == GlobalDisplay /\ \A w \in Words \ {"Width", "Height"} : low[w] = "double"

-----------------------------------------------------------------------------
(***************************************************************************)
(* The stages.  InitIntrerupts writes the IDTR through idt, and loads it.  *)
(***************************************************************************)
InitIntrerupts ==
    /\ Go("idt")
    /\ low' = Written({"BaseAddr", "BufferSize"}, "idt")
    /\ UNCHANGED <<turn, memory, globals, console, screen, cause, name>>

(* What shows here only when it panics or prints: EnablePaging,            *)
(* InitializeHeap, InitACPI and SMBiosParse.                               *)
Others ==
    /\ Go("paging") \/ Go("heap") \/ Go("acpi") \/ Go("print")
    /\ UNCHANGED <<turn, memory, low, globals, console, screen, cause, name>>

InitInput ==
    /\ Go("input")
    /\ GlobalKeyboard' = TRUE
    /\ UNCHANGED <<turn, memory, low, GlobalDisplay, GlobalTaskManager, console, screen, cause, name>>

DoubleBuffer ==
    /\ Go("double")
    /\ RequestPages
    /\ low' = [Written(Words, "double") EXCEPT
                 !["BaseAddr"] = IF blocks = 0 THEN "zero" ELSE "double"]
    /\ UNCHANGED <<turn, globals, console, screen, cause, name>>

(* clearScreen through a null BaseAddr clears the descriptor itself.       *)
InitDisplay ==
    /\ Go("display")
    /\ GlobalDisplay' = TRUE
    /\ low' = IF low["BaseAddr"] = "zero" THEN Written(Words, "zero") ELSE low
    /\ UNCHANGED <<turn, memory, GlobalKeyboard, GlobalTaskManager, console, screen, cause, name>>

Padding ==
    /\ Go("padding")
    /\ RequestPages
    /\ UNCHANGED <<turn, low, globals, console, screen, cause, name>>

(* VirtualTerminal::init says initialized first, and has a buffer later.   *)
InitTerminal ==
    /\ Go("terminal")
    /\ terminals' = [terminals EXCEPT ![turn].initialized = TRUE]
    /\ UNCHANGED <<turn, memory, low, globals, CurrentTerminal, log, screen, cause, name>>

TerminalPage ==
    /\ Go("page")
    /\ RequestPages
    /\ terminals' = [terminals EXCEPT ![turn].page = blocks # 0]
    /\ UNCHANGED <<turn, low, globals, CurrentTerminal, log, screen, cause, name>>

NextTerminal ==
    /\ \/ turn = LastTerminal /\ Go("map") /\ UNCHANGED turn
       \/ turn < LastTerminal /\ pc = "map" /\ pc' = "terminal" /\ turn' = turn + 1
    /\ UNCHANGED <<memory, low, globals, console, screen, cause, name>>

(* A line of the log or of printf goes into terminal 0, whose buffer may   *)
(* be null.                                                                *)
Say(line) ==
    IF terminals[0].page
    THEN log' = Appended(log, line) /\ UNCHANGED low
    ELSE /\ \E words \in SUBSET Words : low' = Written(words \cup {"BaseAddr"}, "text")
         /\ UNCHANGED log

PrintLine ==
    /\ pc \in {"acpi", "print", "manager"}
    /\ Say("line")
    /\ UNCHANGED <<pc, turn, memory, globals, terminals, CurrentTerminal, screen, cause, name>>

(* An image that is missing or rejected: an error, and an endless loop.    *)
CheckImage ==
    /\ \/ Go("check") /\ UNCHANGED <<low, log>>
       \/ pc = "check" /\ pc' = "halted" /\ Say("error")
    /\ UNCHANGED <<turn, memory, globals, terminals, CurrentTerminal, screen, cause, name>>

(* The image is copied to what RequestPages returns, null included.        *)
CopyImage ==
    /\ Go("image")
    /\ RequestPages
    /\ low' = IF blocks = 0 THEN Written(Words, "image") ELSE low
    /\ UNCHANGED <<turn, globals, console, screen, cause, name>>

(* VFSInit's are the first mallocs: each splits the last segment.          *)
Malloc ==
    /\ Go("vfs") \/ Go("load")
    /\ low' = Written({SplitLink}, "heap")
    /\ UNCHANGED <<turn, memory, globals, console, screen, cause, name>>

(* tmgr is a local whose tasks are not initialised.                        *)
SetTaskManager ==
    /\ Go("manager")
    /\ GlobalTaskManager' = "garbage"
    /\ UNCHANGED <<turn, memory, low, GlobalKeyboard, GlobalDisplay, console, screen, cause, name>>

AddTask ==
    /\ \/ GlobalTaskManager = "garbage" /\ pc = "tasks" /\ UNCHANGED pc
       \/ GlobalTaskManager = "added" /\ Go("tasks")
    /\ RequestPages
    /\ GlobalTaskManager' = "added"
    /\ UNCHANGED <<turn, low, GlobalKeyboard, GlobalDisplay, console, screen, cause, name>>

Enable ==
    /\ Go("enable")
    /\ RequestPages
    /\ CurrentTerminal' = 2
    /\ UNCHANGED <<turn, low, globals, terminals, log, screen, cause, name>>

-----------------------------------------------------------------------------
(***************************************************************************)
(* Interrupts, on from the loaded IDT to a panic.  Before GlobalKeyboard   *)
(* and GlobalMouse are set both handlers keep their state at address 0, at *)
(* an index that the firmware has left there.                              *)
(***************************************************************************)
Interrupts == pc \notin {"idt", "panicked", "wild"}

NullHandler ==
    /\ Interrupts /\ ~GlobalKeyboard
    /\ \E w \in Words : low' = Written({w}, "input")
    /\ UNCHANGED <<pc, turn, memory, globals, console, screen, cause, name>>

Text(lines) == IF CurrentTerminal = 0 /\ terminals[0].page THEN lines ELSE <<>>

(* A tick draws the terminal on display.  A null buffer has no text: its   *)
(* first byte is that of BaseAddr, the address of a page.  Schedule finds  *)
(* no isEnabled: in tmgr it is 0, and so it is taken to be behind null.    *)
PITHandler ==
    /\ Interrupts /\ terminals[CurrentTerminal].initialized
    /\ pc' = IF Intact THEN pc ELSE "wild"
    /\ screen' = IF Intact THEN Text(log) ELSE screen
    /\ UNCHANGED <<turn, memory, low, globals, console, cause, name>>

(***************************************************************************)
(* KernelPanic logs three lines and shows the terminal on display.  The    *)
(* name of the current task is read through null, where the size of the    *)
(* double buffer is an address in memory, or from tmgr's garbage: unless   *)
(* it can be read, the fault comes back here without end.  What is no name *)
(* may be longer than the page, which starts again behind it.  It is also  *)
(* where the faults of HandlePacket end, before there is a GlobalDisplay.  *)
(***************************************************************************)
Names ==
    CASE GlobalTaskManager = "added" -> {"short"}
      [] GlobalTaskManager = "NULL" /\ low["BufferSize"] = "double" -> {"short", "long"}
      [] OTHER -> {"short", "long", "unreadable"}

KernelPanic ==
    /\ pc \in Requesting \cup {"userspace"} \/ (Interrupts /\ ~GlobalDisplay)
    /\ cause' = pc
    /\ name' \in Names
    /\ LET named == Appended(Appended(Appended(log, "panic"), "message"), "name")
       IN  IF name' # "unreadable" /\ terminals[0].page /\ Intact
           THEN /\ pc' = "panicked"
                /\ log' = IF name' = "long" THEN <<"name">> ELSE named
                /\ screen' = Text(log')
           ELSE pc' = "wild" /\ UNCHANGED <<log, screen>>
    /\ UNCHANGED <<turn, memory, low, globals, terminals, CurrentTerminal>>

Next ==
    \/ InitIntrerupts \/ Others \/ InitInput \/ DoubleBuffer \/ InitDisplay \/ Padding
    \/ InitTerminal \/ TerminalPage \/ NextTerminal \/ PrintLine \/ CheckImage \/ CopyImage
    \/ Malloc \/ SetTaskManager \/ AddTask \/ Enable
    \/ NullHandler \/ PITHandler \/ KernelPanic

Spec == Init /\ [][Next]_vars

-----------------------------------------------------------------------------
(* However many write to address 0, the boot sequence and the ticks in it  *)
(* draw through the double buffer only where its descriptor is whole, as   *)
(* long as RequestPages finds a block each time.                           *)
TicksDrawWell == pc = "wild" /\ cause = "none" => denied

(* When a panic is heard: terminal 0 has its page and is on display, the   *)
(* name of the task is a name, and the message is not the line that fills  *)
(* the page, which would start again with the name.                        *)
Heard ==
    /\ terminals[0].page /\ CurrentTerminal = 0
    /\ name' = "short"
    /\ Len(log) + 2 # PageLines

Told == pc' = "panicked" /\ \E i \in DOMAIN screen' : screen'[i] = "message"

(* Which panics leave their message on the screen.  Only those that Heard  *)
(* describes: the others are silent, be it before terminal 0 has its page, *)
(* in userspace, where terminal 2 is on display, on a name that is no      *)
(* name, or on a page that is full in the wrong place.  And all of those,  *)
(* as long as RequestPages has found a block each time: what is drawn      *)
(* after it answered null is not promised.                                 *)
PanicShown ==
    [][cause' # cause => (Told => Heard) /\ (Heard /\ ~denied => Told)]_vars
=============================================================================
