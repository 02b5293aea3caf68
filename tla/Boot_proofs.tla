---------------------------- MODULE Boot_proofs ----------------------------
(***************************************************************************)
(* Proofs about the boot sequence, for every number of terminals, lines of *)
(* a page and blocks of memory.                                            *)
(***************************************************************************)
EXTENDS Boot, TLAPS

Early == {"idt", "paging", "input"}
Before == Early \cup {"heap", "double", "display"}
Terminal0Open == {"padding", "terminal", "page"}
Logging == {"map", "acpi", "check", "print", "image", "vfs", "manager", "load",
            "tasks", "enable", "userspace", "halted"}
Stopped == {"panicked", "wild"}

Drawn == Words \ {"Width", "Height"}

Writers == {"firmware", "idt", "input", "double", "zero", "text", "image", "heap"}

Types ==
    /\ pc \in Before \cup Terminal0Open \cup Logging \cup Stopped
    /\ turn \in Terminals
    /\ denied \in BOOLEAN
    /\ low \in [Words -> Writers]
    /\ GlobalDisplay \in BOOLEAN /\ GlobalKeyboard \in BOOLEAN
    /\ GlobalTaskManager \in {"NULL", "garbage", "added"}
    /\ terminals \in [Terminals -> [initialized : BOOLEAN, page : BOOLEAN]]
    /\ CurrentTerminal \in {0, 2}
    /\ log \in Seq({"line", "error", "panic", "message", "name"})

(* What the order of the stages guarantees: the handlers' objects are set  *)
(* before the descriptor is written, the display before a terminal says    *)
(* that it is initialized, and only those who were denied a block write    *)
(* over the descriptor.                                                    *)
InOrder ==
    /\ pc \in Before => \A t \in Terminals : ~terminals[t].initialized /\ ~terminals[t].page
    /\ pc \in {"heap", "double", "display"} \cup Terminal0Open \cup Logging => GlobalKeyboard
    /\ pc \in Terminal0Open \cup Logging => GlobalDisplay
    /\ pc \in Before \cup {"padding"} => turn = 0

DescriptorKept ==
    ~denied /\ pc \in {"display"} \cup Terminal0Open \cup Logging
        => \A w \in Drawn : low[w] = "double"

HasPage ==
    ~denied /\ (pc \in Logging \/ (pc \in {"terminal", "page"} /\ turn > 0))
        => terminals[0].page

StoppedByPanic == cause # "none" => pc \in Stopped

IndInv ==
    /\ Types /\ InOrder /\ DescriptorKept /\ HasPage /\ StoppedByPanic
    /\ TicksDrawWell

LEMMA AfterValues ==
    /\ After("idt") = "paging" /\ After("paging") = "input" /\ After("input") = "heap"
    /\ After("heap") = "double" /\ After("double") = "display"
    /\ After("display") = "padding" /\ After("padding") = "terminal"
    /\ After("terminal") = "page" /\ After("page") = "map" /\ After("map") = "acpi"
    /\ After("acpi") = "check" /\ After("check") = "print" /\ After("print") = "image"
    /\ After("image") = "vfs" /\ After("vfs") = "manager" /\ After("manager") = "load"
    /\ After("load") = "tasks" /\ After("tasks") = "enable"
    /\ After("enable") = "userspace"
  BY DEF After, Stages

(* Terminal 0 and the one that programs use are among the terminals.       *)
LEMMA TerminalsInRange == 0 \in Terminals /\ 2 \in Terminals
  BY BootAssumption DEF Terminals

(* What a store at address 0 leaves of the words.                          *)
LEMMA WrittenTyped ==
    ASSUME Types, NEW words, NEW writer \in Writers
    PROVE  /\ Written(words, writer) \in [Words -> Writers]
           /\ \A w \in Words : w \notin words => Written(words, writer)[w] = low[w]
  BY DEF Written, Types

LEMMA AppendedTyped ==
    ASSUME NEW S, NEW lines \in Seq(S), NEW line \in S
    PROVE  Appended(lines, line) \in Seq(S)
  BY DEF Appended

(* Before a panic, an action that is no panic keeps the invariant if it    *)
(* keeps the parts of it that are about memory.                            *)
LEMMA Calm ==
    ASSUME IndInv, pc \notin Stopped, UNCHANGED cause,
           Types', InOrder', DescriptorKept', HasPage', pc' = "wild" => denied'
    PROVE  IndInv'
<1>1. cause = "none"
  BY DEF IndInv, StoppedByPanic
<1>2. cause' = "none"
  BY <1>1
<1>3. StoppedByPanic' /\ TicksDrawWell'
  <2>1. StoppedByPanic'
    BY <1>2 DEF StoppedByPanic
  <2>2. TicksDrawWell'
    BY DEF TicksDrawWell
  <2> QED
    BY <2>1, <2>2
<1> QED
  BY <1>3 DEF IndInv

LEMMA InitIndInv == Init => IndInv
<1> SUFFICES ASSUME Init PROVE IndInv
  OBVIOUS
<1>1. Types
  <2>1. low \in [Words -> Writers] /\ log \in Seq({"line", "error", "panic", "message", "name"})
    BY DEF Init, Writers
  <2>2. terminals \in [Terminals -> [initialized : BOOLEAN, page : BOOLEAN]]
    BY DEF Init
  <2>3. pc \in Before /\ turn \in Terminals /\ CurrentTerminal \in {0, 2}
    BY TerminalsInRange DEF Init, Before, Early
  <2>4. denied \in BOOLEAN /\ GlobalDisplay \in BOOLEAN /\ GlobalKeyboard \in BOOLEAN
    BY Zenon DEF Init
  <2>5. GlobalTaskManager \in {"NULL", "garbage", "added"}
    BY DEF Init
  <2> QED
    BY <2>1, <2>2, <2>3, <2>4, <2>5 DEF Types
<1>2. InOrder
  BY DEF Init, InOrder, Early, Before, Terminal0Open, Logging
<1>3. DescriptorKept /\ HasPage /\ StoppedByPanic
  BY DEF Init, DescriptorKept, HasPage, StoppedByPanic, Terminal0Open, Logging
<1>4. TicksDrawWell
  BY DEF Init, TicksDrawWell
<1> QED
  BY <1>1, <1>2, <1>3, <1>4 DEF IndInv

(***************************************************************************)
(* Each action keeps the invariant.                                        *)
(***************************************************************************)
(* Stages that change neither the descriptor nor a terminal nor memory.    *)
LEMMA SettersKeep ==
    ASSUME IndInv, InitIntrerupts \/ Others \/ InitInput \/ SetTaskManager
    PROVE  IndInv'
<1> USE DEF IndInv, Early, Before, Terminal0Open, Logging, Stopped
<1>1. CASE InitIntrerupts
  <2>1. pc = "idt" /\ pc' = "paging" /\ low' \in [Words -> Writers]
    BY <1>1, AfterValues, WrittenTyped DEF InitIntrerupts, Go, Writers
  <2>2. UNCHANGED <<turn, denied, GlobalKeyboard, GlobalDisplay, GlobalTaskManager,
                    terminals, CurrentTerminal, log, cause>>
    BY <1>1 DEF InitIntrerupts, memory, globals, console
  <2>3. Types'
    BY <2>1, <2>2 DEF Types
  <2>4. InOrder' /\ DescriptorKept' /\ HasPage'
    BY <2>1, <2>2 DEF InOrder, DescriptorKept, HasPage
  <2> QED
    BY <2>1, <2>2, <2>3, <2>4, Calm
<1>2. CASE Others
  <2>1. \/ pc = "paging" /\ pc' = "input"
        \/ pc = "heap" /\ pc' = "double"
        \/ pc = "acpi" /\ pc' = "check"
        \/ pc = "print" /\ pc' = "image"
    BY <1>2, AfterValues DEF Others, Go
  <2>2. UNCHANGED <<turn, denied, low, GlobalKeyboard, GlobalDisplay, GlobalTaskManager,
                    terminals, CurrentTerminal, log, cause>>
    <3>1. UNCHANGED <<turn, memory, low, globals, console, cause>>
      BY <1>2 DEF Others
    <3> QED
      BY <3>1, Zenon DEF memory, globals, console
  <2>3. Types'
    BY <2>1, <2>2 DEF Types
  <2>4. InOrder' /\ DescriptorKept' /\ HasPage'
    BY <2>1, <2>2 DEF InOrder, DescriptorKept, HasPage
  <2> QED
    BY <2>1, <2>2, <2>3, <2>4, Calm
<1>3. CASE InitInput
  <2>1. pc = "input" /\ pc' = "heap" /\ GlobalKeyboard'
    BY <1>3, AfterValues DEF InitInput, Go
  <2>2. UNCHANGED <<turn, denied, low, GlobalDisplay, GlobalTaskManager,
                    terminals, CurrentTerminal, log, cause>>
    BY <1>3 DEF InitInput, memory, console
  <2>3. GlobalKeyboard' \in BOOLEAN
    BY <1>3 DEF InitInput
  <2>4. Types'
    BY <2>1, <2>2, <2>3 DEF Types
  <2>5. InOrder' /\ DescriptorKept' /\ HasPage'
    BY <2>1, <2>2 DEF InOrder, DescriptorKept, HasPage
  <2> QED
    BY <2>1, <2>2, <2>4, <2>5, Calm
<1>4. CASE SetTaskManager
  <2>1. pc = "manager" /\ pc' = "load" /\ GlobalTaskManager' = "garbage"
    BY <1>4, AfterValues DEF SetTaskManager, Go
  <2>2. UNCHANGED <<turn, denied, low, GlobalKeyboard, GlobalDisplay,
                    terminals, CurrentTerminal, log, cause>>
    BY <1>4 DEF SetTaskManager, memory, console
  <2>3. Types'
    BY <2>1, <2>2 DEF Types
  <2>4. InOrder' /\ DescriptorKept' /\ HasPage'
    BY <2>1, <2>2 DEF InOrder, DescriptorKept, HasPage
  <2> QED
    BY <2>1, <2>2, <2>3, <2>4, Calm
<1> QED
  BY <1>1, <1>2, <1>3, <1>4

(* Stages that ask for blocks but change neither descriptor nor buffers.   *)
LEMMA RequestersKeep ==
    ASSUME IndInv, Padding \/ AddTask \/ Enable
    PROVE  IndInv'
<1> USE DEF IndInv, Early, Before, Terminal0Open, Logging, Stopped
<1>1. /\ denied' \in BOOLEAN
      /\ ~denied' => ~denied
  BY DEF Padding, AddTask, Enable, RequestPages, Types
<1>2. \/ pc = "padding" /\ pc' = "terminal" /\ turn' = turn
      \/ pc = "tasks" /\ pc' \in {"tasks", "enable"} /\ turn' = turn
      \/ pc = "enable" /\ pc' = "userspace" /\ turn' = turn
  BY AfterValues DEF Padding, AddTask, Enable, Go
<1>3. GlobalTaskManager' \in {"NULL", "garbage", "added"} /\ CurrentTerminal' \in {0, 2}
  BY DEF Padding, AddTask, Enable, globals, console, Types
<1>4. UNCHANGED <<low, GlobalKeyboard, GlobalDisplay, terminals, log, cause>>
  BY DEF Padding, AddTask, Enable, globals, console
<1>5. Types'
  BY <1>1, <1>2, <1>3, <1>4 DEF Types
<1>6. InOrder'
  BY <1>2, <1>4 DEF InOrder
<1>7. DescriptorKept'
  BY <1>1, <1>2, <1>4 DEF DescriptorKept
<1>8. HasPage'
  BY <1>1, <1>2, <1>4 DEF HasPage, InOrder
<1>9. pc \notin Stopped /\ pc' # "wild"
  BY <1>2
<1> QED
  BY <1>4, <1>5, <1>6, <1>7, <1>8, <1>9, Calm

(* DoubleBuffer writes the descriptor, InitDisplay clears the screen       *)
(* through it.                                                             *)
LEMMA DisplayKeeps ==
    ASSUME IndInv, DoubleBuffer \/ InitDisplay
    PROVE  IndInv'
<1> USE DEF IndInv, Early, Before, Terminal0Open, Logging, Stopped
<1>1. CASE DoubleBuffer
  <2>1. pc = "double" /\ pc' = "display"
    BY <1>1, AfterValues DEF DoubleBuffer, Go
  <2>2. UNCHANGED <<turn, GlobalKeyboard, GlobalDisplay, GlobalTaskManager,
                    terminals, CurrentTerminal, log, cause>>
    BY <1>1 DEF DoubleBuffer, globals, console
  <2>3. denied' = (denied \/ blocks = 0)
    BY <1>1 DEF DoubleBuffer, RequestPages
  <2>4. /\ low' \in [Words -> Writers]
        /\ blocks # 0 => \A w \in Words : low'[w] = "double"
    BY <1>1 DEF DoubleBuffer, Written, Writers
  <2>5. denied' \in BOOLEAN /\ (~denied' => blocks # 0)
    BY <2>3
  <2>6. Types'
    BY <2>1, <2>2, <2>4, <2>5 DEF Types
  <2>7. InOrder' /\ HasPage'
    BY <2>1, <2>2 DEF InOrder, HasPage
  <2>8. DescriptorKept'
    BY <2>1, <2>4, <2>5 DEF DescriptorKept, Drawn
  <2> QED
    BY <2>1, <2>2, <2>6, <2>7, <2>8, Calm
<1>2. CASE InitDisplay
  <2>1. pc = "display" /\ pc' = "padding" /\ GlobalDisplay'
    BY <1>2, AfterValues DEF InitDisplay, Go
  <2>2. UNCHANGED <<turn, denied, GlobalKeyboard, GlobalTaskManager,
                    terminals, CurrentTerminal, log, cause>>
    BY <1>2 DEF InitDisplay, memory, console
  <2>3. low' \in [Words -> Writers] /\ (low["BaseAddr"] # "zero" => low' = low)
    BY <1>2, WrittenTyped DEF InitDisplay, Types, Writers
  <2>4. GlobalDisplay' \in BOOLEAN
    BY <1>2 DEF InitDisplay
  <2>5. Types'
    BY <2>1, <2>2, <2>3, <2>4 DEF Types
  <2>6. InOrder' /\ HasPage'
    BY <2>1, <2>2 DEF InOrder, HasPage
  <2>7. DescriptorKept'
    BY <2>1, <2>2, <2>3 DEF DescriptorKept, Drawn, Words
  <2> QED
    BY <2>1, <2>2, <2>5, <2>6, <2>7, Calm
<1> QED
  BY <1>1, <1>2

(***************************************************************************)
(* What is written at address 0: the input handlers before their objects   *)
(* are set, the heap past the last segment, and text and image only        *)
(* without a block.                                                        *)
(***************************************************************************)
LEMMA WritersKeep ==
    ASSUME IndInv, NullHandler \/ Malloc \/ CopyImage \/ PrintLine \/ CheckImage
    PROVE  IndInv'
<1> USE DEF IndInv, Early, Before, Terminal0Open, Logging, Stopped
<1>1. CASE NullHandler
  <2>1. pc \in Early /\ pc' = pc
    BY <1>1 DEF NullHandler, Interrupts, InOrder, Types
  <2>2. UNCHANGED <<turn, denied, GlobalKeyboard, GlobalDisplay, GlobalTaskManager,
                    terminals, CurrentTerminal, log, cause>>
    BY <1>1 DEF NullHandler, memory, globals, console
  <2>3. low' \in [Words -> Writers]
    BY <1>1, WrittenTyped DEF NullHandler, Writers
  <2>4. Types'
    BY <2>1, <2>2, <2>3 DEF Types
  <2>5. InOrder' /\ DescriptorKept' /\ HasPage'
    BY <2>1, <2>2 DEF InOrder, DescriptorKept, HasPage
  <2> QED
    BY <2>1, <2>2, <2>4, <2>5, Calm
<1>2. CASE Malloc
  <2>1. \/ pc = "vfs" /\ pc' = "manager"
        \/ pc = "load" /\ pc' = "tasks"
    BY <1>2, AfterValues DEF Malloc, Go
  <2>2. UNCHANGED <<turn, denied, GlobalKeyboard, GlobalDisplay, GlobalTaskManager,
                    terminals, CurrentTerminal, log, cause>>
    BY <1>2 DEF Malloc, memory, globals, console
  <2>3. low' \in [Words -> Writers] /\ \A w \in Drawn : low'[w] = low[w]
    BY <1>2, WrittenTyped DEF Malloc, Writers, Drawn, SplitLink
  <2>4. Types'
    BY <2>1, <2>2, <2>3 DEF Types
  <2>5. InOrder' /\ DescriptorKept' /\ HasPage'
    BY <2>1, <2>2, <2>3 DEF InOrder, DescriptorKept, HasPage
  <2> QED
    BY <2>1, <2>2, <2>4, <2>5, Calm
<1>3. CASE CopyImage
  <2>1. pc = "image" /\ pc' = "vfs"
    BY <1>3, AfterValues DEF CopyImage, Go
  <2>2. UNCHANGED <<turn, GlobalKeyboard, GlobalDisplay, GlobalTaskManager,
                    terminals, CurrentTerminal, log, cause>>
    BY <1>3 DEF CopyImage, globals, console
  <2>3. denied' = (denied \/ blocks = 0)
    BY <1>3 DEF CopyImage, RequestPages
  <2>4. denied' \in BOOLEAN /\ (~denied' => ~denied /\ blocks # 0)
    BY <2>3 DEF Types
  <2>5. low' \in [Words -> Writers] /\ (blocks # 0 => low' = low)
    BY <1>3, WrittenTyped DEF CopyImage, Writers, Types
  <2>6. Types'
    BY <2>1, <2>2, <2>4, <2>5 DEF Types
  <2>7. InOrder' /\ DescriptorKept' /\ HasPage'
    BY <2>1, <2>2, <2>4, <2>5 DEF InOrder, DescriptorKept, HasPage
  <2> QED
    BY <2>1, <2>2, <2>6, <2>7, Calm
<1>4. CASE PrintLine \/ CheckImage
  <2>1. \/ pc \in {"acpi", "print", "manager"} /\ pc' = pc
        \/ pc = "check" /\ pc' \in {"print", "halted"}
    BY <1>4, AfterValues DEF PrintLine, CheckImage, Go
  <2>2. UNCHANGED <<turn, denied, GlobalKeyboard, GlobalDisplay, GlobalTaskManager,
                    terminals, CurrentTerminal, cause>>
    BY <1>4 DEF PrintLine, CheckImage, memory, globals
  <2>3. Say("line") \/ Say("error") \/ UNCHANGED <<low, log>>
    BY <1>4 DEF PrintLine, CheckImage
  <2>4. low' \in [Words -> Writers] /\ (terminals[0].page => low' = low)
    <3>1. \/ UNCHANGED low
          \/ /\ ~terminals[0].page
             /\ \E words \in SUBSET Words : low' = Written(words \cup {"BaseAddr"}, "text")
      BY <2>3 DEF Say
    <3>2. low \in [Words -> Writers] /\ "text" \in Writers
      BY DEF Types, Writers
    <3>3. CASE UNCHANGED low
      BY <3>2, <3>3
    <3>4. ASSUME NEW words, low' = Written(words \cup {"BaseAddr"}, "text")
          PROVE  low' \in [Words -> Writers]
      BY <3>2, <3>4, WrittenTyped
    <3> QED
      BY <3>1, <3>3, <3>4
  <2>5. log' \in Seq({"line", "error", "panic", "message", "name"})
    BY <2>3, AppendedTyped DEF Say, Types
  <2>6. Types'
    BY <2>1, <2>2, <2>4, <2>5 DEF Types
  <2>7. InOrder' /\ DescriptorKept' /\ HasPage'
    BY <2>1, <2>2, <2>4 DEF InOrder, DescriptorKept, HasPage
  <2> QED
    BY <2>1, <2>2, <2>6, <2>7, Calm
<1> QED
  BY <1>1, <1>2, <1>3, <1>4

(* The loop over the terminals: the first to be initialized is terminal 0, *)
(* and it has its page before the next turn.                               *)
LEMMA TerminalsKeep ==
    ASSUME IndInv, InitTerminal \/ TerminalPage \/ NextTerminal
    PROVE  IndInv'
<1> USE DEF IndInv, Early, Before, Terminal0Open, Logging, Stopped
<1>1. CASE InitTerminal
  <2>1. pc = "terminal" /\ pc' = "page"
    BY <1>1, AfterValues DEF InitTerminal, Go
  <2>2. UNCHANGED <<turn, denied, low, GlobalKeyboard, GlobalDisplay, GlobalTaskManager,
                    CurrentTerminal, log, cause>>
    BY <1>1 DEF InitTerminal, memory, globals
  <2>3. /\ terminals' \in [Terminals -> [initialized : BOOLEAN, page : BOOLEAN]]
        /\ terminals'[0].page = terminals[0].page
    BY <1>1, TerminalsInRange DEF InitTerminal, Types
  <2>4. Types'
    BY <2>1, <2>2, <2>3 DEF Types
  <2>5. InOrder' /\ DescriptorKept' /\ HasPage'
    BY <2>1, <2>2, <2>3 DEF InOrder, DescriptorKept, HasPage
  <2> QED
    BY <2>1, <2>2, <2>4, <2>5, Calm
<1>2. CASE TerminalPage
  <2>1. pc = "page" /\ pc' = "map"
    BY <1>2, AfterValues DEF TerminalPage, Go
  <2>2. UNCHANGED <<turn, low, GlobalKeyboard, GlobalDisplay, GlobalTaskManager,
                    CurrentTerminal, log, cause>>
    BY <1>2 DEF TerminalPage, globals
  <2>3. denied' = (denied \/ blocks = 0)
    BY <1>2 DEF TerminalPage, RequestPages
  <2>4. denied' \in BOOLEAN /\ (~denied' => ~denied /\ blocks # 0)
    BY <2>3 DEF Types
  <2> DEFINE page == blocks # 0
  <2>5. terminals' = [terminals EXCEPT ![turn].page = page] /\ page \in BOOLEAN
    BY <1>2 DEF TerminalPage
  <2> HIDE DEF page
  <2>6. terminals' \in [Terminals -> [initialized : BOOLEAN, page : BOOLEAN]]
    BY <2>5 DEF Types
  <2>7. turn # 0 => terminals'[0].page = terminals[0].page
    BY <2>5, TerminalsInRange DEF Types
  <2>8. turn = 0 => terminals'[0].page = page
    BY <2>5, TerminalsInRange DEF Types
  <2>9. Types'
    BY <2>1, <2>2, <2>4, <2>6 DEF Types
  <2>10. InOrder' /\ DescriptorKept'
    BY <2>1, <2>2, <2>4 DEF InOrder, DescriptorKept
  <2>11. HasPage'
    <3>1. ~denied' => page
      BY <2>4 DEF page
    <3>2. ~denied' => terminals'[0].page
      <4>1. CASE turn = 0
        BY <4>1, <2>8, <3>1
      <4>2. CASE turn # 0
        <5>1. turn > 0
          BY <4>2, BootAssumption DEF Types, Terminals
        <5> QED
          BY <5>1, <4>2, <2>1, <2>4, <2>7 DEF HasPage
      <4> QED
        BY <4>1, <4>2
    <3> QED
      BY <3>2 DEF HasPage
  <2> QED
    BY <2>1, <2>2, <2>9, <2>10, <2>11, Calm
<1>3. CASE NextTerminal
  <2>1. pc = "map" /\ pc' \in {"acpi", "terminal"} /\ turn' \in Terminals
    BY <1>3, AfterValues, BootAssumption DEF NextTerminal, Go, Types, Terminals
  <2>2. UNCHANGED <<denied, low, GlobalKeyboard, GlobalDisplay, GlobalTaskManager,
                    terminals, CurrentTerminal, log, cause>>
    BY <1>3 DEF NextTerminal, memory, globals, console
  <2>3. Types'
    BY <2>1, <2>2 DEF Types
  <2>4. InOrder' /\ DescriptorKept' /\ HasPage'
    BY <2>1, <2>2 DEF InOrder, DescriptorKept, HasPage
  <2> QED
    BY <2>1, <2>2, <2>3, <2>4, Calm
<1> QED
  BY <1>1, <1>2, <1>3

(* A tick that finds a terminal initialized comes after the display is     *)
(* set, and the double buffer is whole unless a block was denied.          *)
LEMMA TickKeeps ==
    ASSUME IndInv, PITHandler
    PROVE  IndInv'
<1> USE DEF IndInv, Early, Before, Terminal0Open, Logging, Stopped
<1>1. pc \in Terminal0Open \cup Logging \cup {"panicked"}
  BY TerminalsInRange DEF PITHandler, Interrupts, InOrder, Types
<1>2. pc \in Terminal0Open \cup Logging
  BY <1>1 DEF PITHandler, Interrupts
<1>3. Intact \/ denied
  BY <1>2 DEF Intact, InOrder, DescriptorKept, Drawn
<1>4. UNCHANGED <<turn, denied, low, GlobalKeyboard, GlobalDisplay, GlobalTaskManager,
                  terminals, CurrentTerminal, log, cause>>
  BY DEF PITHandler, memory, globals, console
<1>5. pc' = pc \/ (pc' = "wild" /\ denied')
  BY <1>3, <1>4 DEF PITHandler
<1>6. Types'
  BY <1>4, <1>5 DEF Types
<1>7. InOrder' /\ DescriptorKept' /\ HasPage'
  BY <1>4, <1>5 DEF InOrder, DescriptorKept, HasPage
<1>8. pc' = "wild" => denied'
  BY <1>2, <1>5
<1> QED
  BY <1>2, <1>4, <1>6, <1>7, <1>8, Calm

(* A panic stops the kernel, and leaves lines in the page.                 *)
LEMMA PanicKeeps ==
    ASSUME IndInv, KernelPanic
    PROVE  IndInv'
<1> USE DEF IndInv, Early, Before, Terminal0Open, Logging, Stopped
<1>1. cause' = pc /\ pc # "none"
  BY DEF KernelPanic, Types
<1>2. UNCHANGED <<turn, denied, low, GlobalKeyboard, GlobalDisplay, GlobalTaskManager,
                  terminals, CurrentTerminal>>
  BY DEF KernelPanic, memory, globals
<1> DEFINE named == Appended(Appended(Appended(log, "panic"), "message"), "name")
           S == {"line", "error", "panic", "message", "name"}
<1>3. named \in Seq(S) /\ <<"name">> \in Seq(S)
  <2>1. Appended(log, "panic") \in Seq(S)
    BY AppendedTyped DEF Types
  <2>2. Appended(Appended(log, "panic"), "message") \in Seq(S)
    BY <2>1, AppendedTyped
  <2> QED
    BY <2>2, AppendedTyped
<1>4. pc' \in Stopped /\ (log' = named \/ log' = <<"name">> \/ log' = log)
  BY DEF KernelPanic
<1> HIDE DEF named
<1>5. Types'
  BY <1>2, <1>3, <1>4 DEF Types
<1>6. InOrder' /\ DescriptorKept' /\ HasPage' /\ StoppedByPanic'
  BY <1>4 DEF InOrder, DescriptorKept, HasPage, StoppedByPanic
<1>7. TicksDrawWell'
  BY <1>1 DEF TicksDrawWell
<1> QED
  BY <1>5, <1>6, <1>7

LEMMA NextIndInv == IndInv /\ [Next]_vars => IndInv'
<1> SUFFICES ASSUME IndInv, [Next]_vars PROVE IndInv'
  OBVIOUS
<1>1. CASE InitIntrerupts \/ Others \/ InitInput \/ SetTaskManager
  BY <1>1, SettersKeep
<1>2. CASE Padding \/ AddTask \/ Enable
  BY <1>2, RequestersKeep
<1>3. CASE DoubleBuffer \/ InitDisplay
  BY <1>3, DisplayKeeps
<1>4. CASE NullHandler \/ Malloc \/ CopyImage \/ PrintLine \/ CheckImage
  BY <1>4, WritersKeep
<1>5. CASE InitTerminal \/ TerminalPage \/ NextTerminal
  BY <1>5, TerminalsKeep
<1>6. CASE PITHandler
  BY <1>6, TickKeeps
<1>7. CASE KernelPanic
  BY <1>7, PanicKeeps
<1>8. CASE UNCHANGED vars
  <2>1. UNCHANGED <<pc, turn, denied, low, GlobalKeyboard, GlobalDisplay, GlobalTaskManager,
                    terminals, CurrentTerminal, log, screen, cause>>
    BY <1>8 DEF vars, memory, globals, console
  <2>2. Types' /\ InOrder'
    BY <2>1 DEF IndInv, Types, InOrder
  <2>3. DescriptorKept' /\ HasPage' /\ StoppedByPanic'
    BY <2>1 DEF IndInv, DescriptorKept, HasPage, StoppedByPanic
  <2>4. TicksDrawWell'
    BY <2>1 DEF IndInv, TicksDrawWell
  <2> QED
    BY <2>2, <2>3, <2>4 DEF IndInv
<1> QED
  BY <1>1, <1>2, <1>3, <1>4, <1>5, <1>6, <1>7, <1>8 DEF Next

-----------------------------------------------------------------------------
(* No tick of the boot sequence draws through a descriptor that the null   *)
(* handlers, the IDT, the heap or a terminal without a buffer has written  *)
(* over, however many terminals there are, unless RequestPages was out of  *)
(* blocks.                                                                 *)
THEOREM BootDrawsWell == Spec => []TicksDrawWell
<1>1. IndInv => TicksDrawWell
  BY DEF IndInv
<1> QED
  BY InitIndInv, NextIndInv, <1>1, PTL DEF Spec

(***************************************************************************)
(* What the page of terminal 0 holds after the three lines of a panic.     *)
(***************************************************************************)
(* A line in the log stays there when another is appended, unless the page *)
(* is full; then it is the only one.                                       *)
LEMMA AppendedKeeps ==
    ASSUME NEW S, NEW lines \in Seq(S), NEW line \in S
    PROVE  LET longer == Appended(lines, line)
           IN  /\ longer \in Seq(S)
               /\ Len(longer) \in DOMAIN longer /\ longer[Len(longer)] = line
               /\ Len(lines) >= PageLines => longer = <<line>>
               /\ Len(lines) < PageLines =>
                    /\ Len(longer) = Len(lines) + 1
                    /\ \A i \in DOMAIN lines : i \in DOMAIN longer /\ longer[i] = lines[i]
<1> DEFINE longer == Appended(lines, line)
<1>1. Len(lines) \in Nat /\ PageLines \in Nat
  BY BootAssumption
<1>2. CASE Len(lines) >= PageLines
  BY <1>1, <1>2 DEF Appended
<1>3. CASE ~(Len(lines) >= PageLines)
  <2>1. longer = Append(lines, line)
    BY <1>3 DEF Appended
  <2> HIDE DEF longer
  <2>2. /\ longer \in Seq(S) /\ Len(longer) = Len(lines) + 1
        /\ Len(longer) \in DOMAIN longer /\ longer[Len(longer)] = line
        /\ \A i \in DOMAIN lines : i \in DOMAIN longer /\ longer[i] = lines[i]
    BY <2>1
  <2> QED
    BY <1>3, <2>2 DEF longer
<1> QED
  BY <1>2, <1>3

(* The message is still in the page with the name, unless it has filled it.*)
LEMMA MessageLogged ==
    ASSUME NEW lines \in Seq({"line", "error", "panic", "message", "name"})
    PROVE  LET named == Appended(Appended(Appended(lines, "panic"), "message"), "name")
           IN  (\E i \in DOMAIN named : named[i] = "message") <=> Len(lines) + 2 # PageLines
<1> DEFINE S == {"line", "error", "panic", "message", "name"}
           before == Appended(lines, "panic")
           told == Appended(before, "message")
           named == Appended(told, "name")
           size == Len(lines)
<1>0. lines \in Seq(S) /\ "panic" \in S /\ "message" \in S /\ "name" \in S
  OBVIOUS
<1> HIDE DEF S
<1>1. /\ before \in Seq(S)
      /\ size >= PageLines => before = <<"panic">>
      /\ size < PageLines => Len(before) = size + 1
  BY <1>0, AppendedKeeps
<1> HIDE DEF before
<1>2. /\ told \in Seq(S) /\ Len(told) \in DOMAIN told /\ told[Len(told)] = "message"
      /\ Len(before) >= PageLines => told = <<"message">>
      /\ Len(before) < PageLines => Len(told) = Len(before) + 1
  BY <1>0, <1>1, AppendedKeeps
<1> HIDE DEF told
<1>3. /\ Len(told) >= PageLines => named = <<"name">>
      /\ Len(told) < PageLines =>
           \A i \in DOMAIN told : i \in DOMAIN named /\ named[i] = told[i]
  BY <1>0, <1>2, AppendedKeeps
<1> HIDE DEF named
<1>4. size \in Nat /\ PageLines \in Nat /\ PageLines >= 3
  BY <1>0, BootAssumption
<1> HIDE DEF size
<1>5. size >= PageLines => Len(before) = 1
  BY <1>1
<1>6. Len(before) >= PageLines => Len(told) = 1
  BY <1>2
<1>7. Len(told) \in Nat /\ Len(before) \in Nat
  BY <1>1, <1>2
<1>8. Len(told) >= PageLines <=> (size + 2) = PageLines
  <2>1. CASE size >= PageLines
    <3>1. Len(before) = 1 /\ 1 < PageLines
      BY <2>1, <1>4, <1>5
    <3>2. Len(told) = 2
      BY <3>1, <1>2
    <3> QED
      BY <2>1, <3>2, <1>4
  <2>2. CASE size < PageLines
    <3>1. Len(before) = size + 1
      BY <2>2, <1>1
    <3>2. CASE Len(before) >= PageLines
      BY <3>1, <3>2, <2>2, <1>4, <1>6
    <3>3. CASE Len(before) < PageLines
      BY <3>1, <3>3, <1>2, <1>4
    <3> QED
      BY <3>1, <3>2, <3>3, <1>4
  <2> QED
    BY <2>1, <2>2, <1>4
<1>9. (\E i \in DOMAIN named : named[i] = "message") <=> ~(Len(told) >= PageLines)
  <2>1. CASE Len(told) >= PageLines
    BY <2>1, <1>3
  <2>2. CASE Len(told) < PageLines
    BY <2>2, <1>2, <1>3, <1>4, <1>7
  <2> QED
    BY <2>1, <2>2, <1>4, <1>7
<1> QED
  BY <1>8, <1>9 DEF named, told, before, size

(* A panic that draws through the double buffer into the page of terminal  *)
(* 0 tells its message just when it is heard.                              *)
LEMMA PanicTold ==
    ASSUME IndInv, KernelPanic
    PROVE  (Told => Heard) /\ (Heard /\ ~denied => Told)
<1> USE DEF IndInv, Early, Before, Terminal0Open, Logging, Stopped
<1> DEFINE named == Appended(Appended(Appended(log, "panic"), "message"), "name")
<1>1. (\E i \in DOMAIN named : named[i] = "message") <=> Len(log) + 2 # PageLines
  BY MessageLogged DEF Types
<1>2. name' \in {"short", "long", "unreadable"}
  BY DEF KernelPanic, Names
<1>3. /\ pc' = "panicked" <=> (name' # "unreadable" /\ terminals[0].page /\ Intact)
      /\ pc' = "panicked" => /\ log' = IF name' = "long" THEN <<"name">> ELSE named
                             /\ screen' = Text(log')
      /\ UNCHANGED <<terminals, CurrentTerminal>>
  BY DEF KernelPanic
<1> HIDE DEF named
<1>4. ASSUME Told PROVE Heard
  <2>1. PICK i \in DOMAIN screen' : screen'[i] = "message"
    BY <1>4 DEF Told
  <2>2. screen' = Text(log') /\ terminals[0].page
    BY <1>3, <1>4 DEF Told
  <2>3. CurrentTerminal = 0 /\ screen' = log'
    BY <1>3, <2>1, <2>2 DEF Text
  <2>4. log' = named /\ name' = "short"
    BY <1>2, <1>3, <1>4, <2>1, <2>3 DEF Told
  <2> QED
    BY <1>1, <2>1, <2>2, <2>3, <2>4 DEF Heard
<1>5. ASSUME Heard, ~denied PROVE Told
  <2>1. pc \in Logging \cup Terminal0Open
    BY <1>5, TerminalsInRange DEF Heard, KernelPanic, Requesting, Interrupts, InOrder, Types
  <2>2. Intact
    BY <1>5, <2>1 DEF Intact, InOrder, DescriptorKept, Drawn
  <2>3. pc' = "panicked" /\ screen' = named
    BY <1>3, <1>5, <2>2 DEF Heard, Text
  <2> QED
    BY <1>1, <1>5, <2>3 DEF Heard, Told
<1> QED
  BY <1>4, <1>5

LEMMA OthersSilent == ASSUME [Next]_vars, cause' # cause PROVE KernelPanic
<1>1. CASE UNCHANGED vars
  BY <1>1 DEF vars
<1>2. CASE Next
  BY <1>2 DEF Next, InitIntrerupts, Others, InitInput, DoubleBuffer, InitDisplay, Padding,
              InitTerminal, TerminalPage, NextTerminal, PrintLine, CheckImage, CopyImage,
              Malloc, SetTaskManager, AddTask, Enable, NullHandler, PITHandler
<1> QED
  BY <1>1, <1>2

(* Whatever the length of the log and of the page, a panic leaves its      *)
(* message on the screen only if terminal 0 has its page and is on         *)
(* display, the task's name is a name, and the message does not fill the   *)
(* page; and then it does, unless RequestPages was out of blocks before.   *)
THEOREM BootPanicShown == Spec => PanicShown
<1> DEFINE Heeded == cause' # cause => (Told => Heard) /\ (Heard /\ ~denied => Told)
<1>1. IndInv /\ [Next]_vars => [Heeded]_vars
  BY OthersSilent, PanicTold
<1>2. PanicShown <=> [][Heeded]_vars
  BY DEF PanicShown
<1> QED
  BY InitIndInv, NextIndInv, <1>1, <1>2, PTL DEF Spec
=============================================================================
