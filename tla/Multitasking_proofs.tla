------------------------- MODULE Multitasking_proofs -------------------------
(***************************************************************************)
(* Proofs about multitasking, for every number of programs, every length   *)
(* of tasks[] and everything programs compute.                             *)
(***************************************************************************)
EXTENDS Multitasking, TLAPS

(* The slots that AddTask takes hold zero: tmgr has no initialiser.        *)
CleanSlots ==
    \A states \in StaleStates :
      /\ states \in [Slots -> {STATE_HALTED, STATE_RUNNING}]
      /\ \A p \in Pids : states[p] = STATE_HALTED

(* An int holds the address of every stack a tick may find in use.         *)
FramesFit == HighFrames \cap (Pids \cup {TssStack}) = {}

-----------------------------------------------------------------------------
(***************************************************************************)
(* The task table fills from the front, whatever ticks do meanwhile.       *)
(***************************************************************************)
Filled ==
    /\ taskNum = added
    /\ \A p \in Pids : p >= added => tasks[p].state = STATE_HALTED
    /\ \A p \in Pids : p < added => tasks[p].registers.prog # Garbage
    /\ isEnabled => added = NPrograms
    /\ ~isEnabled => /\ cpu.prog = Kernel /\ cpu.at = "kernelMain"
                     /\ \A p \in Pids : p < added => tasks[p].state = STATE_RUNNING
    /\ currentTask \in Pids
    /\ cpu.prog # Garbage

Table == TypeOK /\ Filled

LEMMA PidsAreSlots == Pids \subseteq Slots /\ IdleTask \in Pids
BY ProgramsAssumption DEF Pids, Slots, IdleTask

LEMMA FirstTyped ==
    ASSUME NEW p \in Pids
    PROVE  FirstRegisters(p) \in [rax : {0}, rdi : {"none"}, prog : {p}, at : {"user"},
                                  krsp : {Wild}]
BY DEF FirstRegisters

LEMMA InitTable == CleanSlots /\ Init => Table
<1> SUFFICES ASSUME CleanSlots, Init PROVE Table
  OBVIOUS
<1>1. 0 \in Pids
  BY PidsAreSlots DEF IdleTask
<1>2. StaleRegisters \in Registers
  BY <1>1 DEF StaleRegisters, Registers
<1>3. cpu \in Registers
  BY <1>1 DEF Init, Registers
<1>4. PICK states \in StaleStates :
        tasks = [i \in Slots |-> [state |-> states[i], registers |-> StaleRegisters]]
  BY DEF Init
<1>5. states \in [Slots -> {STATE_HALTED, STATE_RUNNING}]
  BY <1>4 DEF CleanSlots
<1>6. tasks \in [Slots -> [state : {STATE_HALTED, STATE_RUNNING}, registers : Registers]]
  <2>1. ASSUME NEW i \in Slots
        PROVE  [state |-> states[i], registers |-> StaleRegisters]
                 \in [state : {STATE_HALTED, STATE_RUNNING}, registers : Registers]
    BY <1>2, <1>5
  <2> QED
    BY <1>4, <2>1
<1>7. TypeOK
  <2>1. 0 \in Slots /\ 0 \in 0 .. MaxSlots /\ 0 \in 0 .. NPrograms
    BY <1>1, PidsAreSlots, ProgramsAssumption
  <2> QED
    BY <1>3, <1>6, <2>1 DEF Init, TypeOK
<1>8. \A p \in Pids : tasks[p].state = STATE_HALTED
  BY <1>4, PidsAreSlots DEF CleanSlots
<1>9. Filled
  BY <1>1, <1>8 DEF Init, Filled, Pids, Kernel, Garbage
<1> QED
  BY <1>7, <1>9 DEF Table

(* The first empty spot is the one behind the programs that are there.     *)
LEMMA AddTaskTable ==
    ASSUME Table, AddTask
    PROVE  /\ Table' /\ added \in Pids /\ added' = added + 1
           /\ tasks' = [tasks EXCEPT ![added] = [state |-> STATE_RUNNING,
                                                 registers |-> FirstRegisters(added)]]
<1>1. PICK i \in Slots :
        /\ FirstSpot(i)
        /\ taskNum' = IF i >= taskNum THEN i + 1 ELSE taskNum
        /\ tasks' = [tasks EXCEPT ![i] = [state |-> STATE_RUNNING,
                                          registers |-> FirstRegisters(added)]]
  BY DEF AddTask
<1>2. added \in Pids /\ added \in Slots
  BY ProgramsAssumption DEF AddTask, Table, TypeOK, Pids, Slots
<1>3. tasks[added].state = STATE_HALTED
  BY <1>2 DEF Table, Filled, Pids
<1>4. ~(added < i)
  BY <1>1, <1>2, <1>3 DEF FirstSpot, Slots, Pids
<1>5. ~(i < added)
  <2> SUFFICES ASSUME i < added PROVE FALSE
    OBVIOUS
  <2>1. i \in Pids
    BY <1>2, ProgramsAssumption DEF Pids, Slots
  <2> QED
    BY <1>1, <2>1, ProgramsAssumption
       DEF AddTask, Table, Filled, FirstSpot, STATE_HALTED, STATE_RUNNING
<1>6. i = added
  BY <1>2, <1>4, <1>5, ProgramsAssumption DEF Slots, Pids
<1> DEFINE task == [state |-> STATE_RUNNING, registers |-> FirstRegisters(added)]
<1>7. /\ task \in [state : {STATE_HALTED, STATE_RUNNING}, registers : Registers]
      /\ task.registers.prog = added /\ task.state = STATE_RUNNING
  <2>1. 0 \in Pids
    BY PidsAreSlots DEF IdleTask
  <2>2. FirstRegisters(added) \in Registers /\ FirstRegisters(added).prog = added
    BY <1>2, <2>1 DEF Registers, FirstRegisters
  <2> QED
    BY <2>2
<1> HIDE DEF task
<1>8. /\ tasks' = [tasks EXCEPT ![added] = task] /\ added' = added + 1
      /\ UNCHANGED <<currentTask, isEnabled, cpu, rsp0, argsIntact, machine>>
      /\ taskNum' = added + 1 /\ ~isEnabled
  <2>1. ~isEnabled /\ taskNum = added
    BY ProgramsAssumption DEF AddTask, Table, Filled
  <2>2. taskNum' = added + 1
    BY <1>1, <1>2, <1>6, <2>1 DEF Pids
  <2> QED
    BY <1>1, <1>6, <2>1, <2>2 DEF AddTask, task
<1>9. TypeOK'
  BY <1>2, <1>7, <1>8, ProgramsAssumption DEF Table, TypeOK, Pids, Slots
<1>10. Filled'
  BY <1>2, <1>7, <1>8, PidsAreSlots, ProgramsAssumption DEF Table, TypeOK, Filled, Pids, Garbage
<1> QED
  BY <1>2, <1>8, <1>9, <1>10 DEF Table, task

(* Boot and programs change the processor's registers only.                *)
LEMMA CpuStepTable ==
    ASSUME Table, cpu' \in Registers, cpu'.prog # Garbage, rsp0' \in {Unset, TssStack},
           argsIntact' \in BOOLEAN, machine' \in {"up", "faulted"},
           isEnabled' \in BOOLEAN, isEnabled => isEnabled',
           isEnabled' => added = NPrograms,
           ~isEnabled' => cpu'.prog = Kernel /\ cpu'.at = "kernelMain",
           UNCHANGED <<tasks, currentTask, taskNum, added>>
    PROVE  Table'
<1>1. TypeOK'
  BY DEF Table, TypeOK
<1>2. Filled'
  BY DEF Table, Filled
<1> QED
  BY <1>1, <1>2 DEF Table

LEMMA BootTable ==
    ASSUME Table, EnableScheduler \/ SetStack \/ PopArguments \/ Sysret
    PROVE  Table'
<1>1. /\ cpu \in Registers /\ isEnabled \in BOOLEAN /\ argsIntact \in BOOLEAN
      /\ rsp0 \in {Unset, TssStack} /\ machine \in {"up", "faulted"}
      /\ isEnabled => added = NPrograms
      /\ ~isEnabled => cpu.at = "kernelMain"
  BY DEF Table, TypeOK, Filled
<1>2. Kernel # Garbage /\ \A p \in Pids : p # Garbage
  BY DEF Kernel, Garbage, Pids
<1>3. CASE EnableScheduler
  <2>1. cpu' \in Registers /\ cpu'.prog = Kernel
    BY <1>1, <1>3 DEF EnableScheduler, KernelAt, Registers
  <2> QED
    BY <1>1, <1>2, <1>3, <2>1, CpuStepTable DEF EnableScheduler, KernelAt
<1>4. CASE SetStack \/ PopArguments
  <2>1. cpu' \in Registers /\ cpu'.prog = Kernel /\ isEnabled
    BY <1>1, <1>4 DEF SetStack, PopArguments, KernelAt, Registers
  <2> QED
    BY <1>1, <1>2, <1>4, <2>1, CpuStepTable DEF SetStack, PopArguments, KernelAt
<1>5. CASE Sysret
  <2>1. PICK v \in Values : cpu' = [FirstRegisters(IdleTask) EXCEPT !.rax = v]
    BY <1>5 DEF Sysret
  <2>2. cpu' \in Registers /\ cpu'.prog = IdleTask
    BY <2>1, PidsAreSlots DEF FirstRegisters, Registers
  <2> QED
    BY <1>1, <1>2, <1>5, <2>2, PidsAreSlots, CpuStepTable DEF Sysret
<1> QED
  BY <1>3, <1>4, <1>5

LEMMA ProgramTable ==
    ASSUME Table, Compute \/ SyscallEnter \/ SyscallGetPid
    PROVE  Table'
<1>1. /\ cpu \in Registers /\ isEnabled \in BOOLEAN /\ argsIntact \in BOOLEAN
      /\ rsp0 \in {Unset, TssStack} /\ machine \in {"up", "faulted"}
      /\ isEnabled => added = NPrograms
      /\ ~isEnabled => cpu.at = "kernelMain"
      /\ cpu.prog # Garbage /\ currentTask \in Pids
  BY DEF Table, TypeOK, Filled
<1>2. isEnabled
  BY <1>1 DEF Compute, SyscallEnter, SyscallGetPid, InUserspace, InSyscall
<1>3. cpu' \in Registers /\ cpu'.prog = cpu.prog
  <2>1. CASE Compute
    BY <1>1, <2>1 DEF Compute, Registers
  <2>2. CASE SyscallEnter
    BY <1>1, <2>2 DEF SyscallEnter, Registers
  <2>3. CASE SyscallGetPid
    BY <1>1, <2>3 DEF SyscallGetPid, Return, Registers
  <2> QED
    BY <2>1, <2>2, <2>3
<1>4. UNCHANGED <<tasks, currentTask, taskNum, isEnabled, added, rsp0, argsIntact, machine>>
  BY DEF Compute, SyscallEnter, SyscallGetPid
<1> QED
  BY <1>1, <1>2, <1>3, <1>4, CpuStepTable

LEMMA ExitTable ==
    ASSUME Table, SyscallExit
    PROVE  Table' /\ isEnabled
<1>1. /\ tasks' = [tasks EXCEPT ![currentTask].state = STATE_HALTED]
      /\ cpu' = [cpu EXCEPT !.rax = Done, !.rdi = "none", !.at = "user"]
      /\ UNCHANGED <<currentTask, taskNum, isEnabled, added, rsp0, argsIntact, machine>>
  BY DEF SyscallExit, Return
<1>2. isEnabled /\ added = NPrograms
  BY DEF SyscallExit, InSyscall, Table, Filled
<1>3. currentTask \in Slots /\ currentTask \in Pids
  BY DEF Table, TypeOK, Filled
<1>4. cpu' \in Registers /\ cpu'.prog = cpu.prog
  BY <1>1 DEF Table, TypeOK, Registers
<1>5. tasks' \in [Slots -> [state : {STATE_HALTED, STATE_RUNNING}, registers : Registers]]
  BY <1>1, <1>3 DEF Table, TypeOK
<1>6. \A i \in Slots : tasks'[i].registers = tasks[i].registers
  BY <1>1, <1>3 DEF Table, TypeOK
<1>7. TypeOK'
  BY <1>1, <1>4, <1>5 DEF Table, TypeOK
<1>8. Filled'
  BY <1>1, <1>2, <1>3, <1>4, <1>6, PidsAreSlots, ProgramsAssumption DEF Table, Filled, Pids
<1> QED
  BY <1>2, <1>7, <1>8 DEF Table

(* A tick saves the current task, and loads the next when there is one.    *)
Switches(i) ==
    /\ i \in Runnable /\ IsNextTask(i) /\ currentTask' = i /\ i \in Pids
    /\ tasks' = [tasks EXCEPT ![currentTask].registers = PushedRegisters]
    /\ PopRegisters(LoadedRegisters(i))

LEMMA ScheduleSwitches ==
    ASSUME Table, isEnabled, Schedule
    PROVE  \E i \in Runnable : Switches(i)
<1>1. PICK i \in Runnable :
        IsNextTask(i) /\ currentTask' = i /\ PopRegisters(LoadedRegisters(i))
  BY DEF Schedule
<1>2. taskNum = NPrograms
  BY DEF Table, Filled
<1>3. i \in Pids
  BY <1>2 DEF Runnable, Pids
<1> QED
  BY <1>1, <1>3 DEF Schedule, Switches

LEMMA Pushed ==
    ASSUME Table, Frame # Unset
    PROVE  PushedRegisters \in Registers /\ PushedRegisters.prog = cpu.prog
<1>1. Frame \in Pids \cup {Kernel, TssStack, Wild}
  BY DEF Frame, Table, TypeOK, Filled, Registers
<1> DEFINE frame == Frame
<1> HIDE DEF frame
<1>2. cpu \in Registers /\ frame \in Pids \cup {Kernel, TssStack, Wild}
  BY <1>1 DEF Table, TypeOK, frame
<1>3. [cpu EXCEPT !.krsp = frame] \in Registers /\ [cpu EXCEPT !.krsp = frame].prog = cpu.prog
  BY <1>2 DEF Registers
<1> QED
  BY <1>3 DEF PushedRegisters, frame

LEMMA SwitchSaves ==
    ASSUME Table, Frame # Unset, NEW i, Switches(i)
    PROVE  /\ tasks' \in [Slots -> [state : {STATE_HALTED, STATE_RUNNING}, registers : Registers]]
           /\ \A j \in Slots : tasks'[j].state = tasks[j].state
           /\ tasks'[currentTask].registers = PushedRegisters
           /\ \A j \in Slots : j # currentTask => tasks'[j].registers = tasks[j].registers
<1> DEFINE pushed == PushedRegisters
<1>1. pushed \in Registers
  BY Pushed
<1> HIDE DEF pushed
<1>2. tasks' = [tasks EXCEPT ![currentTask].registers = pushed]
  BY DEF Switches, pushed
<1>3. /\ currentTask \in Slots
      /\ tasks \in [Slots -> [state : {STATE_HALTED, STATE_RUNNING}, registers : Registers]]
  BY DEF Table, TypeOK
<1>4. /\ tasks' \in [Slots -> [state : {STATE_HALTED, STATE_RUNNING}, registers : Registers]]
      /\ \A j \in Slots : tasks'[j].state = tasks[j].state
      /\ tasks'[currentTask].registers = pushed
      /\ \A j \in Slots : j # currentTask => tasks'[j].registers = tasks[j].registers
  BY <1>1, <1>2, <1>3
<1> QED
  BY <1>4 DEF pushed

LEMMA TickTable ==
    ASSUME Table, Tick
    PROVE  Table'
<1>1. /\ isEnabled /\ added = NPrograms /\ argsIntact' \in BOOLEAN
      /\ UNCHANGED <<taskNum, isEnabled, added, rsp0>>
  BY DEF Tick, Table, TypeOK, Filled
<1>2. CASE Frame = Unset
  BY <1>1, <1>2 DEF Tick, Table, TypeOK, Filled
<1>3. CASE Frame # Unset
  <2>1. PICK i \in Runnable : Switches(i)
    BY <1>1, <1>3, ScheduleSwitches DEF Tick
  <2>2. i \in Pids /\ i \in Slots /\ currentTask' = i
    BY <2>1, PidsAreSlots DEF Switches
  <2>3. /\ tasks' \in [Slots -> [state : {STATE_HALTED, STATE_RUNNING}, registers : Registers]]
        /\ \A j \in Slots : tasks'[j].state = tasks[j].state
        /\ tasks'[currentTask].registers = PushedRegisters
        /\ \A j \in Slots : j # currentTask => tasks'[j].registers = tasks[j].registers
    BY <1>3, <2>1, SwitchSaves
  <2>4. PushedRegisters.prog = cpu.prog /\ cpu.prog # Garbage
    BY <1>3, Pushed DEF Table, Filled
  <2>5. \A p \in Pids : p < added => tasks'[p].registers.prog # Garbage
    BY <2>3, <2>4, PidsAreSlots DEF Table, Filled
  <2>6. /\ cpu' \in Registers /\ cpu'.prog # Garbage /\ machine' \in {"up", "faulted"}
    <3> DEFINE frame == Truncated(Frame)
               loaded == tasks'[i].registers
    <3>1. i < added
      BY <1>1, <2>2, ProgramsAssumption DEF Pids
    <3>2. loaded \in Registers /\ loaded.prog # Garbage
      BY <2>2, <2>3, <2>5, <3>1
    <3>3. \/ cpu' = cpu /\ machine' = "faulted"
          \/ cpu' = [[loaded EXCEPT !.krsp = frame] EXCEPT !.krsp = Wild] /\ machine' = machine
      BY <2>1 DEF Switches, PopRegisters, LoadedRegisters
    <3> HIDE DEF loaded, frame
    <3>4. CASE cpu' = [[loaded EXCEPT !.krsp = frame] EXCEPT !.krsp = Wild] /\ machine' = machine
      BY <3>2, <3>4 DEF Table, TypeOK, Registers
    <3> QED
      BY <2>4, <3>3, <3>4 DEF Table, TypeOK
  <2>7. TypeOK'
    BY <1>1, <2>2, <2>3, <2>6 DEF Table, TypeOK
  <2>8. Filled'
    BY <1>1, <2>2, <2>3, <2>5, <2>6, PidsAreSlots, ProgramsAssumption DEF Table, Filled, Pids
  <2> QED
    BY <2>7, <2>8 DEF Table
<1> QED
  BY <1>2, <1>3

LEMMA NextTable == Table /\ [Next]_vars => Table'
<1>1. Table /\ Next => Table'
  BY AddTaskTable, BootTable, ProgramTable, ExitTable, TickTable DEF Next, BootStep
<1>2. Table /\ UNCHANGED vars => Table'
  BY DEF Table, TypeOK, Filled, vars
<1> QED
  BY <1>1, <1>2

(* The types, with ticks in the jump to userspace and with stacks that an  *)
(* int cannot hold too: the scheduler's position stays inside tasks[], and *)
(* GETPID answers with a program's slot.                                   *)
THEOREM TypeCorrect ==
    ASSUME CleanSlots
    PROVE  Spec => []TypeOK
<1>1. Init => Table
  BY InitTable
<1>2. Table => TypeOK
  BY DEF Table
<1> QED
  BY <1>1, <1>2, NextTable, PTL DEF Spec

-----------------------------------------------------------------------------
(***************************************************************************)
(* Whose registers are where, when no tick falls into the jump to          *)
(* userspace and every stack has an address that an int holds.             *)
(***************************************************************************)
Whole(registers, p) ==
    /\ registers.prog = p
    /\ registers.at \in {"user", "syscall_entry"}
    /\ registers.rdi = "none" <=> registers.at = "user"

(* While kernelMain runs every program waits at its first instruction.     *)
BeforeTurns ==
    cpu.prog = Kernel =>
      /\ cpu.at \in {"kernelMain", "setStack", "popArguments", "sysret"}
      /\ argsIntact /\ currentTask = IdleTask
      /\ cpu.at \in {"popArguments", "sysret"} => rsp0 = TssStack
      /\ \A p \in Pids : p < added => tasks[p].registers = FirstRegisters(p)

(* From then on the processor runs the current task, and the others' whole *)
(* registers are in their slots.                                           *)
InTurns ==
    cpu.prog # Kernel =>
      /\ cpu.prog = currentTask /\ isEnabled /\ rsp0 = TssStack
      /\ Whole(cpu, currentTask)
      /\ \A p \in Pids \ {currentTask} : Whole(tasks[p].registers, p)

IndInv == Table /\ BeforeTurns /\ InTurns /\ NeverFaults

LEMMA KernelNoPid == \A p \in Pids : p # Kernel /\ p # Unset
BY ProgramsAssumption DEF Pids, Kernel, Unset

LEMMA InitIndInv == CleanSlots /\ Init => IndInv
<1> SUFFICES ASSUME CleanSlots, Init PROVE IndInv
  OBVIOUS
<1>1. BeforeTurns /\ InTurns /\ NeverFaults
  BY ProgramsAssumption DEF Init, BeforeTurns, InTurns, NeverFaults, IdleTask, Pids
<1> QED
  BY <1>1, InitTable DEF IndInv

LEMMA AddTaskIndInv ==
    ASSUME IndInv, AddTask
    PROVE  IndInv'
<1>1. /\ Table' /\ added \in Pids /\ added' = added + 1
      /\ tasks' = [tasks EXCEPT ![added] = [state |-> STATE_RUNNING,
                                            registers |-> FirstRegisters(added)]]
  BY AddTaskTable DEF IndInv
<1>2. /\ cpu.prog = Kernel
      /\ UNCHANGED <<currentTask, isEnabled, cpu, rsp0, argsIntact, machine>>
  BY DEF AddTask
<1>3. \A p \in Pids : p < added => tasks[p].registers = FirstRegisters(p)
  BY <1>2 DEF IndInv, BeforeTurns
<1>4. \A p \in Pids : p < added' => tasks'[p].registers = FirstRegisters(p)
  <2> SUFFICES ASSUME NEW p \in Pids, p < added'
               PROVE  tasks'[p].registers = FirstRegisters(p)
    OBVIOUS
  <2>1. p = added \/ p < added
    BY <1>1, ProgramsAssumption DEF Pids
  <2> DEFINE first == FirstRegisters(added)
  <2> HIDE DEF first
  <2>2. tasks' = [tasks EXCEPT ![added] = [state |-> STATE_RUNNING, registers |-> first]]
    BY <1>1 DEF first
  <2>3. p \in Slots /\ added \in Slots /\ DOMAIN tasks = Slots
    BY <1>1, PidsAreSlots DEF IndInv, Table, TypeOK
  <2>4. CASE p = added
    BY <2>2, <2>3, <2>4 DEF first
  <2>5. CASE p < added /\ p # added
    BY <1>3, <2>2, <2>3, <2>5
  <2> QED
    BY <2>1, <2>4, <2>5
<1>5. BeforeTurns' /\ InTurns' /\ NeverFaults'
  BY <1>2, <1>4 DEF IndInv, BeforeTurns, InTurns, NeverFaults
<1> QED
  BY <1>1, <1>5 DEF IndInv

LEMMA BootIndInv ==
    ASSUME IndInv, EnableScheduler \/ SetStack \/ PopArguments \/ Sysret
    PROVE  IndInv'
<1>1. Table'
  BY BootTable DEF IndInv
<1>2. /\ cpu.prog = Kernel /\ UNCHANGED <<tasks, currentTask, taskNum, added>>
      /\ argsIntact /\ machine = "up" /\ cpu \in Registers
  BY DEF IndInv, Table, TypeOK, BeforeTurns, NeverFaults,
         EnableScheduler, SetStack, PopArguments, Sysret, KernelAt
<1>3. CASE EnableScheduler
  <2>1. cpu'.at = "setStack" /\ cpu'.prog = Kernel /\ UNCHANGED <<argsIntact, machine>>
    BY <1>2, <1>3 DEF EnableScheduler, KernelAt, Registers
  <2> QED
    BY <1>1, <1>2, <2>1 DEF IndInv, BeforeTurns, InTurns, NeverFaults
<1>4. CASE SetStack
  <2>1. /\ cpu'.at = "popArguments" /\ cpu'.prog = Kernel /\ rsp0' = TssStack
        /\ argsIntact' /\ machine' = machine
    BY <1>2, <1>4 DEF SetStack, KernelAt, Registers
  <2> QED
    BY <1>1, <1>2, <2>1 DEF IndInv, BeforeTurns, InTurns, NeverFaults
<1>5. CASE PopArguments
  <2>1. /\ cpu.at = "popArguments" /\ cpu'.at = "sysret" /\ cpu'.prog = Kernel
        /\ machine' = "up" /\ UNCHANGED <<argsIntact, rsp0>>
    BY <1>2, <1>5 DEF PopArguments, KernelAt, Registers
  <2> QED
    BY <1>1, <1>2, <2>1 DEF IndInv, BeforeTurns, InTurns, NeverFaults
<1>6. CASE Sysret
  <2>1. PICK v \in Values : cpu' = [FirstRegisters(IdleTask) EXCEPT !.rax = v]
    BY <1>6 DEF Sysret
  <2>2. Whole(cpu', IdleTask)
    BY <2>1 DEF Whole, FirstRegisters
  <2>3. /\ cpu'.prog = IdleTask /\ IdleTask # Kernel /\ currentTask = IdleTask
        /\ cpu.at = "sysret" /\ rsp0 = TssStack /\ isEnabled /\ added = NPrograms
    BY <1>2, <1>6, <2>2, KernelNoPid, PidsAreSlots
       DEF Sysret, Whole, IndInv, BeforeTurns, Table, Filled
  <2>4. \A p \in Pids \ {IdleTask} : Whole(tasks[p].registers, p)
    <3>1. ASSUME NEW p \in Pids PROVE Whole(FirstRegisters(p), p)
      BY DEF Whole, FirstRegisters
    <3>2. \A p \in Pids : tasks[p].registers = FirstRegisters(p)
      BY <1>2, <2>3, ProgramsAssumption DEF IndInv, BeforeTurns, Pids
    <3> QED
      BY <3>1, <3>2
  <2>5. UNCHANGED <<isEnabled, rsp0, machine>>
    BY <1>6 DEF Sysret
  <2> QED
    BY <1>1, <1>2, <2>2, <2>3, <2>4, <2>5 DEF IndInv, BeforeTurns, InTurns, NeverFaults
<1> QED
  BY <1>3, <1>4, <1>5, <1>6

(* What a program does to its registers leaves them whole.                 *)
LEMMA ProgramIndInv ==
    ASSUME IndInv, Compute \/ SyscallEnter \/ SyscallGetPid \/ SyscallExit
    PROVE  IndInv' /\ cpu.prog = currentTask /\ cpu'.prog = currentTask
<1>1. Table'
  BY ProgramTable, ExitTable DEF IndInv
<1>2. cpu.prog # Kernel
  BY KernelNoPid DEF Compute, SyscallEnter, SyscallGetPid, SyscallExit, InUserspace, InSyscall,
                     IndInv, BeforeTurns
<1>3. cpu.prog = currentTask /\ Whole(cpu, currentTask) /\ cpu \in Registers
  BY <1>2 DEF IndInv, InTurns, Table, TypeOK
<1>4. Whole(cpu', currentTask)
  <2>1. CASE Compute
    BY <1>3, <2>1 DEF Compute, Whole, Registers
  <2>2. CASE SyscallEnter
    BY <1>3, <2>2 DEF SyscallEnter, Whole, Registers
  <2>3. CASE SyscallGetPid \/ SyscallExit
    BY <1>3, <2>3 DEF SyscallGetPid, SyscallExit, Return, Whole, Registers
  <2> QED
    BY <2>1, <2>2, <2>3
<1>5. \A i \in Slots : tasks'[i].registers = tasks[i].registers
  <2>1. tasks' = tasks \/ tasks' = [tasks EXCEPT ![currentTask].state = STATE_HALTED]
    BY DEF Compute, SyscallEnter, SyscallGetPid, SyscallExit
  <2> QED
    BY <2>1 DEF IndInv, Table, TypeOK
<1>6. UNCHANGED <<currentTask, isEnabled, rsp0, machine>>
  BY DEF Compute, SyscallEnter, SyscallGetPid, SyscallExit
<1>7. \A p \in Pids : tasks'[p].registers = tasks[p].registers
  BY <1>5, PidsAreSlots
<1>8. cpu'.prog = currentTask
  BY <1>4 DEF Whole
<1>9. InTurns'
  <2>1. /\ isEnabled /\ rsp0 = TssStack
        /\ \A p \in Pids \ {currentTask} : Whole(tasks[p].registers, p)
    BY <1>2 DEF IndInv, InTurns
  <2>2. \A p \in Pids \ {currentTask} : Whole(tasks'[p].registers, p)
    BY <1>7, <2>1
  <2>3. isEnabled' /\ rsp0' = TssStack /\ currentTask' = currentTask
    BY <1>6, <2>1
  <2> QED
    BY <1>4, <1>8, <2>2, <2>3, Zenon DEF InTurns
<1>10. BeforeTurns' /\ NeverFaults'
  BY <1>2, <1>3, <1>6, <1>8 DEF IndInv, BeforeTurns, NeverFaults
<1> QED
  BY <1>1, <1>3, <1>8, <1>9, <1>10 DEF IndInv

(* With no ticks in the boot, the frame is on the stack of the TSS or on   *)
(* the current task's own: the task's registers are saved, and those of    *)
(* the next task come back whole.                                          *)
LEMMA TickSwitches ==
    ASSUME IndInv, Tick, ~BootTicks, FramesFit
    PROVE  \E i \in Runnable :
             /\ Switches(i) /\ cpu.prog = currentTask /\ added = NPrograms
             /\ machine' = "up" /\ Frame # Unset
             /\ cpu' = [tasks'[i].registers EXCEPT !.krsp = Wild]
<1>1. cpu.prog # Kernel /\ isEnabled
  BY DEF Tick, InterruptsAllowed
<1>2. /\ cpu.prog = currentTask /\ rsp0 = TssStack /\ currentTask \in Pids
      /\ added = NPrograms
  BY <1>1 DEF IndInv, InTurns, Table, Filled
<1>3. Frame \in Pids \cup {TssStack} /\ Frame # Unset
  BY <1>2, KernelNoPid DEF Frame, TssStack, Unset
<1>4. Truncated(Frame) = Frame
  BY <1>3 DEF FramesFit, Truncated
<1>5. PICK i \in Runnable : Switches(i)
  BY <1>1, <1>3, ScheduleSwitches DEF Tick, IndInv
<1> DEFINE loaded == tasks'[i].registers
           frame == Frame
<1>6. loaded \in Registers
  BY <1>3, <1>5, SwitchSaves, PidsAreSlots DEF IndInv, Switches
<1>7. PopRegisters([loaded EXCEPT !.krsp = frame])
  BY <1>4, <1>5 DEF Switches, LoadedRegisters
<1> HIDE DEF loaded
<1>8. [loaded EXCEPT !.krsp = frame].krsp = frame
  BY <1>6 DEF Registers
<1>9. cpu' = [[loaded EXCEPT !.krsp = frame] EXCEPT !.krsp = Wild] /\ machine' = machine
  BY <1>7, <1>8 DEF PopRegisters
<1> HIDE DEF frame
<1>10. cpu' = [loaded EXCEPT !.krsp = Wild]
  BY <1>6, <1>9 DEF Registers
<1> QED
  BY <1>2, <1>3, <1>5, <1>9, <1>10 DEF loaded, IndInv, NeverFaults

LEMMA TickIndInv ==
    ASSUME IndInv, Tick, ~BootTicks, FramesFit
    PROVE  IndInv' /\ cpu'.prog = currentTask'
<1>1. Table'
  BY TickTable DEF IndInv
<1>2. PICK i \in Runnable :
        /\ Switches(i) /\ cpu.prog = currentTask /\ added = NPrograms
        /\ machine' = "up" /\ Frame # Unset
        /\ cpu' = [tasks'[i].registers EXCEPT !.krsp = Wild]
  BY TickSwitches
<1>3. /\ currentTask \in Pids /\ cpu.prog # Kernel /\ rsp0 = TssStack /\ isEnabled
      /\ Whole(cpu, currentTask)
      /\ \A p \in Pids \ {currentTask} : Whole(tasks[p].registers, p)
  BY <1>2, KernelNoPid DEF IndInv, Table, Filled, InTurns
<1>4. i \in Pids /\ currentTask' = i
  BY <1>2 DEF Switches
<1>5. /\ tasks' \in [Slots -> [state : {STATE_HALTED, STATE_RUNNING}, registers : Registers]]
      /\ tasks'[currentTask].registers = PushedRegisters
      /\ \A j \in Slots : j # currentTask => tasks'[j].registers = tasks[j].registers
  BY <1>2, SwitchSaves DEF IndInv
<1>6. Whole(PushedRegisters, currentTask)
  <2> DEFINE frame == Frame
  <2> HIDE DEF frame
  <2>1. Whole([cpu EXCEPT !.krsp = frame], currentTask)
    BY <1>3 DEF Whole, IndInv, Table, TypeOK, Registers
  <2> QED
    BY <2>1 DEF PushedRegisters, frame
<1>7. \A p \in Pids : Whole(tasks'[p].registers, p)
  BY <1>3, <1>5, <1>6, PidsAreSlots
<1>8. Whole(cpu', i)
  <2> DEFINE loaded == tasks'[i].registers
  <2>1. Whole(loaded, i) /\ loaded \in Registers
    BY <1>4, <1>5, <1>7, PidsAreSlots
  <2>2. cpu' = [loaded EXCEPT !.krsp = Wild]
    BY <1>2
  <2> HIDE DEF loaded
  <2> QED
    BY <2>1, <2>2 DEF Whole, Registers
<1>9. UNCHANGED <<rsp0, isEnabled>>
  BY DEF Tick
<1>10. cpu'.prog = currentTask' /\ cpu'.prog # Kernel
  BY <1>4, <1>8, KernelNoPid DEF Whole
<1>11. InTurns' /\ BeforeTurns' /\ NeverFaults'
  BY <1>2, <1>3, <1>4, <1>7, <1>8, <1>9, <1>10 DEF InTurns, BeforeTurns, NeverFaults
<1> QED
  BY <1>1, <1>10, <1>11 DEF IndInv

LEMMA NextIndInv ==
    ASSUME ~BootTicks, FramesFit
    PROVE  IndInv /\ [Next]_vars => IndInv'
<1>1. IndInv /\ Next => IndInv'
  BY AddTaskIndInv, BootIndInv, ProgramIndInv, TickIndInv DEF Next, BootStep
<1>2. IndInv /\ UNCHANGED vars => IndInv'
  BY DEF IndInv, Table, TypeOK, Filled, BeforeTurns, InTurns, NeverFaults, vars
<1> QED
  BY <1>1, <1>2

LEMMA AlwaysIndInv ==
    ASSUME CleanSlots, ~BootTicks, FramesFit
    PROVE  Spec => []IndInv
BY InitIndInv, NextIndInv, PTL DEF Spec

(* Every switch pops a register file that is whole, from a stack that      *)
(* exists: the jump to userspace and all that follow succeed.              *)
THEOREM SwitchesNeverFault ==
    ASSUME CleanSlots, ~BootTicks, FramesFit
    PROVE  Spec => []NeverFaults
<1>1. IndInv => NeverFaults
  BY DEF IndInv
<1> QED
  BY <1>1, AlwaysIndInv, PTL

-----------------------------------------------------------------------------
(***************************************************************************)
(* The refinement: what programs see is what processors of their own would *)
(* show them.                                                              *)
(***************************************************************************)
Seen == [p \in Pids |-> OwnRegisters(p)]
Exited == {p \in 0 .. (added - 1) : tasks[p].state = STATE_HALTED}

LEMMA InitSeen == Init => Cpus!Init
<1> SUFFICES ASSUME Init PROVE Cpus!Init
  OBVIOUS
<1>1. added = 0 /\ cpu.prog = Kernel
  BY DEF Init
<1>2. \A p \in Pids : OwnRegisters(p) = [rax |-> 0, rdi |-> "none"]
  BY <1>1, KernelNoPid DEF OwnRegisters, FirstRegisters, Pids
<1>3. Exited = {}
  BY <1>1 DEF Exited
<1>4. Pids = Cpus!Pids
  BY DEF Pids, Cpus!Pids
<1>5. Seen = [p \in Cpus!Pids |-> [rax |-> 0, rdi |-> "none"]]
  BY <1>2, <1>4 DEF Seen
<1> QED
  BY <1>1, <1>3, <1>5 DEF Cpus!Init, Cpus!Nobody, Kernel, Seen, Exited

(* A new task's registers are those it starts with.                        *)
LEMMA AddTaskUnseen ==
    ASSUME IndInv, AddTask
    PROVE  UNCHANGED Cpus!avars
<1>1. /\ added \in Pids /\ added' = added + 1
      /\ tasks' = [tasks EXCEPT ![added] = [state |-> STATE_RUNNING,
                                            registers |-> FirstRegisters(added)]]
      /\ cpu' = cpu /\ added \in Slots
  BY AddTaskTable, PidsAreSlots DEF IndInv, AddTask
<1>2. DOMAIN tasks = Slots
  BY DEF IndInv, Table, TypeOK
<1> DEFINE first == FirstRegisters(added)
<1> HIDE DEF first
<1>3. /\ tasks'[added].registers = first /\ tasks'[added].state = STATE_RUNNING
      /\ \A i \in Slots : i # added => tasks'[i] = tasks[i]
  BY <1>1, <1>2 DEF first
<1>4. ASSUME NEW p \in Pids PROVE OwnRegisters(p)' = OwnRegisters(p)
  <2>1. CASE p = added
    BY <1>1, <1>3, <2>1, ProgramsAssumption DEF OwnRegisters, Pids, first
  <2>2. CASE p # added
    <3>1. tasks'[p] = tasks[p] /\ (p < added' <=> p < added)
      BY <1>1, <1>3, <2>2, PidsAreSlots, ProgramsAssumption DEF Pids
    <3> QED
      BY <1>1, <3>1 DEF OwnRegisters
  <2> QED
    BY <2>1, <2>2
<1>5. Seen' = Seen
  BY <1>4 DEF Seen
<1>6. ASSUME NEW p PROVE p \in Exited' <=> p \in Exited
  <2>1. CASE p = added
    BY <1>1, <1>3, <2>1, ProgramsAssumption DEF Exited, STATE_HALTED, STATE_RUNNING, Pids
  <2>2. CASE p # added
    <3>1. ASSUME p \in 0 .. added PROVE p \in Slots
      BY <1>1, <3>1, ProgramsAssumption DEF Slots, Pids
    <3>2. p \in 0 .. added => tasks'[p] = tasks[p]
      BY <1>3, <2>2, <3>1
    <3> QED
      BY <1>1, <2>2, <3>2, ProgramsAssumption DEF Exited, Pids
  <2> QED
    BY <2>1, <2>2
<1>7. Exited' = Exited
  BY <1>6
<1> QED
  BY <1>1, <1>5, <1>7 DEF Cpus!avars, Seen, Exited

LEMMA KernelStepUnseen ==
    ASSUME IndInv, EnableScheduler \/ SetStack \/ PopArguments
    PROVE  UNCHANGED Cpus!avars
<1>1. cpu.prog = Kernel /\ cpu'.prog = Kernel /\ UNCHANGED <<tasks, added>>
  BY DEF EnableScheduler, SetStack, PopArguments, KernelAt, IndInv, Table, TypeOK, Registers
<1>2. \A p \in Pids : OwnRegisters(p)' = OwnRegisters(p)
  BY <1>1, KernelNoPid DEF OwnRegisters
<1>3. Seen' = Seen /\ Exited' = Exited
  BY <1>1, <1>2 DEF Seen, Exited
<1> QED
  BY <1>1, <1>3 DEF Cpus!avars, Seen, Exited

(* Nothing a program does reaches another's registers.                     *)
LEMMA OthersUnseen ==
    ASSUME IndInv, NEW q \in Pids, cpu'.prog = q, added' = added,
           cpu.prog \in {q, Kernel},
           \A i \in Slots : tasks'[i].registers = tasks[i].registers
    PROVE  Seen' = [Seen EXCEPT ![q] = [rax |-> cpu'.rax, rdi |-> cpu'.rdi]]
<1>1. ASSUME NEW p \in Pids, p # q PROVE OwnRegisters(p)' = OwnRegisters(p)
  BY <1>1, PidsAreSlots, KernelNoPid DEF OwnRegisters
<1>2. OwnRegisters(q)' = [rax |-> cpu'.rax, rdi |-> cpu'.rdi]
  BY DEF OwnRegisters
<1> QED
  BY <1>1, <1>2 DEF Seen

LEMMA SysretStarts ==
    ASSUME IndInv, Sysret
    PROVE  Cpus!Start
<1>1. PICK v \in Values : cpu' = [FirstRegisters(IdleTask) EXCEPT !.rax = v]
  BY DEF Sysret
<1>2. cpu'.prog = IdleTask /\ cpu'.rax = v /\ cpu'.rdi = "none"
  BY <1>1 DEF FirstRegisters
<1>3. /\ cpu.prog = Kernel /\ cpu.at = "sysret" /\ UNCHANGED <<tasks, added>>
      /\ IdleTask \in Pids /\ added = NPrograms
  BY PidsAreSlots DEF Sysret, IndInv, Table, Filled
<1>4. Seen' = [Seen EXCEPT ![0] = [rax |-> v, rdi |-> "none"]]
  BY <1>2, <1>3, OthersUnseen DEF IdleTask
<1>5. Seen[0] = [rax |-> 0, rdi |-> "none"]
  <2>1. OwnRegisters(0) = [rax |-> 0, rdi |-> "none"]
    <3>1. tasks[0].registers = FirstRegisters(0) /\ 0 < added /\ cpu.prog # 0
      BY <1>3, KernelNoPid, ProgramsAssumption DEF IndInv, BeforeTurns, IdleTask, Pids
    <3>2. FirstRegisters(0).rax = 0 /\ FirstRegisters(0).rdi = "none"
      BY DEF FirstRegisters
    <3> QED
      BY <3>1, <3>2 DEF OwnRegisters
  <2> QED
    BY <1>3, <2>1 DEF Seen, IdleTask
<1>6. Seen' = [Seen EXCEPT ![0].rax = v]
  <2>1. [Seen[0] EXCEPT !.rax = v] = [rax |-> v, rdi |-> "none"]
    BY <1>5
  <2>2. [Seen EXCEPT ![0].rax = v] = [Seen EXCEPT ![0] = [Seen[0] EXCEPT !.rax = v]]
    OBVIOUS
  <2> QED
    BY <1>4, <2>1, <2>2
<1>7. Exited' = Exited
  BY <1>3 DEF Exited
<1> QED
  BY <1>1, <1>2, <1>3, <1>6, <1>7 DEF Cpus!Start, Cpus!Nobody, Kernel, IdleTask, Seen, Exited

LEMMA CurrentSeen ==
    ASSUME IndInv, cpu.prog = currentTask
    PROVE  /\ currentTask \in Pids /\ currentTask \in Slots
           /\ Seen[currentTask] = [rax |-> cpu.rax, rdi |-> cpu.rdi]
           /\ cpu.rdi = "none" <=> cpu.at = "user"
           /\ added = NPrograms /\ taskNum = NPrograms
<1>1. currentTask \in Pids /\ currentTask \in Slots /\ taskNum = added
  BY PidsAreSlots DEF IndInv, Table, Filled
<1>2. cpu.prog # Kernel
  BY <1>1, KernelNoPid
<1>3. isEnabled /\ Whole(cpu, currentTask)
  BY <1>2 DEF IndInv, InTurns
<1> QED
  BY <1>1, <1>3 DEF Seen, OwnRegisters, Whole, IndInv, Table, Filled

LEMMA ProgramsSeen ==
    ASSUME IndInv, Compute \/ SyscallEnter \/ SyscallGetPid \/ SyscallExit
    PROVE  Cpus!Next
<1>1. cpu.prog = currentTask /\ cpu'.prog = currentTask
  BY ProgramIndInv
<1>2. /\ currentTask \in Pids /\ currentTask \in Slots
      /\ Seen[currentTask] = [rax |-> cpu.rax, rdi |-> cpu.rdi]
      /\ cpu.rdi = "none" <=> cpu.at = "user"
      /\ added = NPrograms /\ Pids = Cpus!Pids
  BY <1>1, CurrentSeen DEF Pids, Cpus!Pids
<1>3. /\ cpu \in Registers
      /\ tasks \in [Slots -> [state : {STATE_HALTED, STATE_RUNNING}, registers : Registers]]
  BY DEF IndInv, Table, TypeOK
<1>4. Seen' = [Seen EXCEPT ![currentTask] = [rax |-> cpu'.rax, rdi |-> cpu'.rdi]]
  <2>1. tasks' = tasks \/ tasks' = [tasks EXCEPT ![currentTask].state = STATE_HALTED]
    BY DEF Compute, SyscallEnter, SyscallGetPid, SyscallExit
  <2>2. \A i \in Slots : tasks'[i].registers = tasks[i].registers
    BY <1>3, <2>1
  <2>3. added' = added
    BY DEF Compute, SyscallEnter, SyscallGetPid, SyscallExit
  <2> QED
    BY <1>1, <1>2, <2>2, <2>3, OthersUnseen
<1>5. CASE Compute
  <2>1. PICK v \in Values : cpu' = [cpu EXCEPT !.rax = v]
    BY <1>5 DEF Compute
  <2>2. cpu.rdi = "none" /\ UNCHANGED <<tasks, added>>
    BY <1>2, <1>5 DEF Compute, InUserspace
  <2>3. Seen' = [Seen EXCEPT ![currentTask] = [rax |-> v, rdi |-> cpu.rdi]]
    BY <1>3, <1>4, <2>1 DEF Registers
  <2>4. [Seen[currentTask] EXCEPT !.rax = v] = [rax |-> v, rdi |-> cpu.rdi]
    BY <1>2
  <2>5. [Seen EXCEPT ![currentTask].rax = v]
          = [Seen EXCEPT ![currentTask] = [Seen[currentTask] EXCEPT !.rax = v]]
    OBVIOUS
  <2>6. Seen' = [Seen EXCEPT ![currentTask].rax = v]
    BY <2>3, <2>4, <2>5
  <2>7. Exited' = Exited
    BY <2>2 DEF Exited
  <2>8. \E x \in Values : Seen' = [Seen EXCEPT ![cpu.prog].rax = x]
    BY <1>1, <2>6
  <2>9. Seen[cpu.prog].rdi = "none" /\ cpu.prog \in Cpus!Pids
    BY <1>1, <1>2, <2>2
  <2>10. Cpus!Compute
    BY <1>1, <2>7, <2>8, <2>9 DEF Cpus!Compute, Seen, Exited
  <2> QED
    BY <2>10 DEF Cpus!Next
<1>6. CASE SyscallEnter
  <2>1. PICK call \in {"getpid", "exit"} :
          cpu' = [cpu EXCEPT !.rdi = call, !.at = "syscall_entry"]
    BY <1>6 DEF SyscallEnter
  <2>2. cpu.rdi = "none" /\ UNCHANGED <<tasks, added>>
    BY <1>2, <1>6 DEF SyscallEnter, InUserspace
  <2>3. Seen' = [Seen EXCEPT ![currentTask] = [rax |-> cpu.rax, rdi |-> call]]
    BY <1>3, <1>4, <2>1 DEF Registers
  <2>4. [Seen[currentTask] EXCEPT !.rdi = call] = [rax |-> cpu.rax, rdi |-> call]
    BY <1>2
  <2>5. [Seen EXCEPT ![currentTask].rdi = call]
          = [Seen EXCEPT ![currentTask] = [Seen[currentTask] EXCEPT !.rdi = call]]
    OBVIOUS
  <2>6. Seen' = [Seen EXCEPT ![currentTask].rdi = call]
    BY <2>3, <2>4, <2>5
  <2>7. Exited' = Exited
    BY <2>2 DEF Exited
  <2>8. \E x \in {"getpid", "exit"} : Seen' = [Seen EXCEPT ![cpu.prog].rdi = x]
    BY <1>1, <2>6
  <2>9. Seen[cpu.prog].rdi = "none" /\ cpu.prog \in Cpus!Pids
    BY <1>1, <1>2, <2>2
  <2>10. Cpus!Call
    BY <1>1, <2>7, <2>8, <2>9 DEF Cpus!Call, Seen, Exited
  <2> QED
    BY <2>10 DEF Cpus!Next
<1>7. CASE SyscallGetPid
  <2>1. cpu.rdi = "getpid" /\ UNCHANGED <<tasks, added>>
        /\ cpu' = [cpu EXCEPT !.rax = currentTask, !.rdi = "none", !.at = "user"]
    BY <1>7 DEF SyscallGetPid, InSyscall, Return
  <2>2. Seen' = [Seen EXCEPT ![currentTask] = [rax |-> currentTask, rdi |-> "none"]]
    BY <1>3, <1>4, <2>1 DEF Registers
  <2>3. Exited' = Exited
    BY <2>1 DEF Exited
  <2>4. Seen[currentTask].rdi = "getpid"
    BY <1>2, <2>1
  <2>5. Cpus!GetPid
    BY <1>1, <1>2, <2>2, <2>3, <2>4 DEF Cpus!GetPid, Seen, Exited
  <2> QED
    BY <2>5 DEF Cpus!Next
<1>8. CASE SyscallExit
  <2>1. /\ cpu.rdi = "exit" /\ added' = added
        /\ tasks' = [tasks EXCEPT ![currentTask].state = STATE_HALTED]
        /\ cpu' = [cpu EXCEPT !.rax = Done, !.rdi = "none", !.at = "user"]
    BY <1>8 DEF SyscallExit, InSyscall, Return
  <2>2. Seen' = [Seen EXCEPT ![currentTask] = [rax |-> Done, rdi |-> "none"]]
    BY <1>3, <1>4, <2>1 DEF Registers
  <2>3. Exited' = Exited \cup {currentTask}
    BY <1>2, <1>3, <2>1, ProgramsAssumption DEF Exited, Slots, Pids
  <2>4. Seen[currentTask].rdi = "exit"
    BY <1>2, <2>1
  <2>5. Cpus!Exit
    BY <1>1, <1>2, <2>2, <2>3, <2>4 DEF Cpus!Exit, Cpus!Done, Done, Seen, Exited
  <2> QED
    BY <2>5 DEF Cpus!Next
<1> QED
  BY <1>5, <1>6, <1>7, <1>8

(* A tick shows programs nothing but whose turn it is.                     *)
LEMMA TickIsSwitch ==
    ASSUME IndInv, Tick, ~BootTicks, FramesFit
    PROVE  Cpus!Switch
<1>1. PICK i \in Runnable :
        /\ Switches(i) /\ cpu.prog = currentTask /\ added = NPrograms
        /\ machine' = "up" /\ Frame # Unset
        /\ cpu' = [tasks'[i].registers EXCEPT !.krsp = Wild]
  BY TickSwitches
<1>2. /\ currentTask \in Pids /\ currentTask \in Slots /\ Pids = Cpus!Pids
      /\ taskNum = NPrograms
  BY <1>1, CurrentSeen DEF Pids, Cpus!Pids
<1>3. /\ tasks' \in [Slots -> [state : {STATE_HALTED, STATE_RUNNING}, registers : Registers]]
      /\ \A j \in Slots : tasks'[j].state = tasks[j].state
      /\ tasks'[currentTask].registers = PushedRegisters
      /\ \A j \in Slots : j # currentTask => tasks'[j].registers = tasks[j].registers
  BY <1>1, SwitchSaves DEF IndInv
<1>4. i \in Pids /\ i \in Slots /\ IsNextTask(i) /\ added' = added
  BY <1>1, PidsAreSlots DEF Switches, Tick
<1>5. cpu'.prog = i /\ cpu'.rax = tasks'[i].registers.rax /\ cpu'.rdi = tasks'[i].registers.rdi
  <2>1. tasks'[i].registers \in Registers
    BY <1>3, <1>4
  <2>2. cpu'.prog = i
    BY <1>1, TickIndInv DEF Switches
  <2> QED
    BY <1>1, <2>1, <2>2 DEF Registers
<1>6. PushedRegisters.rax = cpu.rax /\ PushedRegisters.rdi = cpu.rdi
  BY DEF PushedRegisters, IndInv, Table, TypeOK, Registers
<1>7. ASSUME NEW p \in Pids PROVE OwnRegisters(p)' = OwnRegisters(p)
  <2>1. p < added /\ p \in Slots
    BY <1>1, PidsAreSlots, ProgramsAssumption DEF Pids
  <2>2. OwnRegisters(p)' = [rax |-> tasks'[p].registers.rax, rdi |-> tasks'[p].registers.rdi]
    BY <1>4, <1>5, <2>1 DEF OwnRegisters
  <2> QED
    BY <1>1, <1>3, <1>6, <2>1, <2>2 DEF OwnRegisters
<1>8. Seen' = Seen
  BY <1>7 DEF Seen
<1>9. Exited' = Exited
  <2>1. \A p \in 0 .. (added - 1) : tasks'[p].state = tasks[p].state
    BY <1>1, <1>3, PidsAreSlots DEF Pids
  <2> QED
    BY <1>4, <2>1 DEF Exited
<1>10. \A q \in Pids : q \in Runnable <=> q \notin Exited
  BY <1>1, <1>2 DEF Runnable, Exited, Pids
<1>11. \A q \in Pids : Cpus!Behind(currentTask, q) = Behind(q)
  BY <1>2 DEF Cpus!Behind, Behind
<1>12. \A q \in Pids \ Exited : Cpus!Behind(currentTask, i) <= Cpus!Behind(currentTask, q)
  BY <1>4, <1>10, <1>11 DEF IsNextTask
<1> QED
  BY <1>1, <1>2, <1>4, <1>5, <1>8, <1>9, <1>10, <1>12 DEF Cpus!Switch, Seen, Exited

(* Across ticks at any instruction a program's registers are changed by    *)
(* its own steps only, GETPID and EXIT act on the program that called      *)
(* them, and the turn passes to the next program that has not exited.      *)
THEOREM ImplementsVirtualCpus ==
    ASSUME CleanSlots, ~BootTicks, FramesFit
    PROVE  Spec => RunsLikeOwnCpus
<1>1. Init => Cpus!Init
  BY InitSeen
<1>2. IndInv /\ [Next]_vars => [Cpus!Next]_(Cpus!avars)
  <2>1. ASSUME IndInv, Next PROVE Cpus!Next \/ UNCHANGED Cpus!avars
    BY <2>1, AddTaskUnseen, KernelStepUnseen, SysretStarts, ProgramsSeen, TickIsSwitch
       DEF Next, BootStep, Cpus!Next
  <2>2. ASSUME UNCHANGED vars PROVE UNCHANGED Cpus!avars
    BY <2>2 DEF vars, Cpus!avars, OwnRegisters
  <2> QED
    BY <2>1, <2>2
<1> QED
  BY <1>1, <1>2, AlwaysIndInv, PTL DEF Spec, RunsLikeOwnCpus, Cpus!Spec
=============================================================================
