----------------------------- MODULE Multitasking -----------------------------
(***************************************************************************)
(* Preemptive multitasking: the task table (kernel/src/scheduling/         *)
(* taskmgr.cpp), the timer interrupt (cpu/intrerupts.asm, intrerupts.cpp), *)
(* the system-call entry (userspace/userspace.asm, userspace.cpp) and the  *)
(* end of kernelMain, which adds the tasks and jumps into userspace.       *)
(*                                                                         *)
(* A register file is reduced to what the properties tell apart: rax, from *)
(* the half POP_REG takes before it reloads rsp; rdi (the pending call),   *)
(* prog (whose code and stack) and at (the place in it), from the half it  *)
(* takes afterwards; and krsp, the KernelRsp slot, which says where that   *)
(* half is.                                                                *)
(***************************************************************************)
EXTENDS Integers

CONSTANTS
    NPrograms,      \* the programs kernelMain adds: 0 is the idle task
    MaxSlots,       \* the length of tasks[]: 1024 in the code
    Values,         \* what a program may compute in its register
    StaleStates,    \* what the states of tasks[] may be before AddTask
    BootTicks,      \* whether ticks fall into the jump to userspace
    HighFrames      \* the frames at addresses an int cannot hold

ASSUME ProgramsAssumption ==
    /\ NPrograms \in Nat \ {0}
    /\ MaxSlots \in Nat
    /\ NPrograms <= MaxSlots

Slots == 0 .. (MaxSlots - 1)
Pids == 0 .. (NPrograms - 1)
IdleTask == 0

(* Whose registers the processor may hold besides a program's.             *)
Kernel == -1
Garbage == -2

(* Where a frame may be besides a program's own stack and the stack that   *)
(* kernelMain runs on, named after their owners.                           *)
TssStack == -3
Unset == -4
Wild == -5

STATE_HALTED == 0
STATE_RUNNING == 1

VARIABLES
    tasks,          \* tasks[]: the state and the saved registers of a slot
    currentTask,
    taskNum,
    isEnabled,
    added,          \* how many programs kernelMain has added
    cpu,            \* the registers of the processor
    rsp0,           \* the stack the TSS holds for interrupts from ring 3
    argsIntact,     \* RunInUserspace's two saved words are still on its stack
    machine         \* "up" or "faulted"

vars == <<tasks, currentTask, taskNum, isEnabled, added, cpu, rsp0,
          argsIntact, machine>>

(* What a system call without a result returns (userspace.cpp).            *)
Done == 512

InUserspace == cpu.prog \in Pids /\ cpu.at = "user"

(***************************************************************************)
(* tmgr is a local of kernelMain: its counters are initialised, the states *)
(* and registers in tasks[] are what the stack held.                       *)
(***************************************************************************)
StaleRegisters ==
    [rax |-> 0, rdi |-> "none", prog |-> Garbage, at |-> "user",
     krsp |-> Wild]

Init ==
    /\ \E states \in StaleStates :
         tasks = [i \in Slots |-> [state |-> states[i],
                                   registers |-> StaleRegisters]]
    /\ currentTask = 0
    /\ taskNum = 0
    /\ isEnabled = FALSE
    /\ added = 0
    /\ cpu = [rax |-> 0, rdi |-> "none", prog |-> Kernel, at |-> "kernelMain",
              krsp |-> Wild]
    /\ rsp0 = Unset
    /\ argsIntact = TRUE
    /\ machine = "up"

(***************************************************************************)
(* AddTask: "find the first spot that's empty".                            *)
(***************************************************************************)
FirstRegisters(p) ==
    [rax |-> 0, rdi |-> "none", prog |-> p, at |-> "user", krsp |-> Wild]

FirstSpot(i) ==
    /\ tasks[i].state = STATE_HALTED
    /\ \A j \in 0 .. (i - 1) : tasks[j].state # STATE_HALTED

AddTask ==
    /\ machine = "up" /\ cpu.prog = Kernel /\ cpu.at = "kernelMain"
    /\ added < NPrograms
    /\ \E i \in Slots :
         /\ FirstSpot(i)
         /\ taskNum' = IF i >= taskNum THEN i + 1 ELSE taskNum
         /\ tasks' = [tasks EXCEPT
              ![i] = [state |-> STATE_RUNNING,
                      registers |-> FirstRegisters(added)]]
    /\ added' = added + 1
    /\ UNCHANGED <<currentTask, isEnabled, cpu, rsp0, argsIntact, machine>>

(***************************************************************************)
(* The jump into userspace: isEnabled = 1, then RunInUserspace pushes its  *)
(* arguments and calls TSSSetStack with the stack that ends above them,    *)
(* pops them, and sysrets to the idle task.                                *)
(***************************************************************************)
KernelAt(place, next) ==
    /\ machine = "up" /\ cpu.prog = Kernel /\ cpu.at = place
    /\ cpu' = [cpu EXCEPT !.at = next]

EnableScheduler ==
    /\ added = NPrograms
    /\ KernelAt("kernelMain", "setStack")
    /\ isEnabled' = TRUE
    /\ UNCHANGED <<tasks, currentTask, taskNum, added, rsp0, argsIntact,
                   machine>>

SetStack ==
    /\ KernelAt("setStack", "popArguments")
    /\ rsp0' = TssStack
    /\ argsIntact' = TRUE
    /\ UNCHANGED <<tasks, currentTask, taskNum, isEnabled, added, machine>>

PopArguments ==
    /\ KernelAt("popArguments", "sysret")
    /\ machine' = IF argsIntact THEN "up" ELSE "faulted"
    /\ UNCHANGED <<tasks, currentTask, taskNum, isEnabled, added, rsp0,
                   argsIntact>>

Sysret ==
    /\ machine = "up" /\ cpu.prog = Kernel /\ cpu.at = "sysret"
    /\ \E v \in Values :
         cpu' = [FirstRegisters(IdleTask) EXCEPT !.rax = v]
    /\ UNCHANGED <<tasks, currentTask, taskNum, isEnabled, added, rsp0,
                   argsIntact, machine>>

BootStep == AddTask \/ EnableScheduler \/ SetStack \/ PopArguments \/ Sysret

(***************************************************************************)
(* What programs do.  The idle task is a jump to itself.                   *)
(***************************************************************************)
Compute ==
    /\ machine = "up" /\ InUserspace
    /\ \E v \in Values : cpu' = [cpu EXCEPT !.rax = v]
    /\ UNCHANGED <<tasks, currentTask, taskNum, isEnabled, added, rsp0,
                   argsIntact, machine>>

(* The syscall instruction: ring 0, the program's own stack, and interrupts*)
(* still on until syscall_entry's cli.                                     *)
SyscallEnter ==
    /\ machine = "up" /\ InUserspace /\ cpu.prog # IdleTask
    /\ \E call \in {"getpid", "exit"} :
         cpu' = [cpu EXCEPT !.rdi = call, !.at = "syscall_entry"]
    /\ UNCHANGED <<tasks, currentTask, taskNum, isEnabled, added, rsp0,
                   argsIntact, machine>>

InSyscall(call) ==
    machine = "up" /\ cpu.at = "syscall_entry" /\ cpu.rdi = call

Return(result) ==
    cpu' = [cpu EXCEPT !.rax = result, !.rdi = "none", !.at = "user"]

SyscallGetPidFromOne ==
    /\ InSyscall("getpid")
    /\ Return(currentTask + 1)
    /\ UNCHANGED <<tasks, currentTask, taskNum, isEnabled, added, rsp0,
                   argsIntact, machine>>

(* From cli to sysret nothing interrupts.                                  *)
SyscallGetPid ==
    /\ InSyscall("getpid")
    /\ Return(currentTask)
    /\ UNCHANGED <<tasks, currentTask, taskNum, isEnabled, added, rsp0,
                   argsIntact, machine>>

SyscallExit ==
    /\ InSyscall("exit")
    /\ tasks' = [tasks EXCEPT ![currentTask].state = STATE_HALTED]
    /\ Return(Done)
    /\ UNCHANGED <<currentTask, taskNum, isEnabled, added, rsp0, argsIntact,
                   machine>>

(***************************************************************************)
(* The timer interrupt.  From ring 3 the frame goes to the stack of the    *)
(* TSS; from ring 0 (the kernel's boot, a program in syscall_entry) it     *)
(* stays on the stack in use.  push rsp stores where the upper half is.    *)
(***************************************************************************)
Frame == IF cpu.at = "user" THEN rsp0 ELSE cpu.prog

PushedRegisters == [cpu EXCEPT !.krsp = Frame]

AllTasks == 0 .. (taskNum - 1)

Runnable == {i \in 0 .. (taskNum - 1) : tasks[i].state # STATE_HALTED}

(* currentTask++ modulo taskNum until the task there is not halted.        *)
Behind(i) == IF i > currentTask THEN i - currentTask
                                ELSE i - currentTask + taskNum

IsFirstTask(i) == i \in Runnable /\ \A j \in Runnable : i <= j

IsNextTask(i) ==
    i \in Runnable /\ \A j \in Runnable : Behind(i) <= Behind(j)

(* int kernelStack = registers->KernelRsp.                                 *)
Truncated(frame) == IF frame \in HighFrames THEN Wild ELSE frame

LoadedWithItsRsp(i) == tasks'[i].registers

LoadedRegisters(i) ==
    [tasks'[i].registers EXCEPT !.krsp = Truncated(Frame)]

(* POP_REG reloads rsp from the KernelRsp slot: what follows is the rest of*)
(* the loaded registers only if that is still the frame.                   *)
PopRegisters(registers) ==
    IF registers.krsp = Frame
    THEN /\ cpu' = [registers EXCEPT !.krsp = Wild]
         /\ machine' = machine
    ELSE /\ machine' = "faulted"
         /\ UNCHANGED cpu

InterruptsAllowed == machine = "up" /\ (BootTicks \/ cpu.prog # Kernel)

ScheduleSavesLate ==
    \E i \in Runnable :
      /\ IsNextTask(i)
      /\ currentTask' = i
      /\ tasks' = [tasks EXCEPT ![i].registers = PushedRegisters]
      /\ PopRegisters(LoadedRegisters(i))

(* Schedule: save the frame into the current task, load the next one's.   *)
Schedule ==
    /\ tasks' = [tasks EXCEPT ![currentTask].registers = PushedRegisters]
    /\ \E i \in Runnable :
         /\ IsNextTask(i)
         /\ currentTask' = i
         /\ PopRegisters(LoadedRegisters(i))

(* Without a stack for the frame: page fault, double fault, triple fault.  *)
(* With every task halted the search never ends: no step.                  *)
Tick ==
    /\ InterruptsAllowed
    /\ isEnabled
    /\ IF Frame = Unset
       THEN /\ machine' = "faulted"
            /\ UNCHANGED <<tasks, currentTask, cpu>>
       ELSE Schedule
    /\ argsIntact' = (argsIntact /\ Frame # TssStack)
    /\ UNCHANGED <<taskNum, isEnabled, added, rsp0>>

Next ==
    \/ BootStep
    \/ Compute
    \/ SyscallEnter
    \/ SyscallGetPid
    \/ SyscallExit
    \/ Tick

Spec == Init /\ [][Next]_vars

(* The boot code runs on, and the timer never stops ticking.               *)
FairSpec == Spec /\ WF_vars(BootStep) /\ WF_vars(Tick)

-----------------------------------------------------------------------------
(***************************************************************************)
(* Properties.                                                             *)
(***************************************************************************)

Registers ==
    [rax : Values \cup Pids \cup {Done},
     rdi : {"none", "getpid", "exit"},
     prog : Pids \cup {Kernel, Garbage},
     at : {"kernelMain", "setStack", "popArguments", "sysret", "user",
           "syscall_entry"},
     krsp : Pids \cup {Kernel, TssStack, Wild}]

(* Every variable has its type; in particular the scheduler's position     *)
(* stays inside tasks[], and GETPID answers with a program's slot.         *)
TypeOK ==
    /\ tasks \in [Slots -> [state : {STATE_HALTED, STATE_RUNNING},
                            registers : Registers]]
    /\ currentTask \in Slots
    /\ taskNum \in 0 .. MaxSlots
    /\ isEnabled \in BOOLEAN
    /\ added \in 0 .. NPrograms
    /\ cpu \in Registers
    /\ rsp0 \in {Unset, TssStack}
    /\ argsIntact \in BOOLEAN
    /\ machine \in {"up", "faulted"}

(* "jump in the userspace" (kernel.cpp): the switch from kernelMain to the *)
(* tasks, and every switch between tasks, pops a register file that is     *)
(* whole, from a stack that exists.                                        *)
NeverFaults == machine = "up"

(* What a program sees of its processor while others run: its registers    *)
(* are in the processor during its turn and in its task at other times.    *)
OwnRegisters(p) ==
    LET own == IF cpu.prog = p THEN cpu
               ELSE IF p < added THEN tasks[p].registers
               ELSE FirstRegisters(p)
    IN  [rax |-> own.rax, rdi |-> own.rdi]

Cpus == INSTANCE VirtualCpus WITH
    vcpu <- [p \in Pids |-> OwnRegisters(p)],
    halted <- {p \in 0 .. (added - 1) : tasks[p].state = STATE_HALTED},
    running <- cpu.prog

(* Across ticks at any instruction, the one between syscall and cli        *)
(* included, a program's registers are changed by its own steps only,      *)
(* GETPID and EXIT act on the program that called them, and the turn       *)
(* passes to the next program that has not exited.                         *)
RunsLikeOwnCpus == Cpus!Spec

(* Round robin: no program that has not exited is left out for ever.       *)
EveryTaskRuns ==
    \A p \in Pids : []<>(cpu.prog = p \/ (added = NPrograms /\
                                           tasks[p].state = STATE_HALTED))

(* A program that has exited keeps the processor until the next tick only  *)
(* (its exit() spins), and never gets it back.                             *)
ExitedLeaves ==
    \A p \in Pids : (added = NPrograms /\ tasks[p].state = STATE_HALTED)
                       ~> [](cpu.prog # p)

=============================================================================
