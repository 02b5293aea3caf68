----------------------------- MODULE VirtualCpus -----------------------------
(***************************************************************************)
(* What multitasking promises to programs: each runs on a processor of its *)
(* own that only its own steps change, system calls act on their caller,   *)
(* and the turns go round among the programs that have not exited.         *)
(***************************************************************************)
EXTENDS Integers

CONSTANTS
    NPrograms,  \* how many programs there are
    Values      \* what a program may compute in its register

VARIABLES
    vcpu,       \* per program, the registers of its processor
    halted,     \* the programs that have exited
    running     \* the program whose turn it is, or Nobody

avars == <<vcpu, halted, running>>

Pids == 0 .. (NPrograms - 1)
Nobody == -1

(* What system calls without a result return.                              *)
Done == 512

Registers == [rax : Values \cup Pids \cup {Done}, rdi : {"none", "getpid", "exit"}]

Init ==
    /\ vcpu = [p \in Pids |-> [rax |-> 0, rdi |-> "none"]]
    /\ halted = {}
    /\ running = Nobody

(* The first program starts, with anything in its registers.               *)
Start ==
    /\ running = Nobody
    /\ running' = 0
    /\ \E v \in Values : vcpu' = [vcpu EXCEPT ![0].rax = v]
    /\ UNCHANGED halted

Compute ==
    /\ running \in Pids
    /\ vcpu[running].rdi = "none"
    /\ \E v \in Values : vcpu' = [vcpu EXCEPT ![running].rax = v]
    /\ UNCHANGED <<halted, running>>

(* A call is made in one step and answered in another.                     *)
Call ==
    /\ running \in Pids
    /\ vcpu[running].rdi = "none"
    /\ \E c \in {"getpid", "exit"} : vcpu' = [vcpu EXCEPT ![running].rdi = c]
    /\ UNCHANGED <<halted, running>>

GetPid ==
    /\ running \in Pids
    /\ vcpu[running].rdi = "getpid"
    /\ vcpu' = [vcpu EXCEPT ![running] = [rax |-> running, rdi |-> "none"]]
    /\ UNCHANGED <<halted, running>>

Exit ==
    /\ running \in Pids
    /\ vcpu[running].rdi = "exit"
    /\ vcpu' = [vcpu EXCEPT ![running] = [rax |-> Done, rdi |-> "none"]]
    /\ halted' = halted \cup {running}
    /\ UNCHANGED running

(* How far q is behind p in the round, p itself coming last.               *)
Behind(p, q) == IF q > p THEN q - p ELSE q - p + NPrograms

(* The turn passes to the next program that has not exited.                *)
Switch ==
    /\ running \in Pids
    /\ running' \in Pids \ halted
    /\ \A q \in Pids \ halted : Behind(running, running') <= Behind(running, q)
    /\ UNCHANGED <<vcpu, halted>>

Next == Start \/ Compute \/ Call \/ GetPid \/ Exit \/ Switch

Spec == Init /\ [][Next]_avars

=============================================================================
