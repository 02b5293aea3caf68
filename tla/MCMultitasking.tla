---------------------------- MODULE MCMultitasking ----------------------------
(***************************************************************************)
(* Small task tables for Multitasking.                                     *)
(***************************************************************************)
EXTENDS Multitasking

(* The stack kernelMain's tasks[] lies on was zero, or was used above the  *)
(* spots AddTask takes.                                                    *)
CleanStates ==
    {[i \in Slots |-> STATE_HALTED],
     [i \in Slots |-> IF i = MaxSlots - 1 THEN STATE_RUNNING ELSE STATE_HALTED]}
=============================================================================
