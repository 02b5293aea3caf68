----------------------------- MODULE AddressSpace -----------------------------
(***************************************************************************)
(* What the page tables promise: a partial map from virtual pages to frames*)
(* and a set of pages that userspace may use.  One step maps one page, or  *)
(* opens some pages to userspace, and disturbs no other page.              *)
(***************************************************************************)

CONSTANTS
    VirtualPages,
    Frames,
    Unmapped        \* stands for no frame

VARIABLES
    frameOf,        \* the frame of each virtual page, or Unmapped
    user            \* the pages open to userspace

Init ==
    /\ frameOf = [v \in VirtualPages |-> Unmapped]
    /\ user = {}

Map(v) ==
    /\ frameOf'[v] \in Frames \ {frameOf[v]}
    /\ frameOf' = [frameOf EXCEPT ![v] = frameOf'[v]]
    /\ UNCHANGED user

Open ==
    /\ user \subseteq user' /\ user' \subseteq VirtualPages
    /\ UNCHANGED frameOf

Next ==
    \/ Open
    \/ \E v \in VirtualPages : Map(v)

Spec == Init /\ [][Next]_<<frameOf, user>>

=============================================================================
