---------------------------- MODULE FrameOwnership ----------------------------
(***************************************************************************)
(* What a page-frame allocator promises: a request hands out a run of      *)
(* frames nobody holds, and only its return makes them free again.         *)
(***************************************************************************)
EXTENDS Integers

CONSTANTS
    Frames,     \* the page numbers
    Grantable,  \* those that may ever be handed out
    Lengths     \* the lengths of the runs

VARIABLE holders    \* per frame, the number of grants not yet returned

OwnedRun(s, n) == s .. (s + n - 1)

Init == holders = [p \in Frames |-> 0]

(* A run is handed out: all of it was free and may be handed out.          *)
Take(s, n) ==
    /\ OwnedRun(s, n) \subseteq Grantable
    /\ \A p \in OwnedRun(s, n) : holders[p] = 0
    /\ holders' = [p \in Frames |-> IF p \in OwnedRun(s, n) THEN 1
                                                            ELSE holders[p]]

(* A run is returned: all of it was held.                                  *)
GiveBack(s, n) ==
    /\ OwnedRun(s, n) \subseteq Frames
    /\ \A p \in OwnedRun(s, n) : holders[p] = 1
    /\ holders' = [p \in Frames |-> IF p \in OwnedRun(s, n) THEN 0
                                                            ELSE holders[p]]

Next == \E s \in Frames, n \in Lengths : Take(s, n) \/ GiveBack(s, n)

Spec == Init /\ [][Next]_holders

=============================================================================
