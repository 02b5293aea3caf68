----------------------------- MODULE MCTerminals -----------------------------
(***************************************************************************)
(* Two terminals of ten characters.  One program writes colours as minit   *)
(* does, in a length that does not divide the buffer's; the other, plain   *)
(* lines.                                                                  *)
(***************************************************************************)
EXTENDS Terminals

ColouredAndPlain ==
    [t \in Terminals |->
       IF t = 0 THEN <<"ESC", "[", "1", ";", "3", "1", "m", "a", "newline">>
                ELSE <<"b", "m", "newline", "b", "newline">>]

ASSUME MCColoured == Coloured

=============================================================================
