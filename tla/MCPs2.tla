------------------------------- MODULE MCPs2 -------------------------------
(* A letter and a digit; movements to either side, beyond the edges of a   *)
(* small display, with an overflow, and with a button down.                *)
EXTENDS Ps2, TLC

MCReports == {<<8, 3, 2>>, <<24, 254, 0>>, <<41, 2, 255>>, <<200, 1, 1>>}
MCScanCodeSet1 == 3 :> "2" @@ 30 :> "a"
MCScanCodeUpperSet1 == 3 :> "@" @@ 30 :> "A"
MCScanCodeCapsSet1 == 3 :> "2" @@ 30 :> "A"
=============================================================================
