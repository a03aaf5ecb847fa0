--------------------------- MODULE MCChargingSession ---------------------------
(***************************************************************************)
(* Instances of ChargingSession for TLC.  With one flow the operations     *)
(* come one after the other, in every order; with two, any two of them     *)
(* overlap.                                                                *)
(***************************************************************************)
EXTENDS ChargingSession

CONSTANTS f1, f2      \* model values

OneFlow == {f1}
TwoFlows == {f1, f2}
=============================================================================
