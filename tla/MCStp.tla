-------------------------------- MODULE MCStp --------------------------------
(* Values for the constants of Stp that a configuration file cannot write. *)
EXTENDS Stp, TLC

CONSTANTS b1, b2, b3, t1, t2
MCMac == (b1 :> 1) @@ (b2 :> 2) @@ (b3 :> 3)
=============================================================================
