------------------------------ MODULE MCAccess ------------------------------
(***************************************************************************)
(* Two routers (and a FortiGate) on one or two access servers.             *)
(***************************************************************************)
EXTENDS Access, TLC

CONSTANTS r1, r2, r3, b1, b2

\* r1 and r2 are Yamahas with one pp each, r3 is a FortiGate.
OneEach == [r \in Rtx |-> r]
Kinds == [r \in Rtx |-> IF r = r3 THEN "fortigate" ELSE "yamaha"]
Nets == [b \in Bas |-> IF b = b1 THEN {1, 2} ELSE {11, 12}]
SmallPools == {{1, 2}, {2}}
Everyone == Session \X Bas
=============================================================================
