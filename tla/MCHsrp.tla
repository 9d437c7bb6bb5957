------------------------------- MODULE MCHsrp -------------------------------
(***************************************************************************)
(* Two routers on a LAN, each with an uplink.                              *)
(***************************************************************************)
EXTENDS Hsrp, TLC

CONSTANTS a, b
=============================================================================
