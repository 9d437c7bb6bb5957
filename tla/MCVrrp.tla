------------------------------- MODULE MCVrrp -------------------------------
(***************************************************************************)
(* Routers on a LAN: a is 10.0.0.9, b is 10.0.0.10, c is 10.0.0.11, and a  *)
(* has no other address larger than its own.                               *)
(***************************************************************************)
EXTENDS Vrrp, TLC

CONSTANTS a, b, c

\* As strings "10.0.0.10" < "10.0.0.11" < "10.0.0.9".
AsString == (a :> 3) @@ (b :> 1) @@ (c :> 2)
AsNumber == (a :> 1) @@ (b :> 2) @@ (c :> 3)
=============================================================================
