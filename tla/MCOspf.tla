------------------------------- MODULE MCOspf -------------------------------
(***************************************************************************)
(* Two OSPF routers on one cable, and three with a cable between any two.  *)
(***************************************************************************)
EXTENDS Ospf, TLC

CONSTANTS a, b, c

Ids == (a :> 1) @@ (b :> 2) @@ (c :> 3)
PairIds == (a :> 1) @@ (b :> 2)
PairWiring == {{a, b}}
LineWiring == {{a, b}, {b, c}}
MeshWiring == {{a, b}, {b, c}, {a, c}}
=============================================================================
