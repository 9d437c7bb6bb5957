------------------------------ MODULE MCEigrp ------------------------------
(***************************************************************************)
(* Small networks for Eigrp: two routers, three in a line, and a ring with *)
(* a fourth router attached to it.                                         *)
(***************************************************************************)
EXTENDS Eigrp, TLC

CONSTANTS a, b, c, d4, na, nb, nc, nd

OwnersPair == (na :> a) @@ (nb :> b)
OwnersLine == (na :> a) @@ (nb :> b) @@ (nc :> c)
OwnersRing == OwnersLine @@ (nd :> d4)
CablePair == {{a, b}}
CableLine == {{a, b}, {b, c}}
CableRing == {{a, c}, {b, c}, {b, d4}}
WiringRing == {{a, c}, {c, d4}} \cup CableRing

\* Only the last of the three has a ring.
ASSUME RingOrNot == NoRing <=> Wiring # WiringRing
=============================================================================
