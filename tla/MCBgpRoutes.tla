---------------------------- MODULE MCBgpRoutes -----------------------------
(***************************************************************************)
(* Networks of BGP routers.                                                *)
(***************************************************************************)
EXTENDS BgpRoutes, TLC

CONSTANTS a, b, c, p

\* A ring of three: a alone in its AS, b and c together in theirs.
RingBoot == <<a, b, c>>
RingPlans == {a :> 1 @@ b :> 2 @@ c :> 3, a :> 1 @@ b :> 2 @@ c :> 2,
              a :> 1 @@ b :> 1 @@ c :> 1}
RingPeering == a :> {b, c} @@ b :> {a, c} @@ c :> {a, b}
=============================================================================
