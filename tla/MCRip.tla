------------------------------- MODULE MCRip -------------------------------
(***************************************************************************)
(* RIP routers on small topologies.                                        *)
(***************************************************************************)
EXTENDS Rip, TLC

CONSTANTS a, b, c, x, y, k

\* Two routers: x is the network between them, y is behind b.
PairNbrs == (a :> {b}) @@ (b :> {a})
PairOwn == (a :> {x}) @@ (b :> {x, y})
PairDist == (a :> (x :> 0 @@ y :> 1)) @@ (b :> (x :> 0 @@ y :> 0))

\* Two routers and the network between them only.
SharedOwn == (a :> {x}) @@ (b :> {x})
SharedDist == (a :> (x :> 0)) @@ (b :> (x :> 0))

\* Three routers in a line; x is behind a.
LineNbrs == (a :> {b}) @@ (b :> {a, c}) @@ (c :> {b})
EdgeOwn == (a :> {x}) @@ (b :> {}) @@ (c :> {})
LineDist == (a :> (x :> 0)) @@ (b :> (x :> 1)) @@ (c :> (x :> 2))

\* The same line with a network behind each of the first two.
MidOwn == (a :> {x}) @@ (b :> {y}) @@ (c :> {})
MidDist == (a :> (x :> 0 @@ y :> 1)) @@ (b :> (x :> 1 @@ y :> 0)) @@ (c :> (x :> 2 @@ y :> 1))

\* a accepts authenticated updates only and b and c send none.
EdgeKeys == (a :> k) @@ (b :> NoKey) @@ (c :> NoKey)

NoKeys == [d \in Device |-> NoKey]
=============================================================================
