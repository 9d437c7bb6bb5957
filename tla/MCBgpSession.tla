---------------------------- MODULE MCBgpSession ----------------------------
(***************************************************************************)
(* Two routers and their session, as model values.                         *)
(***************************************************************************)
EXTENDS BgpSession, TLC

CONSTANTS t1, t2

\* The identities of opening coroutines are interchangeable.
TaskSymmetry == Permutations(Task)
=============================================================================
