------------------------------ MODULE MCBigIp -------------------------------
(***************************************************************************)
(* A BIG-IP in front of two servers.                                       *)
(***************************************************************************)
EXTENDS BigIp

CONSTANTS vs1, vs2, vip1, vip2, web, m1, m2

\* One virtual server with persistence and either balancing mode.
OneVirtual ==
    {[order |-> <<vs1>>,
      virtual |-> (vs1 :> [addr |-> vip1, pool |-> web, persist |-> TRUE]) @@ (vs2 :> None),
      pool |-> web :> [members |-> <<m1, m2>>, disabled |-> {}, least |-> least]]
        : least \in BOOLEAN}

AnyThread == Permutations(Thread)
=============================================================================
