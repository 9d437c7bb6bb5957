------------------------------- MODULE MCVNet -------------------------------
(***************************************************************************)
(* Instances of VNet: a pair of devices joined by parallel cables, and     *)
(* routers behind relaying switches.                                       *)
(***************************************************************************)
EXTENDS VNet, TLC

CONSTANTS r1, r2, s1, s2, None

\* The abbreviated name "Gi1" of the canvas is the CLI's "GigabitEthernet1".
MCNorm == [i \in Iface |-> IF i = "Gi2" THEN 2 ELSE 1]

PairSync == {{}, {<<r1, "Gi1", r2, "Gi2">>},
             {<<r1, "Gi1", r2, "Gi1">>, <<r1, "Gi2", r2, "Gi2">>},
             {<<r1, "Gi1", r2, "Gi1">>, <<r2, "Gi2", r1, None>>}}

\* The routers share net 1; r1's uplink tag and the VLANs of the switch ports
\* leave them compatible.  Switches carry no IP address.
RouterNets == [d \in Device |-> IF d = r1 THEN {1, 2} ELSE IF d = r2 THEN {1} ELSE {}]
SwitchVlans == [d \in Device |-> IF d \in {r1, r2} THEN {} ELSE {10}]
RouterTags == [d \in Device |-> IF d = r1 THEN {10, 20} ELSE IF d = r2 THEN {10} ELSE {}]

\* Parallel cables come by synchronisation; one of its requests names no end.
TrioSync == PairSync \cup {{<<r1, None, r2, None>>}}

FloodSync == {{}}

CrossSync == {{<<r1, "Gi1", r2, "Gi1">>, <<r1, "Gi2", r2, "Gi2">>}}

\* The two switches are configured alike.
SwitchSymmetry == Permutations({s1, s2})
=============================================================================
