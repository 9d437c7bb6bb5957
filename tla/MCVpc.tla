-------------------------------- MODULE MCVpc --------------------------------
(* Values for the constants of Vpc that a configuration file cannot write. *)
EXTENDS Vpc, TLC

CONSTANTS n1, n2, A1, A2, mgmt, SameMac

\* Two switches of one domain whose keepalives fit, one with a member port; with SameMac their addresses tie.
MCSetup ==
    (n1 :> [dom |-> 1, src |-> A1, dest |-> A2, vrf |-> mgmt, mac |-> 1,
            peerlink |-> TRUE, ports |-> {10}]) @@
    (n2 :> [dom |-> 1, src |-> A2, dest |-> A1, vrf |-> mgmt, mac |-> IF SameMac THEN 1 ELSE 2,
            peerlink |-> TRUE, ports |-> {}])
=============================================================================
