\* Two switches that fit, and three commands of any kind.
SPECIFICATION FairSpec
CONSTANTS
    n1 = n1
    n2 = n2
    A1 = A1
    A2 = A2
    mgmt = mgmt
    SameMac = FALSE
    Device = {n1, n2}
    Domain = {1, 2}
    Address = {A1, A2}
    Vrf = {mgmt}
    Rank = {1, 2}
    VpcId = {10}
    Timeout = 2
    Setup <- MCSetup
    Nobody = Nobody
    None = None
    MaxConfig = 3
INVARIANTS
    PeerLinkAgrees
PROPERTIES
    SilenceIsNoticed
    PairComesAlive
