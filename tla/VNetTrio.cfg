\* Two routers and a relaying switch: a cable of each pair, parallel cables by synchronisation.
SPECIFICATION Spec
CONSTANTS
    r1 = r1
    r2 = r2
    s1 = s1
    s2 = s2
    Device = {r1, r2, s1}
    Iface = {"Gi1", "GigabitEthernet1", "Gi2"}
    None = None
    NoIface = None
    LinkName = {"Gi1"}
    CliName = {"GigabitEthernet1", "Gi2"}
    Runs = {r1, r2}
    MaxCables = 2
    Norm <- MCNorm
    Nets <- RouterNets
    PortVlans <- SwitchVlans
    TagVlans <- RouterTags
    SyncRequests <- TrioSync
INVARIANTS
    TypeOK
    LiveNeighborsAgree
    LiveCableKeepsEdgeUp
    DeliverySymmetric
