SPECIFICATION FairSpec
CONSTANTS
    a = a
    b = b
    c = c
    d4 = d4
    na = na
    nb = nb
    nc = nc
    nd = nd
    Router = {a, b, c}
    Network = {na, nb, nc}
    OwnerOf <- OwnersLine
    AS = {1}
    K = {1, 2}
    NoOne = NoOne
    Wiring <- CableLine
    InitialCable <- CableLine
    Commands = {"start", "stop", "weights", "passive", "shut", "cable"}
    MaxCommands = 4
INVARIANTS RoutesHaveNeighbors NeighborsExpire MetricIsDistance
PROPERTY AdjacencySettles
CHECK_DEADLOCK FALSE
