\* Two routers: configuration, tracking, shutdowns, a failover.
SPECIFICATION FairSpec
CONSTANTS
    a = a
    b = b
    Device = {a, b}
    Iface = {"lan", "wan"}
    Lan = "lan"
    Priority = {100, 110}
    Default = 100
    Decrement = {120}
    NoGroup = NoGroup
    MaxConfig = 4
    MaxFlaps = 1
    MaxFailover = 1
    MaxEarly = 1
INVARIANT PenaltyEnds
PROPERTY ActiveSettles
CHECK_DEADLOCK FALSE
