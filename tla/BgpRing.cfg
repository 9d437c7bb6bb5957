\* Three routers in a ring, in three ASes, two or one.
SPECIFICATION BgpSpec
CONSTANTS
    a = a
    b = b
    c = c
    p = p
    Router = {a, b, c}
    Prefix = {p}
    Plans <- RingPlans
    Boot <- RingBoot
    Peering <- RingPeering
    MaxRounds = 40
    MaxChanges = 4
INVARIANTS
    RibsAreAdvertised
    NoForwardingLoop
    ShortestPaths
    PathsUnlooped
CHECK_DEADLOCK FALSE
