\* A line of three routers, one fault of any kind, fair coroutines.
SPECIFICATION FairSpec
CONSTANTS
    a = a
    b = b
    c = c
    x = x
    y = y
    k = k
    Device = {a, b, c}
    Net = {x}
    Nbrs <- LineNbrs
    Own <- EdgeOwn
    Dist <- LineDist
    AuthKey <- EdgeKeys
    NoKey = NoKey
    NoTask = NoTask
    Nobody = Nobody
    Infinity = 4
    MaxEarly = 1
    MaxStarts = 1
    MaxFailures = 1
    MaxCablings = 1
    MaxFaults = 1
INVARIANTS
    UpdatesArePeriodic
    LearnedRoutesExpire
    NoTwoRouterLoop
CHECK_DEADLOCK FALSE
PROPERTY Converges
