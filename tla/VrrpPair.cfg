\* Two routers: restarts, shutdowns, failures by hand and a late timer.
SPECIFICATION FairSpec
CONSTANTS
    a = a
    b = b
    c = c
    Device = {a, b}
    Priority = {100, 120}
    Default = 100
    LanRank <- AsString
    AnyRank <- AsString
    NumRank <- AsNumber
    NoGroup = NoGroup
    Preempts = {TRUE, FALSE}
    MaxConfig = 5
    MaxFlaps = 2
    MaxFailover = 1
    MaxEarly = 1
PROPERTY MasterSettles
CHECK_DEADLOCK FALSE
