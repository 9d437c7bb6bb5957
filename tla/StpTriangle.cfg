\* A triangle of running bridges: two cable events, or one and a command of any kind.
SPECIFICATION FairSpec
CONSTANTS
    b1 = b1
    b2 = b2
    b3 = b3
    t1 = t1
    t2 = t2
    Device = {b1, b2, b3}
    Mac <- MCMac
    Priority = {1, 2}
    Default = 2
    Running = {b1, b2, b3}
    Rstp = {b1, b3}
    Option = {"portfast","bpduguard","rootguard"}
    Task = {t1, t2}
    Nobody = Nobody
    NoTask = NoTask
    MaxConfig = 1
    MaxFlaps = 2
    MaxTotal = 2
CHECK_DEADLOCK FALSE
PROPERTIES Converges
