\* Two routers and one access server; commands, cables, devices and a restart.
SPECIFICATION AccSpec
CONSTANTS
    r1 = r1
    r2 = r2
    r3 = r3
    b1 = b1
    b2 = b2
    Rtx = {r1, r3}
    Session = {r1, r3}
    Owner <- OneEach
    Kind <- Kinds
    Bas = {b1}
    Net <- Nets
    Pools <- SmallPools
    Accepts <- Everyone
    NoAddr = NoAddr
    NoSession = NoSession
    Free = Free
    Lost = Lost
    Slots = 2
    NoSlot = NoSlot
    MaxCommands = 6
    MaxCables = 3
    MaxRestarts = 1
INVARIANTS AccTypeOK TablesAgree AddressesExclusive OnlyReloadParts
PROPERTY KeepsTheBook
CHECK_DEADLOCK FALSE
