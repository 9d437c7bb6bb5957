\* Two virtual servers over one pool of two servers, two connections of one client.
SPECIFICATION Spec
CONSTANTS
    vs1 = vs1
    vs2 = vs2
    vip1 = vip1
    vip2 = vip2
    web = web
    m1 = m1
    m2 = m2
    Virtual = {vs1, vs2}
    Address = {vip1, vip2}
    Pool = {web}
    Member = {m1, m2}
    Client = {alice}
    Thread = {t1, t2}
    Files <- OneVirtual
    Current = Current
    None = None
    MaxCommands = 2
    MaxFlips = 1
    MaxConns = 2
SYMMETRY AnyThread
INVARIANTS
    ListenersMatch
    ConnsCounted
PROPERTY AffinityHolds
CHECK_DEADLOCK FALSE
