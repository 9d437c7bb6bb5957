\* Two routers, passwords that may disagree, GR and LLGR, one shutdown per end.
SPECIFICATION FairSpec
CONSTANTS
    t1 = t1
    t2 = t2
    Device = {ra, rb}
    Password = {NoPassword, pw}
    NoPassword = NoPassword
    Task = {t1, t2}
    NoTask = NoTask
    MaxDown = 1
    MaxConfig = 3
    UseLlgr = TRUE
INVARIANTS
    TypeOK
    NoHalfOpenSession
    StaleIsTransient
    FreshIsBacked
CHECK_DEADLOCK FALSE
PROPERTIES
    StaleEventuallyLeaves
    ConfiguredPeersEstablish
