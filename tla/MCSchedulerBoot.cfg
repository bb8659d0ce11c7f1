SPECIFICATION Spec
CONSTANTS
    Cpus = {c1, c2}
    Bsp = c1
    Workers = {w1}
    NoTask = NoTask
    NoCpu = NoCpu
    LotSize = 1
    TickInBoot = FALSE
    TickInWindow = FALSE
INVARIANTS
    IdleStaysHome
    MustSwitchFindsTarget
