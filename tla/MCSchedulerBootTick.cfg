SPECIFICATION Spec
CONSTANTS
    Cpus = {c1, c2}
    Bsp = c1
    Workers = {}
    NoTask = NoTask
    NoCpu = NoCpu
    LotSize = 1
    TickInBoot = TRUE
    TickInWindow = FALSE
INVARIANTS
    MustSwitchFindsTarget
