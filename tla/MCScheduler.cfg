SPECIFICATION BootedSpec
CONSTANTS
    Cpus = {c1, c2}
    Bsp = c1
    Workers = {w1, w2}
    NoTask = NoTask
    NoCpu = NoCpu
    LotSize = 3
    TickInBoot = FALSE
    TickInWindow = FALSE
INVARIANTS
    TypeOK
    OnePlace
    StackExclusive
    WakeSourceLive
SYMMETRY WorkerSymmetry
