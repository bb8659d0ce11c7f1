SPECIFICATION FairSpec
CONSTANTS
    Cpus = {c1}
    Bsp = c1
    Workers = {w1}
    NoTask = NoTask
    NoCpu = NoCpu
    LotSize = 2
    TickInBoot = FALSE
    TickInWindow = TRUE
PROPERTIES
    TerminatedRetired
    SleeperRuns
