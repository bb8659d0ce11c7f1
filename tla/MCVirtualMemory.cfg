CONSTANTS
    MemStart = 2
    MemSize = 6
    Sizes = {0, 1, 2, 3}
    Fixed <- MCFixed
    Idle = Idle
SPECIFICATION FairSpec
INVARIANTS TypeOK Disjoint FirstFit RefusedOnlyWhenFull
PROPERTIES ReserveReturns
