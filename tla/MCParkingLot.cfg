CONSTANTS
    Threads = {t1, t2}
    Values = {v1, v2}
    NoValue = NoValue
    Wakers = {w1}
    ParkCells = {pc1}
    UnparkCells = {uc1}
    SegmentSlots = 1
    MaxSegments = 3
    MaxChain = 2
SPECIFICATION Spec
INVARIANTS
    TypeOK
    RightsAreUnique
    TicketsMatchState
    NoSlotLeak
    SegmentsOwnedOnce
    CellRaceFree
    ExactlyOneOwner
PROPERTIES
    ImplementsHandoff
SYMMETRY LotSymmetry
