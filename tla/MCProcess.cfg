CONSTANTS
    Main = main
    Siblings = {s1, s2}
    Sender = sender
    NoTask = NoTask
    Sigs = {5, 10, 13, 14}
    Customs <- MCCustoms
    FrameMasks <- MCFrameMasks
    NoOutcome = NoOutcome
    Exited = Exited
SPECIFICATION Spec
INVARIANTS TypeOK SoleAtTeardown StopParkedWhileStopped InterruptNotLost ImageToReturnTo
SYMMETRY SiblingSymmetry
CHECK_DEADLOCK FALSE
