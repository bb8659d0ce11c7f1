CONSTANTS
    Main = main
    Siblings = {s1}
    Sender = sender
    NoTask = NoTask
    Sigs = {5, 10, 13, 14}
    Customs <- MCCustoms
    FrameMasks <- MCLiveMasks
    NoOutcome = NoOutcome
    Exited = Exited
SPECIFICATION FairSpec
PROPERTIES KillEnds ExecFinishes SleepEnds
CHECK_DEADLOCK FALSE
