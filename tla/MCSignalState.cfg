CONSTANTS
    Sigs = {5, 10, 13, 14, 16}
    Customs <- MCCustoms
    NoOutcome = NoOutcome
    Exited = Exited
SPECIFICATION FairSpec
INVARIANTS TypeOK Uncatchable StopContinueExclusive StoppedAwaitsResume
PROPERTIES KillTerminates
CHECK_DEADLOCK FALSE
