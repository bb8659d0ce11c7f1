CONSTANTS
    Sigs = {5, 10, 13, 14}
    Customs <- MCCustoms
    NoOutcome = NoOutcome
    Exited = Exited
SPECIFICATION Spec
INVARIANTS OutcomeIsAnEnd
CHECK_DEADLOCK FALSE
