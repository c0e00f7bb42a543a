SPECIFICATION FairSpec
CONSTANTS
    Fetches = {f1, f2, f3}
    MaxConns = 2
    NumFDs = 2
    ReuseInHandler = FALSE
    None = None
CHECK_DEADLOCK FALSE
INVARIANTS
    TransfersAreSound
PROPERTIES
    OutcomeIsFinal
    EventuallyOver
