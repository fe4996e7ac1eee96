SPECIFICATION Spec
CONSTANTS
    Turns = 2
    MaxToolRounds = 1
    Backpressure = FALSE
INVARIANTS
    FinishedTurnHasOutcome
CHECK_DEADLOCK FALSE
