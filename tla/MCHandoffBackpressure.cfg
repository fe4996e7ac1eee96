SPECIFICATION Spec
CONSTANTS
    Turns = 2
    MaxToolRounds = 1
    Backpressure = TRUE
INVARIANTS
    AtMostOneOutcome
CHECK_DEADLOCK FALSE
