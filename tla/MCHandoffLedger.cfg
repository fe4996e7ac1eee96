SPECIFICATION Spec
CONSTANTS
    Turns = 2
    MaxToolRounds = 1
    Backpressure = FALSE
INVARIANTS
    SuccessorFindsLedgerFree
CHECK_DEADLOCK FALSE
