SPECIFICATION Spec
CONSTANTS
    Turns = 3
    MaxToolRounds = 1
    Backpressure = FALSE
INVARIANTS
    NewestTurnKeepsOwnership
    LedgerBelongsToRunningTurn
    AnswerWasReported
    AtMostOneOutcome
    FinishedTurnIsReported
PROPERTIES
    EveryTurnIsReported
    ConversationIsReleased
CHECK_DEADLOCK FALSE
