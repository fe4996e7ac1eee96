SPECIFICATION Spec
CONSTANTS
    MaxRequests = 3
    MaxTurns = 1
    MaxRetries = 1
    MaxUpdates = 2
    MaxFailed = 1
    MaxLosses = 2
    MayChange = TRUE
    Jobs = {"j1", "j2", "j3"}
    Contents = {"tea", "rum"}
    MaxProposed = 1
    MaxRecords = 2
    MaxIds = 3
    MaxTroubles = 1
    Callers = {"c1", "c2"}
    MaxAnswers = 2
    Streams = {"s1", "s2"}
    Languages = {"en", "ca"}
    Preferred = {"en"}
    MaxFrames = 1
    Models = {"m1", "m2"}
    Replaces = FALSE
    MaxRefreshes = 2
    MaxRestarts = 1
    MaxOutside = 2
    Careful = {"c1", "c2"}
    Replacing = {"r"}
    Trees <- TheTrees
    Limits <- TheLimits
    MaxDepth = 2
    Turns = {1, 2, 3}
    Sizes <- TheSizes
    MaximumMessages = 4
    RecentLimit = 3
    Room = 4
    Values = {"v"}
INVARIANTS
    UpdateIsRecoverable
    MemoryIsSound
    ResourcesAreOwned
    AnswersAreTrue
    SearchIsComplete
PROPERTIES
    LateResultsAdoptNoRoute
    InterruptionIsHeardOut
CHECK_DEADLOCK FALSE
