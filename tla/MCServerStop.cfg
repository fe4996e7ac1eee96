SPECIFICATION LocalSpec
CONSTANTS
    Models = {"m1"}
    Replaces = FALSE
    MaxRefreshes = 1
    MaxRestarts = 1
    MaxOutside = 2
PROPERTIES
    OnlySamsServerIsStopped
CHECK_DEADLOCK FALSE
