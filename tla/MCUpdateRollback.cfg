SPECIFICATION SupervisedSpec
CONSTANTS
    Order <- TheOrder
    Critical = {"core"}
    MaximumFailures = 2
    MaxLaunches <- TheLaunches
    MaxFailures = 2
    MaxRuns = 1
    Updated = "core"
    MaxUpdates = 1
    MaxFailed = 2
    MayChange = FALSE
    MaxLosses = 0
INVARIANTS
    SafeModeNeedsDoubleFailure
CHECK_DEADLOCK FALSE
