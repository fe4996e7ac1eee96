SPECIFICATION Spec
CONSTANTS
    Publishers = {p1, p2}
    Subscribers = {s1, s2}
    LossyTypes = {level}
    DurableTypes = {durable}
    MaxQueue = 1
    MaxEvents = 2
    Order <- TheOrder
    Critical = {"core"}
    MaximumFailures = 2
    MaxLaunches <- TheLaunches
    MaxFailures = 2
    MaxRuns = 2
    MaxGenerations = 2
    MaxRecords = 1
    MaxChunks = 3
    Capacity = 2
    MaxFrames = 2
    MaxStrikes = 2
INVARIANTS
    NobodyWaitsInVain
    SupervisionIsSound
    OneOpenRecord
    ChunksAddUp
    SpokenInOrder
    NoProcessIsLost
PROPERTIES
    DurableEventsAreBroadcast
    ShutdownCompletes
    HeardIsSettled
    BlockedProducerIsReleased
    SilentOnceStopped
    StoppedResponseEnds
CHECK_DEADLOCK FALSE
