SPECIFICATION Spec
CONSTANTS
    MinSpeech = 1
    TentativeSilence = 0
    NormalSilence = 1
    UncertainSilence = 2
    MaxEndpointWait = 2
    RecoveryWait = 1
    MaxTime = 3
    MaxTurns = 3
    MaxGenerations = 2
    None = None
INVARIANTS
    ClockAnchors
    ResponseMatchesState
    EachEndsOnce
    IdentitiesAreSeparate
CHECK_DEADLOCK FALSE
