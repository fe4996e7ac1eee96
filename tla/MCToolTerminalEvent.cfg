SPECIFICATION MCSpec
CONSTANTS
    Callers = {1, 2, 3, 4}
    Invocations = {1, 2, 3}
    Generations = {1, 2, 3}
    CallIds = {1}
    InvocationOf <- InvocationOfCaller
    GenerationOf <- EachItsOwn
    CallIdOf <- OneCallId
    Policies = {{1}, {1, 2, 3}}
    Cancellable = {1, 2, 3}
    OwnerActions = {3}
    MaxHistory = 1
    MaxEpoch = 2
    None = None
INVARIANTS
    OneTerminalToolEvent
CHECK_DEADLOCK FALSE
