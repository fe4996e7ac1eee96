CONSTANTS
    Publishers = {"c1", "c2", a1, a2, "refresh"}
    Subscribers = {"c1", "c2"}
    Slots = {a1, a2}
    LossyTypes = {"level"}
    DurableTypes = {"acknowledged", "state", "discovery", "cancelled"}
    MaxQueue = 1
    MaxEvents = 0
    MaxHistory = 1
    Budget = 4
    Commands <- ClientCommands
SPECIFICATION MCSpec
INVARIANTS
    NothingOutlivesConnection
    RequestsRunApart
PROPERTIES
    CommandIsAnswered
CHECK_DEADLOCK FALSE
