SPECIFICATION Spec
CONSTANTS
    Requests = {r1, r2, r3}
    Limit = 2
    None = None
    MaxTasks = 1
    MaxRecords = 1
    MaxExpired = 0
    Forms <- QueueForms
    Stored <- BurstSwitch
    MayReject = TRUE
INVARIANTS
    NoLostWakeup
    OneAtATime
    NoTimerAfterAnswer
PROPERTIES
    ServesInOrder
SYMMETRY Symmetry
