SPECIFICATION FairSpec
CONSTANTS
    Requests = {r1, r2}
    Limit = 1
    None = None
    MaxTasks = 1
    MaxRecords = 1
    MaxExpired = 1
    Forms <- LiveForms
    Stored <- AllSettings
    MayReject = TRUE
PROPERTIES
    EveryoneAnswered
    ServesEverybody
