SPECIFICATION Spec
CONSTANTS
    Requests = {r1, r2}
    Limit = 1
    None = None
    MaxTasks = 2
    MaxRecords = 1
    MaxExpired = 2
    Forms <- MixedForms
    Stored <- AllSettings
    MayReject = TRUE
INVARIANTS
    PollableWhileLive
    RecordsTellOutcome
    DoneAnsweredOnce
SYMMETRY Symmetry
