SPECIFICATION Spec
CONSTANTS
  Tasks = {1, 2}
  MaxRecords = 1
  Patience = 3
  MaxRestarts = 2
  MaxSaves = 3
  MayFail = TRUE
INVARIANTS
  PendingIsOurs
  KnownTasksAreKept
  SettledAloneIsStored
PROPERTIES
  StartEnds
CHECK_DEADLOCK FALSE
