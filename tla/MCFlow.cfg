SPECIFICATION Spec
CONSTANTS
  Requests = {"r1", "r2"}
  Common = "Common"
  Order <- MCOrder
  Names <- MCNames
  Versions <- MCVersions
  Ref <- MCRef
  Forms <- MCForms
  Beginnings <- MCBeginnings
  Limit = 2
  Behind <- NoSkew
  Nobody = "nobody"
  Faults = {"misread", "unread", "lost", "slow", "unstored", "untrimmed", "crash"}
  MaxFaults = 1
INVARIANTS
  StoredTellsDevice
  SuccessIsApplied
  MovesReferencesSafely
  CompleteIsComplete
  AgeCountsBack
  FreshPatchKeepsOthers
PROPERTIES
  StoresSerially
  Answered
  LockComesFree
