SPECIFICATION Spec
CONSTANTS
  Options <- MCOptions
  JobWait <- MCJobWait
  Retries = 3
  MaxDetours = 2
INVARIANTS
  DoneMeansCompleted
  OnlyOneStarted
  TokensStayWithHost
  PollsAreBounded
PROPERTIES
  TaskEnds
