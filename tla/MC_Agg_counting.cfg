CONSTANTS
  P = 2
  Word = 5
  N = 2
  CheckTestId = TRUE
  Values = {0, 1}
  MaxLaunches = 2
  MaxForeign = 1
  Backlog = 1
SPECIFICATION Spec
INVARIANTS
  TypeOK
  AggregateOfSeen
  SubmissionsNotLost
PROPERTY ImplementsTally
CHECK_DEADLOCK FALSE
