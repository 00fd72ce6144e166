CONSTANTS
  P = 1
  Word = 3
  N = 2
  CheckTestId = TRUE
  Values = {0}
  MaxLaunches = 1
  MaxForeign = 0
  Backlog = 2
SPECIFICATION FairServerSpec
PROPERTY ServerEnds
CHECK_DEADLOCK FALSE
