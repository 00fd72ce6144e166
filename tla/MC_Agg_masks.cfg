CONSTANTS
  P = 3
  Word = 7
  N = 3
  CheckTestId = TRUE
  Values = {1, 2}
  MaxLaunches = 1
  MaxForeign = 0
  Backlog = 1
SPECIFICATION FairSpec
INVARIANT AllCountedPasses
PROPERTY ServerEnds
CHECK_DEADLOCK FALSE
