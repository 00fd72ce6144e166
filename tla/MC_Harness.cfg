CONSTANTS
  N = 2
  TRIALS = 2
  STOP_ON_FAIL = FALSE
  PI2_MIN = 1
  PI2_MAX = 2
  PI2_FIXED = {0, 3}
  Nodes = 3
  Cases = 2
SPECIFICATION HarnessSpec
INVARIANTS
  TypeOK
  PassRowComplete
  LeftoversExplained
  PassRowOfCase
  CasesApart
PROPERTY SuiteEnds
CHECK_DEADLOCK FALSE
