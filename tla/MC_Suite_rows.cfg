CONSTANTS
  N = 1
  TRIALS = 1
  STOP_ON_FAIL = FALSE
  PI2_MIN = 0
  PI2_MAX = 1
  PI2_FIXED = {}
SPECIFICATION Spec
PROPERTY RowPerTrial
CHECK_DEADLOCK FALSE
