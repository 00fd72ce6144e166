CONSTANTS
  N = 3
  MaxRuns = 2
  MaxFails = 1
SPECIFICATION Spec
INVARIANTS
  TypeOK
  WrongOnlyIfIgnored
PROPERTIES
  AggregatePrinted
CHECK_DEADLOCK FALSE
