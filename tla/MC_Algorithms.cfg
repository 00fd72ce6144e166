CONSTANTS
  RUNNER_MAX_PARTIES = 3
  MaxEntries = 3
  P = 13
  Word = 27
SPECIFICATION Spec
INVARIANTS
  LoaderExact
  EuclidInvariant
  InverseCorrect
PROPERTY InverseFound
CHECK_DEADLOCK FALSE
