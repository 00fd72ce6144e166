CONSTANTS
  P = 1
  Word = 3
  N = 2
SPECIFICATION Spec
PROPERTY TimeoutExitCode
