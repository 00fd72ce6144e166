CONSTANTS
  P = 1
  Word = 3
  N = 4
  Latency = 1
  Skew = 2
  RecvTimeout = 8
SPECIFICATION TimedSpec
INVARIANT NoFalseTimeout
PROPERTIES
  AllSucceed
  AllTerminate
