CONSTANTS
  N = 3
  Sizes = {2, 3}
  MaxUpsets = 2
  StrangerIds = {0}
  Rounds = 1
SPECIFICATION MeterSpec
INVARIANTS
  MeterTypeOK
  StartupBarrier
  NoWriterLeft
  FdIdentity
  EndsAgree
  OneRun
CHECK_DEADLOCK FALSE
