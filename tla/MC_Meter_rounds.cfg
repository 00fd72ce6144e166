CONSTANTS
  N = 3
  Sizes = {3}
  MaxUpsets = 6
  StrangerIds = {}
  Rounds = 3
SPECIFICATION RoundsSpec
INVARIANT RoundsAligned
PROPERTIES
  AllRounds
  ImplementsRunner
CHECK_DEADLOCK FALSE
