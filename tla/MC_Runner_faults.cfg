CONSTANTS
  P = 2
  Word = 5
  N = 3
SPECIFICATION Spec
INVARIANTS
  TypeOK
  AggregateCorrect
  RoundsNeverMix
  OneMessageInFlight
  SuccessNeedsAll
PROPERTY ImplementsSecureSum
