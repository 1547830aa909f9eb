SPECIFICATION CheckSpec
CONSTANTS
  MaxPairs = 3
  IntHalf = 2
  TimeSize = 2
  ZSize = 1
  Target <- MCTarget
INVARIANTS
  CheckTypeOK
  AcceptedIsWhatWasAsked
  AcceptsExactlyWellFormed
