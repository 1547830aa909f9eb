SPECIFICATION FairSpec
CONSTANTS
  Workers = 3
  Conn = {a, b, c, d}
  MaxErrors = 1
CHECK_DEADLOCK FALSE
INVARIANTS
  TypeOK
  GivenToReady
  StopReachesAll
PROPERTIES
  TakesTurns
  StopGetsOn
  EveryStartRuns
  StopEnds
