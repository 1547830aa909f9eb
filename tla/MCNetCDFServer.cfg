SPECIFICATION FairServerSpec
CONSTANTS
  Worker = {w1, w2}
  Nobody = Nobody
  File = {f1, f2}
  NoFile = NoFile
  MaxPolls = 1
  PipeCap = 1
  WholeSize = 1
  MaxPairs = 2
  IntHalf = 2
  TimeSize = 2
  ZSize = 1
  MaxRequests = 2
  Target <- MCTarget
CHECK_DEADLOCK FALSE
INVARIANTS
  ServerTypeOK
  DataIsWhatWasAsked
  StatusIsOwn
  NoCircularWait
PROPERTIES
  UsesCache
  UsesRenderer
  ImplementsService
  HandlersGetOn
  EveryRequestAnswered
