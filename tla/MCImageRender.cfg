SPECIFICATION WorkerFairSpec
CONSTANTS
  Worker = {w1, w2}
  Nobody = Nobody
  Slice = {s1, s2, s0}
  EmptySlices = {s0}
  File = {f1, f2}
  NoFile = NoFile
  MaxPolls = 1
  PipeCap = 1
  WholeSize = 1
INVARIANTS
  ImageInv
  OwnImage
  NoStrayFile
  NoEmptyImage
PROPERTIES
  WaitEnds
  MutexReleased
