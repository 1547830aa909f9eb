SPECIFICATION ImageSpec
CONSTANTS
  Worker = {w1, w2}
  Nobody = Nobody
  Slice = {s1}
  EmptySlices = {}
  File = {f1, f2}
  NoFile = NoFile
  MaxPolls = 1
  PipeCap = 1
  WholeSize = 2
INVARIANT
  CompleteImage
