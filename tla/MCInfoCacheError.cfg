SPECIFICATION InfoSpec
CONSTANTS
  Worker = {w1, w2}
  Nobody = Nobody
INVARIANT
  CacheHoldsInfo
