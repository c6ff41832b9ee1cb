CONSTANTS
  Procs = {p1, p2}
  Keys = {k1}
  Segs = {s1, s2}
  NoSeg = NoSeg
  NoEntry = NoEntry
  NoKey = NoKey
  Sizes = {1}
  MaxPtrs = 1
  Disciplined = TRUE
SYMMETRY MCSymmetry
SPECIFICATION Spec
PROPERTIES
  NoExceptionForUsedId
