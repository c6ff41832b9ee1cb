CONSTANTS
  Procs = {p1}
  Keys = {k1}
  Segs = {s1, s2}
  NoSeg = NoSeg
  NoEntry = NoEntry
  NoKey = NoKey
  Sizes = {1}
  MaxPtrs = 2
  Disciplined = FALSE
SYMMETRY MCSymmetry
SPECIFICATION Spec
INVARIANTS
  PointersStayMapped
