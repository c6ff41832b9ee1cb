CONSTANTS
  Procs = {p1, p2, p3}
  Keys = {k1}
  Segs = {s1, s2, s3}
  NoSeg = NoSeg
  NoEntry = NoEntry
  NoKey = NoKey
  Sizes = {0, 2}
  MaxPtrs = 2
  Disciplined = TRUE
SYMMETRY MCSymmetry
SPECIFICATION Spec
INVARIANTS
  TypeOK
  IInv
  PointersStayMapped
  CounterCountsPointers
  ReportedSizeWithinMapping
PROPERTIES
  PointersNeverRetargeted
  MappedMemoryKeepsSize
  NamesEndWithOwner
  TableImplemented
