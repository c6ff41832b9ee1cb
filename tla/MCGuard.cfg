CONSTANTS
  Procs = {p1, p2, p3}
  Counter = counter
  Keys = {counter}
  Segs = {s1, s2, s3}
  NoSeg = NoSeg
  NoEntry = NoEntry
  NoKey = NoKey
  Sizes = {1}
  MaxPtrs = 1
  Disciplined = TRUE
  CounterSize = 1
  Sems = {m1, m2, m3}
  NoSem = NoSem
  MaxValue = 0
  MaxDrops = 0
  Faults = {}
SYMMETRY MCSymmetry
SPECIFICATION PkgSpec
PROPERTIES
  GuardExcludes
