CONSTANTS
  Procs = {p1, p2}
  Counter = counter
  Keys = {counter}
  Segs = {s1, s2}
  NoSeg = NoSeg
  NoEntry = NoEntry
  NoKey = NoKey
  Sizes = {1}
  MaxPtrs = 1
  Disciplined = TRUE
  CounterSize = 1
  Sems = {m1, m2}
  NoSem = NoSem
  MaxValue = 0
  MaxDrops = 1
  Faults = {}
SPECIFICATION FairPkgSpec
PROPERTIES
  ManualInitSucceeds
