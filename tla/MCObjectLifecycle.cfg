CONSTANTS
  Procs = {p1, p2}
  MaxId = 2
  Keys <- MCKeys
  Segs = {s1, s2, s3}
  NoSeg = NoSeg
  NoEntry = NoEntry
  NoKey = NoKey
  Sizes = {1}
  MaxPtrs = 2
  Disciplined = TRUE
SYMMETRY MCSymmetry
SPECIFICATION ObjSpec
INVARIANTS
  ObjTypeOK
  ObjectsReadTheirData
  EveryPointerHasAFinalizer
  FreshIdIsUnknown
  PrivateUntilBorn
  OneOwner
  PublishedWhileOwned
  NoLeakedName
  ObjIInv
PROPERTIES
  BlocksAsPromised
