SPECIFICATION VecSpec
CONSTANTS
  Sessions = {s1, s2}
  Vars = {v1, v2, v3}
  Home <- MCHome
  s1 = s1
  s2 = s2
  v1 = v1
  v2 = v2
  v3 = v3
  Blocks = {b1, b2}
  Elements = {0, 1}
  Indices = {1}
  Selections <- MCSelections
  Initial <- MCInitial
  FlagSets <- MCFlagSets
  Settable = {"copy"}
  DataType = "integer"
  Region = 1
  Nothing = Nothing
INVARIANTS
  VecTypeOK
  PointersLeadToMemory
  CowDecidedByBlock

  
SYMMETRY MCSymmetry
