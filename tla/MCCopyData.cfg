SPECIFICATION VecSpec
CONSTANTS
  Sessions = {s1}
  Vars = {v1}
  Home <- MCHome1
  Blocks = {b1}
  Elements = {0, 1}
  Indices = {1}
  Selections <- MCSelections
  Initial <- MCInitial4
  FlagSets <- MCFlagSets
  Settable = {}
  DataType = "double"
  Region = 2
  Nothing = Nothing
  s1 = s1
  s2 = s2
  v1 = v1
  v2 = v2
  v3 = v3
PROPERTIES
  ShareKeepsElements
