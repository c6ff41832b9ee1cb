SPECIFICATION StrSpec
CONSTANTS
  Sessions = {s1, s2}
  Vars = {v1, v2, v3}
  Home <- MCHome
  Blocks = {b1}
  Strings = {a, b}
  Indices = {2}
  Selections <- MCSelections
  Texts <- MCTexts
  Initial <- MCInitial
  Cow = {s2}
  Byte = 2
  Careful = TRUE
  Nothing = Nothing
  s1 = s1
  s2 = s2
  v1 = v1
  v2 = v2
  v3 = v3
  a = a
  b = b
INVARIANTS
  StrTypeOK
  StrIInv
  EncodingIsLossless
  CacheAgreesWithIndex
PROPERTIES
  StringsAsPromised
SYMMETRY MCSymmetry
