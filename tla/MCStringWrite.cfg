SPECIFICATION StrSpec
CONSTANTS
  Sessions = {s1}
  Vars = {v1, v2}
  Home <- MCHome1
  Blocks = {b1}
  Strings = {a, b}
  Indices = {2}
  Selections <- MCSelections
  Texts <- MCNoTexts
  Initial <- MCInitial
  Cow = {}
  Byte = 2
  Careful = FALSE
  Nothing = Nothing
  s1 = s1
  s2 = s2
  v1 = v1
  v2 = v2
  v3 = v3
  a = a
  b = b
PROPERTIES
  AssignedElementIsRead
