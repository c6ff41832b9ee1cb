SPECIFICATION ContSpec
CONSTANTS
  Roots <- MCRoots
  Kind <- MCKind
  Parts <- MCParts
  Anchor <- MCAnchor
  Aside = {"Lt", "Lc", "Vs", "Ek", "Ec"}
  S4Data = {"V", "T"}
  Long <- MCLong
  Limit = 6
INVARIANTS
  BindingsAreAtomic
  ContIInv
PROPERTIES
  ShareIsComplete
  UnshareIsComplete
  
