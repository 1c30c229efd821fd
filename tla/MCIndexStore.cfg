SPECIFICATION Spec
CONSTANTS
  a_b = a_b
  axb = axb
  f = f
  Writers = {w1, w2}
  Names <- MCNames
  Like <- MCLike
  Paths <- MCPaths
  RootSets <- MCRootSets
  MaxFaults = 1
SYMMETRY MCSymmetry
INVARIANTS TypeOK LastWriterRepairs DuplicatesBounded
