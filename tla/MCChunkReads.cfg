SPECIFICATION Spec
CONSTANTS
  s = s
  t = t
  NoParent = NoParent
  NoPage = NoPage
  Versions <- MCVersions
  Reads <- MCReads
  ScrollLimit = 2
  WindowLimit = 3
  parentMaxChunks = 2
  MaxReindex = 2
INVARIANTS TypeOK StayingAreRead FilePage WholeSection WindowShowsNeighbours TurnsMakeTheDocument
