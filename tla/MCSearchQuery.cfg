SPECIFICATION FairSpec
CONSTANTS
  md = md
  jpg = jpg
  text = text
  q1 = q1
  q2 = q2
  r1 = r1
  r2 = r2
  p1 = p1
  p2 = p2
  p3 = p3
  p4 = p4
  p5 = p5
  None = None
  Searches = {s1, s2}
  Bodies <- MCBodies
  Queries = {q1, q2}
  Mimes = {md, jpg}
  Late = {md}
  MimePrefixes = {text}
  Covers <- MCCovers
  Points <- MCPoints
  MimeOf <- MCMimeOf
  RootOf <- MCRootOf
  DenseRank <- MCDense
  SparseRank <- MCSparse
  Limit = 1
  Size = 1
  TTL = 0
  MimeTTL = 1
  MaxTime = 1
INVARIANTS TypeOK ColdCacheLoadsOnce NothingStale FailureIsRecent
PROPERTIES CandidatesAreThoseAsked FilterCostsNothing EveryoneReturns
