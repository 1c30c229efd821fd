SPECIFICATION FairSpec
CONSTANTS
  a1 = a1
  a2 = a2
  a3 = a3
  a4 = a4
  p1 = p1
  p2 = p2
  doc_a = doc_a
  photo_1 = photo_1
  photo_2 = photo_2
  sec = sec
  None = None
  Chunks = {a1, a2, a3, a4, p1, p2}
  FileOf <- MCFileOf
  SectionOf <- MCSectionOf
  ChunkNo <- MCChunkNo
  Length <- MCLength
  PhotoIDs = {photo_1, photo_2}
  VectorScores <- MCVectorScores
  CrossScores = {1, 20}
  Requests <- MCRequests
  DefaultTopK = 3
  MaxTopK = 3
  RerankerCandidates = 2
  RerankerDisabled = FALSE
  ParentMergeDisabled = FALSE
  ParentMergeMaxChars = 5
  DefaultMaxChunks = 2
  MaxMaxChunks = 2
  MaxGroupWant = 4
  PhotoLookupConcurrency = 1
INVARIANTS TypeOK BestSectionsFirst BestFilesFirst SectionsReadInOrder LookupsIndependent
PROPERTIES Answered
CHECK_DEADLOCK FALSE
