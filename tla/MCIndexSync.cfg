SPECIFICATION FairSpec
CONSTANTS
  top = top
  dir = dir
  top_file = top_file
  dir_file = dir_file
  None = None
  Top <- top
  Dirs <- MCDirs
  Files <- MCFiles
  Parent <- MCParent
  Matches <- MCMatches
  QueueCap = 2
  MaxChanges = 3
INVARIANTS TypeOK InSync
PROPERTIES EventuallySynced
CHECK_DEADLOCK FALSE
