SPECIFICATION Spec
CONSTANTS
  r1 = r1
  r2 = r2
  low = low
  high = high
  bad = bad
  Absent = Absent
  Torn = Torn
  None = None
  Handlers = {h1, h2}
  Patches <- MCPatches
  Defaults <- MCDefaults
  OldFiles <- MCOldFiles
  RootLists <- MCRootLists
  Rests = {low, high, bad}
  ValidRests = {low, high}
  MaxFaults = 0
INVARIANT IndexFollowsSettings
