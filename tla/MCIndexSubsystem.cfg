SPECIFICATION Spec
CONSTANTS
  mnt = mnt
  sub = sub
  usb = usb
  a = a
  b = b
  old = old
  None = None
  Gens = {g1, g2}
  Rescans = {w1}
  Roots <- MCRoots
  RootSets <- MCRootSets
  Paths <- MCPaths
  Under <- MCUnder
  Matches <- MCMatches
  Leftovers <- MCLeftovers
  Disk <- MCDisk
  Mounted <- MCMounted
  CanFail = TRUE
SYMMETRY MCSymmetry
INVARIANTS TypeOK OnlyLatestUnstopped ScanComplete
PROPERTIES OnlyStragglersAddOutside
CHECK_DEADLOCK FALSE
