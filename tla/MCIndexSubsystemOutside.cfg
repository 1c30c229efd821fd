SPECIFICATION Spec
CONSTANTS
  mnt = mnt
  sub = sub
  usb = usb
  a = a
  b = b
  old = old
  None = None
  Gens = {g1, g2}
  Rescans = {w1}
  Roots <- MCRoots
  RootSets <- MCRootSets
  Paths <- MCPaths
  Under <- MCUnder
  Matches <- MCMatches
  Leftovers <- MCLeftovers
  Disk <- MCDisk
  Mounted <- MCMounted
  CanFail = FALSE
INVARIANT NothingOutside
CHECK_DEADLOCK FALSE
