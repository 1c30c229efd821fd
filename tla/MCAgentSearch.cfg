SPECIFICATION Spec
CONSTANTS
  docs = docs
  None = None
  Fallback = fallback
  Requests = {a, b}
  Bodies <- MCBodies
  Roots = {docs}
  Ports = {p1, p2}
  CacheTTL = 2
  Configured = {"semantic", "filenames", "images", "notes"}
  GroupSizes = {2}
  Orders <- MCOrders
  Totals = {3, 5}
  MaxGrants = 1
  MaxRestarts = 1
  MaxFaults = 1
INVARIANTS TypeOK RevocationTakesEffect NeverStranded EverySourceIsHeard
SYMMETRY MCSymmetry
