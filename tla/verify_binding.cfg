SPECIFICATION VSpec
CONSTANTS
  Calls = {c1, c2}
  PRs = {p1}
  Workspaces = {w1, w2}
  Pairs = {h1}
  Moved = {}
  BaseOf <- Bases
  None = None
  MaxFaults = 0
  Resends = FALSE
  Misses = FALSE
  Verifications = {v1}
  MaxReplaced = 2
SYMMETRY Symmetry
CHECK_DEADLOCK FALSE
INVARIANT
  MetaBindsKey
