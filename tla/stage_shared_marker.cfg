SPECIFICATION Spec
CONSTANTS
  Calls = {c1, c2}
  PRs = {p1}
  Workspaces = {w1, w2}
  Pairs = {bh}
  None = None
  MaxFaults = 0
  Resends = FALSE
  Misses = FALSE
SYMMETRY CallSymmetry
CHECK_DEADLOCK FALSE
INVARIANT PlannedHasOwnMarker
