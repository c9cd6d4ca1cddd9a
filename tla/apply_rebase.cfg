SPECIFICATION Spec
CONSTANTS
  PRs = {p1}
  Workspaces = {w1}
  None = None
  MaxCommits = 6
  Planners = {q1}
  Appliers = {a1}
  FreshRoot = TRUE
SYMMETRY Symmetry
CHECK_DEADLOCK FALSE
INVARIANTS
  MovedMeansMoved
