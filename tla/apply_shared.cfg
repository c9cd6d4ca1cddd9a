SPECIFICATION Spec
CONSTANTS
  PRs = {p1, p2}
  Workspaces = {w1}
  None = None
  MaxCommits = 5
  Planners = {q1}
  Appliers = {a1, a2}
  FreshRoot = TRUE
SYMMETRY Symmetry
CHECK_DEADLOCK FALSE
INVARIANTS
  OneMergePerPlan
PROPERTIES
  ImplementsPlanStore
