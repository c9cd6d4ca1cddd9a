SPECIFICATION Spec
CONSTANTS
  PRs = {p1}
  Workspaces = {w1}
  None = None
  MaxCommits = 7
  Planners = {q1}
  Appliers = {a1}
  FreshRoot = FALSE
SYMMETRY Symmetry
CHECK_DEADLOCK FALSE
INVARIANTS
  TypeOK
  AppliesWhatMerged
  MismatchMeansHeadMoved
  AuthorizedAfterMerge
