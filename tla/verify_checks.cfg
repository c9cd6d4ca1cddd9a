SPECIFICATION VSpec
CONSTANTS
  Calls = {c1, c2}
  PRs = {p1}
  Workspaces = {w1}
  Pairs = {h1, h2, h3}
  Moved = {h3}
  BaseOf <- Bases
  None = None
  MaxFaults = 0
  Resends = FALSE
  Misses = FALSE
  Verifications = {v1, v2}
  MaxReplaced = 2
SYMMETRY Symmetry
CONSTRAINT SettledCalls
CHECK_DEADLOCK FALSE
INVARIANTS
  VTypeOK
  TrustedIsOnePlan
  RefusedHasCause
  VerdictsAgree
PROPERTIES
  StagedIsFound
  ImplementsPlanStore
