SPECIFICATION FairSpec
CONSTANTS
  Calls = {c1, c2, c3}
  PRs = {p1, p2}
  Workspaces = {w1}
  Pairs = {bh}
  None = None
  MaxFaults = 1
  Resends = TRUE
  Misses = TRUE
CHECK_DEADLOCK FALSE
INVARIANTS
  TypeOK
  ArtifactsCoherent
  RunHasMarker
  ReturnedIsPublished
  LostIsPublished
  HalfStagedHasCause
  SignedIsInHand
PROPERTIES
  RunLifecycle
  ImplementsLedger
  SignedLeadsToPlanned
