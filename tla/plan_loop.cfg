SPECIFICATION FairSpec
CONSTANTS
  TargetLists <- Lists
  Dirs = {".", "x"}
  None = None
  Hangs = {"select", "plan"}
  Roots = {"absolute", "current", "relative"}
  Leftover = {"default", "a"}
  Shared = TRUE
CHECK_DEADLOCK FALSE
INVARIANTS
  TypeOK
  StagedIsOnePlan
  NamedStateIsPlanned
  StagedWasShown
  ExitTellsStaged
PROPERTIES
  RunEnds
