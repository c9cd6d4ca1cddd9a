SPECIFICATION Spec
CONSTANTS
  TargetLists <- Lists
  Dirs = {".", "x"}
  None = None
  Hangs = {}
  Roots = {"absolute"}
  Leftover = {"default"}
  Shared = FALSE
CHECK_DEADLOCK FALSE
INVARIANT UnnamedStateIsDefault
