SPECIFICATION Spec
CONSTANTS
  NoFile = NoFile
  Files <- AllFiles
  Verbs = {"scope", "plan", "verify"}
  Refs <- AllRefs
  Bases <- AllBases
  Changes <- AllChanges
  PageFiles = 1
CHECK_DEADLOCK FALSE
INVARIANTS
  TypeOK
  NoRootPlannedTwice
  AcceptedStaysInside
  AcceptedIsRunnable
  TouchedIsScoped
