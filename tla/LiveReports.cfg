\* Documented: changed files are reported.
SPECIFICATION FairSpec
CONSTANTS
  Dir <- NestedDirs
  File <- NestedFiles
  Parent <- NestedParent
  Root = "root"
  Skipped = {}
  Tracked <- NestedNames
  QueueSize = 2
  MaxChanges = 3
  MaxBuilds = 0
  None = None
PROPERTIES ReportsChanges
CHECK_DEADLOCK FALSE
