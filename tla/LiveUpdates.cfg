\* The watcher and its handler on a changing tree.
SPECIFICATION FairSpec
CONSTANTS
  Dir <- NestedDirs
  File <- NestedFiles
  Parent <- NestedParent
  Root = "root"
  Skipped = {"a/vendor"}
  Tracked <- NestedNames
  QueueSize = 2
  MaxChanges = 4
  MaxBuilds = 0
  None = None
INVARIANTS TypeOK EveryDirWatched NoChangeLost
PROPERTIES RowsNeverGoBack TableCatchesUp
CHECK_DEADLOCK FALSE
