\* BuildAll beside the watcher and its handler.
SPECIFICATION Spec
CONSTANTS
  Dir <- VendorDirs
  File <- VendorFiles
  Parent <- VendorParent
  Root = "root"
  Skipped = {"vendor"}
  Tracked <- VendorFiles
  QueueSize = 2
  MaxChanges = 4
  MaxBuilds = 2
  None = None
INVARIANTS NoChangeLost
PROPERTIES BuildIndexesTree
CHECK_DEADLOCK FALSE
