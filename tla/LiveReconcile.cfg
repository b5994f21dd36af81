\* Documented: BuildAll reconciles any missed update.
SPECIFICATION Spec
CONSTANTS
  Dir <- VendorDirs
  File <- VendorFiles
  Parent <- VendorParent
  Root = "root"
  Skipped = {"vendor"}
  Tracked <- VendorFiles
  QueueSize = 2
  MaxChanges = 3
  MaxBuilds = 1
  None = None
PROPERTIES BuildReconciles
CHECK_DEADLOCK FALSE
