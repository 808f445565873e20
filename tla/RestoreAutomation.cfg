\* The command line tool: no loops; two errors or an error and a crash, under fairness.
SPECIFICATION WorkSpec
CONSTANTS
  scheduler = scheduler
  automation = automation
  Restorer = Restorer
  Nobody = Nobody
  Loop = {}
  Sections <- MCSections
  Packages = {TRUE, FALSE}
  MaxRestores = 2
  MaxWrites = 0
  Events = {"fault", "crash"}
  MaxEvents = 2

CONSTANTS
  l1 = l1
  l2 = l2
  Library = {l1, l2}
  GalleryId = {1, 2, 3}
  LibraryOf <- MCLibraryOf
  Run = {1, 2}
  NoRun = NoRun
  NoGallery = NoGallery
  BatchSize = 1
  Accidents = {"owner", "cancel", "error", "release", "crash"}
  MaxAccidents = 1
INVARIANTS NoDraftPassedOver ProgressIsExact CancelStopsActivation
PROPERTIES RestoreEnds RetryOpensItsDrafts EveryRunEnds
CHECK_DEADLOCK FALSE
