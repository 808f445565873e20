\* One restoration and a crash.
SPECIFICATION Spec
CONSTANTS
  scheduler = scheduler
  automation = automation
  Restorer = Restorer
  Nobody = Nobody
  Loop = {automation}
  Sections <- MCSections
  Packages = {TRUE}
  MaxRestores = 1
  MaxWrites = 0
  Events = {"crash"}
  MaxEvents = 1
INVARIANTS FinalizedBeforeServed
CHECK_DEADLOCK FALSE
