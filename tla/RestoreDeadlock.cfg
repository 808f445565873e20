\* One restoration beside the loops, no disturbance.
SPECIFICATION FairSpec
CONSTANTS
  scheduler = scheduler
  automation = automation
  Restorer = Restorer
  Nobody = Nobody
  Loop = {scheduler, automation}
  Sections <- MCSections
  Packages = {TRUE}
  MaxRestores = 1
  MaxWrites = 0
  Events = {}
  MaxEvents = 0
PROPERTIES RestoreEnds
CHECK_DEADLOCK FALSE
