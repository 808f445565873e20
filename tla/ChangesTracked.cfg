\* A directory and an archive, two changes, two disturbances of any kind; fairness.
SPECIFICATION ChangesFairSpec
CONSTANTS
  d = d
  a = a
  Directories = {d}
  Archives = {a}
  Root = Root
  Unbound = Unbound
  Idle = Idle
  Worker = Worker
  Owner = Owner
  MaxPending = 2
  MaxEdits = 2
  Events = {"lost", "discovery", "owner", "refused", "hangup", "rebind", "switch", "crash"}
  MaxEvents = 2
INVARIANTS ChangesTracked
PROPERTIES NoOutdatedMark ChangesAreScanned FilesAreDiscovered
CHECK_DEADLOCK FALSE
