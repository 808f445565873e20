\* Two restorations in a server with both loops that does not crash, with an error or a client that hangs up;
\* two overlapping calls for a sidecar of one field, with two edits or mishaps.
SPECIFICATION WorkSpec
CONSTANTS
  scheduler = scheduler
  automation = automation
  Restorer = Restorer
  Nobody = Nobody
  Loop = {scheduler, automation}
  Sections <- MCSections
  Packages = {TRUE, FALSE}
  MaxRestores = 2
  MaxWrites = 2
  Events = {"fault", "hangup"}
  MaxEvents = 1
  Field = {title}
  Value = {v1, v2, v3}
  Unset = Unset
  Missing = Missing
  Broken = Broken
  NoRow = NoRow
  Caller = {a, b}
  MaxCalls = 2
  Mishaps = {"unrevised", "file", "error", "crash", "restore"}
  MaxChanges = 2
SYMMETRY Alike
INVARIANTS FinalizedBeforeServed WorkersAreAway FailureIsUndone FailureReopens NoMixture RevisionTells
PROPERTIES PullSparesEdits ImplementsAtomicRestore
CHECK_DEADLOCK FALSE
