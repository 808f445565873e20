\* Two profiles of an enhanced derivative beside the base one, no claim lost; or two
\* viewers, two contents of one segment, one session at a time, five visits and two
\* incidents.
CONSTANTS
  w1 = w1
  w2 = w2
  c1 = c1
  c2 = c2
  Nobody = Nobody
  Path <- TwoProfiles
  VariantOf <- MCVariantOf
  RevisionOf <- MCRevisionOf
  Base <- MCBase
  Fenced <- MCFenced
  Recognised <- MCRecognised
  Worker = {w1}
  Cleaner = {c1}
  FileId <- MCFewFiles
  MaxRevision = 1
  Events = {"crash", "ioerror"}
  MaxEvents = 1
  Session = {s1, s2}
  Key = {k1, k2}
  Lease = {t1, t2}
  Nothing = Nothing
  Job = Job
  Last = 0
  Ahead = 0
  MaxSessions = 1
  MaxVisits = 5
  MaxIncidents = 2
SPECIFICATION PlaySpec
SYMMETRY SessionSymmetry
INVARIANTS OneCurrent RecordsAreNotDoomed ServedFileExists PlaybackTypeOK LeasesLead ClosedIsEmpty
CHECK_DEADLOCK FALSE
