\* One worker, one cleaner, one disturbance; or two viewers of one session of two
\* segments, four visits and one incident; under fairness.
CONSTANTS
  w1 = w1
  w2 = w2
  c1 = c1
  c2 = c2
  Nobody = Nobody
  Path <- BoxThenCard
  VariantOf <- MCVariantOf
  RevisionOf <- MCRevisionOf
  Base <- MCBase
  Fenced <- MCFenced
  Recognised <- MCRecognised
  Worker = {w1}
  Cleaner = {c1}
  FileId <- MCFileId
  MaxRevision = 2
  Events = {"retry", "withdraw", "stall", "refuse", "ioerror", "crash"}
  MaxEvents = 1
  Session = {s1}
  Key = {k1}
  Lease = {t1, t2}
  Nothing = Nothing
  Job = Job
  Last = 1
  Ahead = 0
  MaxSessions = 1
  MaxVisits = 4
  MaxIncidents = 1
SPECIFICATION PlayFairSpec
PROPERTIES DeadFilesGo SessionsEnd RequestsAreAnswered
CHECK_DEADLOCK FALSE
