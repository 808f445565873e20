\* Two workers, a cleaner, two contents of one base derivative, three disturbances.
CONSTANTS
  w1 = w1
  w2 = w2
  c1 = c1
  c2 = c2
  Nobody = Nobody
  Path <- PosterOnly
  VariantOf <- MCVariantOf
  RevisionOf <- MCRevisionOf
  Base <- MCBase
  Fenced <- MCFenced
  Recognised <- MCRecognised
  Worker = {w1, w2}
  Cleaner = {c1}
  FileId <- MCFileId
  MaxRevision = 2
  Events = {"retry", "withdraw", "stall", "refuse", "ioerror", "crash"}
  MaxEvents = 3
SPECIFICATION Spec
SYMMETRY Symmetry
INVARIANTS TypeOK ServedIsFresh
PROPERTIES CleanersSpareRecords
CHECK_DEADLOCK FALSE
