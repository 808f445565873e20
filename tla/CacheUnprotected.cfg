\* One withdrawal: a cleaner takes a file between its rename and its publication.
CONSTANTS
  w1 = w1
  w2 = w2
  c1 = c1
  c2 = c2
  Nobody = Nobody
  Path <- BoxOnly
  VariantOf <- MCVariantOf
  RevisionOf <- MCRevisionOf
  Base <- MCBase
  Fenced <- MCFenced
  Recognised <- MCRecognised
  Worker = {w1}
  Cleaner = {c1}
  FileId <- MCFileId
  MaxRevision = 1
  Events = {"withdraw"}
  MaxEvents = 1
SPECIFICATION Spec
INVARIANTS ServedFileExists
CHECK_DEADLOCK FALSE
