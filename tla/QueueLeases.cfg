\* Two workers on a probe and its follow-up, which a runtime switch gates.
SPECIFICATION Spec
CONSTANTS
  w1 = w1
  w2 = w2
  Nobody = Nobody
  Job = {1, 2}
  Worker = {w1, w2}
  ItemOf <- MCItemOf
  GalleryOf <- MCGalleryOf
  FollowUp <- MCFollowUp
  Gated = {2}
  Priorities = {1}
  ScanPriority = 1
  ManualFloor = 2
  MaxPriority = 3
  MaxAttempts = 2
  Backoff <- MCBackoff
  Lease = 2
  MaxLag = 1
  Recovery = 3
  MinWait = 1
  QueryErrorWait = 2
  ClaimErrorWait = 1
  MaxCommands = 2
  MaxFaults = 1
SYMMETRY WorkerSymmetry
INVARIANTS FencedByName FollowUpNotLost NoOversleep
PROPERTIES TakenOnlyWhenLate ImplementsWorkLease
