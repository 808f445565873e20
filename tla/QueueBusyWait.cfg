\* One worker and one job behind the switch: the busy wait on a disabled expired row.
SPECIFICATION FairSpec
CONSTANTS
  w1 = w1
  w2 = w2
  Nobody = Nobody
  Job = {3}
  Worker = {w1}
  ItemOf <- MCItemOf
  GalleryOf <- MCGalleryOf
  FollowUp <- MCFollowUp
  Gated = {3}
  Priorities = {1}
  ScanPriority = 1
  ManualFloor = 2
  MaxPriority = 3
  MaxAttempts = 2
  Backoff <- MCBackoff
  Lease = 2
  MaxLag = 0
  Recovery = 3
  MinWait = 1
  QueryErrorWait = 2
  ClaimErrorWait = 1
  MaxCommands = 1
  MaxFaults = 1
PROPERTIES WorkersComeToRest
