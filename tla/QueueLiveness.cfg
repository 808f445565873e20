\* One worker, a probe and a job of another gallery, two attempts each, three
\* commands, one fault;
\* or a draft in each of two libraries and two runs, whose scans enqueue these jobs;
\* fairness.
SPECIFICATION WorkSpec
CONSTANTS
  w1 = w1
  w2 = w2
  Nobody = Nobody
  Job = {1, 3}
  Worker = {w1}
  ItemOf <- MCItemOf
  GalleryOf <- MCGalleryOf
  FollowUp <- MCFollowUp
  Gated = {}
  Priorities = {1}
  ScanPriority = 1
  ManualFloor = 3
  MaxPriority = 5
  MaxAttempts = 2
  Backoff <- MCBackoff
  Lease = 2
  MaxLag = 0
  Recovery = 2
  MinWait = 1
  QueryErrorWait = 2
  ClaimErrorWait = 1
  MaxCommands = 3
  MaxFaults = 1
  l1 = l1
  l2 = l2
  Library = {l1, l2}
  GalleryId = {1, 3}
  LibraryOf <- MCLibraryOf
  Run = {1, 2}
  NoRun = NoRun
  NoGallery = NoGallery
  BatchSize = 1
  Accidents = {}
  MaxAccidents = 0
INVARIANTS OwnerCancelIsFinal LatestScanFirst
PROPERTIES EveryJobSettles WorkersComeToRest EveryRunEnds
CHECK_DEADLOCK FALSE
