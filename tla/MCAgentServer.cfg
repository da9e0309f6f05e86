SPECIFICATION Spec
CHECK_DEADLOCK FALSE
SYMMETRY Symmetry
CONSTANTS
  r1 = r1
  r2 = r2
  r3 = r3
  Requests <- MCRequests
  Workloads <- MCWorkloads
  Limit = 2
  Core = 1
  MaxThreads = 2
  QueueCapacity = 1
  ScreenCapacity = 1
  MaxAttachments = 3
INVARIANTS
  SnapshotsUsable
  DrainedMeansDone
  ScreenshotsClosed
