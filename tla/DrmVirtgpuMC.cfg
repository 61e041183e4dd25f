SPECIFICATION Spec
CONSTANTS
  t1 = t1
  t2 = t2
  Threads <- MCThreads
  MaxHandles = 3
  MaxMmaps = 3
  Sizes <- MCSizes
  Page = 2
  Width = 8
  MaxRes = 2
SYMMETRY Symmetry
CHECK_DEADLOCK FALSE
INVARIANTS
  FailuresCostNoHandle
  HeldHandlesResolve
  BlobsHaveHandles
  MmapResolves
  MmapNeverStale
  MapFindsEntry
