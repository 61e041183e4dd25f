SPECIFICATION Spec
CONSTANTS
  b1 = b1
  b2 = b2
  Blobs <- MCBlobs
  Sizes <- MCSizes
  Slots = 2
  CtxSlots = 1
  Align = 2
  OffsetMod = 8
  BarSize = 4
  MaxRes = 3
  MaxCtx = 2
SYMMETRY Symmetry
CHECK_DEADLOCK FALSE
INVARIANTS
  BlobMatchesTable
  HostLeaksAreKnown
  LiveIsOnHost
  MappingsDisjoint
  PointersAreMapped
PROPERTIES
  ImplementsBlobLayer
