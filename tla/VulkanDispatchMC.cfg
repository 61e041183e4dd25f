SPECIFICATION Spec
CONSTANTS
  c1 = c1
  c2 = c2
  w1 = w1
  a1 = a1
  CmdBufs <- OneCmdBuf
  Compilers <- OneCompiler
  Allocators <- OneAllocator
  Nobody = Nobody
  RingWants <- Booleans
  Threshold = 3
  RingSize = 2
  MaxCmds = 1
  MaxRounds = 2
CHECK_DEADLOCK FALSE
INVARIANTS
  RecordedInOrder
  SubmittedWithoutRing
  LookupsWithoutRing
  CreatesKept
PROPERTIES
  RingUsedAsStream
