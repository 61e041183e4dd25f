SPECIFICATION Spec
CONSTANTS
  c1 = c1
  c2 = c2
  w1 = w1
  a1 = a1
  CmdBufs <- OneCmdBuf
  Compilers <- OneCompiler
  Allocators <- OneAllocator
  Nobody = Nobody
  RingWants <- Ring
  Threshold = 3
  RingSize = 4
  MaxCmds = 2
  MaxRounds = 1
CHECK_DEADLOCK FALSE
INVARIANTS
  SubmittedAsRecorded
