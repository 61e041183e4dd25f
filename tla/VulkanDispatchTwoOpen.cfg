SPECIFICATION Spec
CONSTANTS
  c1 = c1
  c2 = c2
  w1 = w1
  a1 = a1
  CmdBufs <- TwoCmdBufs
  Compilers <- OneCompiler
  Allocators <- OneAllocator
  Nobody = Nobody
  RingWants <- NoRing
  Threshold = 3
  RingSize = 2
  MaxCmds = 1
  MaxRounds = 1
CHECK_DEADLOCK FALSE
INVARIANTS
  LookupsSucceed
