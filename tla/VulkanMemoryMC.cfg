SPECIFICATION Spec
CONSTANTS
  t1 = t1
  t2 = t2
  Threads <- MCThreads
  HvMax = 2
  MaxMem = 3
  MaxRes = 3
SYMMETRY Symmetry
CHECK_DEADLOCK FALSE
INVARIANTS
  PointerIsOwn
  EntriesAccounted
  SlotsComeBack
