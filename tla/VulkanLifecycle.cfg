SPECIFICATION Spec
CONSTANTS
  MaxCtx = 2
  MaxRes = 2
CHECK_DEADLOCK FALSE
INVARIANTS
  RingHasItsMemory
  ReadyRingIsCurrent
  NothingLeftBehind
  ContextDiesForAReason
  DeviceIsOnHost
