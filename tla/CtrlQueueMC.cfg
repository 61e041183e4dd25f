SPECIFICATION Spec
CONSTANTS
  t1 = t1
  t2 = t2
  NoThread = NoThread
  NoAddr = NoAddr
  r1 = r1
  r2 = r2
  p1 = p1
  p2 = p2
  Threads <- MCThreads
  ReqAddrs <- MCReqAddrs
  RespAddrs <- MCRespAddrs
  QueueSize = 2
  MaxCalls = 3
SYMMETRY Symmetry
CHECK_DEADLOCK FALSE
INVARIANTS
  BacklogIsTimeouts
  SuccessIsReal
  SubmittedFenceDoneInOrder
PROPERTIES
  CompletedFenceGrows
  ImplementsService
