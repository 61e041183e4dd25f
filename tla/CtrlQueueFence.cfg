SPECIFICATION Spec
CONSTANTS
  t1 = t1
  t2 = t2
  NoThread = NoThread
  NoAddr = NoAddr
  r1 = r1
  r2 = r2
  p1 = p1
  p2 = p2
  Threads <- MCThreads
  ReqAddrs <- MCReqAddrs
  RespAddrs <- MCRespAddrs
  QueueSize = 2
  MaxCalls = 2

CHECK_DEADLOCK FALSE
INVARIANTS
  SubmittedFenceDone
