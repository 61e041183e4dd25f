SPECIFICATION FairSpec
CONSTANTS
  d1 = d1
  d2 = d2
  Data <- MCData
  BufSize = 4
  CounterMod = 8
  MaxLen = 3

INVARIANTS
  CountersOrdered
  WaitMeansExecuted
PROPERTIES
  ImplementsStream
  FlushReachesHost
