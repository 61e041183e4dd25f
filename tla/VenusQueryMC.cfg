SPECIFICATION FairSpec
CONSTANTS
  main = main
  worker = worker
  Threads <- MCThreads
  Main <- main
  NoThread = NoThread
  MaxQueries = 3
  MaxRes = 2
CHECK_DEADLOCK FALSE
INVARIANTS
  AnswerIsReal
  IdleMeansDrained
  FallbackMeansFailure
  SetupLeavesNothing
PROPERTIES
  QueryReturns
