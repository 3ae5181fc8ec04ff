CONSTANTS
  w1 = w1
  w2 = w2
  caller = caller
  Workers <- MCWorkers
  Caller <- caller
  Counts <- EngineCounts
  MaxCalls = 3
  MaxStarts = 2
SPECIFICATION FairPoolSpec
INVARIANTS PoolInv NoJobOutlivesItsRun
PROPERTIES CallerReturns
CHECK_DEADLOCK FALSE
