CONSTANTS
  t1 = t1
  t2 = t2
  t3 = t3
  c1 = c1
  c2 = c2
  None = None
  Tasks <- MCTasks
  Conns <- MCConns
  ConnOf <- MCConnOf
  MaxTotal = 2
  MaxPerConn = 1
  MaxChunks = 1
SPECIFICATION FairSpec
INVARIANTS
  PermitAccounting
  OneOutcomeAndLast
  FailureFreesSlot
PROPERTIES
  PoolSpec
  TransfersEnd
CHECK_DEADLOCK FALSE
