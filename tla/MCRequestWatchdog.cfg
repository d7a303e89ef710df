SPECIFICATION FairSpec
CONSTANTS
  None = None
  Jobs = {j1, j2, j3}
  Executors = {e1, e2}
  ExecutorQueueCap = 1
  MaxPendingEntries = 2
CHECK_DEADLOCK FALSE
INVARIANTS
  OneWinner
PROPERTIES
  ImplementsService
  BudgetReturns
