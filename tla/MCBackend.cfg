SPECIFICATION MCSpec
CONSTANTS
  Callers = {a, b}
  Workers = 1
  Threads = 2
  None = None
  MaxEntries = 1
  MaxInit = 1
  Uses = {"open", "absent"}
INVARIANTS DatabaseOutlivesWork RequestsStayReachable
PROPERTIES CancelStopsCommit EveryDispatchReturns
CHECK_DEADLOCK FALSE
