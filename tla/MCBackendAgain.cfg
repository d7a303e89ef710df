SPECIFICATION MCSafe
CONSTANTS
  Callers = {a}
  Workers = 1
  Threads = 1
  None = None
  MaxEntries = 1
  MaxInit = 2
  Uses = {"absent"}
INVARIANTS DatabaseOutlivesWork
CHECK_DEADLOCK FALSE
