SPECIFICATION FairSpec
CONSTANTS
  a = a
  b = b
  c = c
  w1 = w1
  w2 = w2
  None = None
  Jobs <- TwoJobs
  Workers <- TwoWorkers
  Workloads <- LiveWorkloads
  MaxQueueSize = 3
CHECK_DEADLOCK FALSE
PROPERTIES
  NothingStuck
