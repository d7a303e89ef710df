SPECIFICATION Spec
CONSTANTS
  a = a
  b = b
  c = c
  w1 = w1
  w2 = w2
  None = None
  Jobs <- ThreeJobs
  Workers <- TwoWorkers
  Workloads <- SafetyWorkloads
  MaxQueueSize = 3
CHECK_DEADLOCK FALSE
INVARIANTS
  SettledOnce
  ImagesBounded
  CleanStop
