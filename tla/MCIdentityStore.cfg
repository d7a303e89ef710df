SPECIFICATION Spec
CONSTANTS
  r1 = r1
  r2 = r2
  r3 = r3
  r4 = r4
  a1 = a1
  a2 = a2
  None = None
  Requests <- FourRequests
  Attempts <- TwoAttempts
  Workloads <- AllWorkloads
  RecoveryFloor <- Floor
  MaxEpoch = 2
CHECK_DEADLOCK FALSE
INVARIANTS
  AccountIsolation
PROPERTIES
  LateLoginNeverLands
  MintedOnStoredDevice
