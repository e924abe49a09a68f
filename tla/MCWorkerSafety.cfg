SPECIFICATION Spec
CONSTANTS
  Jobs = {j1}
  Tenants = {t1, t2}
  Workers = {w1, w2}
  Work <- MCWork
  LeaseChoices = {1}
  RetryChoices = {1}
  MaxAttempts = 3
  NULL = NULL
  LeaseSeconds = 1
  TickThirds = 3
  RetryTicks = 1
  HeartbeatLag = 0
  MaxFaults = 2
INVARIANTS
  VerifiedPatch
  AuditCoversTable
  PayloadIdentity
PROPERTIES
  WritesFenced
  ProgressKept
SYMMETRY WorkerSymmetry
