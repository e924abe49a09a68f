SPECIFICATION QueueSpec
CONSTANTS
  Jobs = {j1, j2}
  Tenants = {t1, t2}
  Workers = {w1, w2}
  Work = {d1}
  LeaseChoices = {1}
  RetryChoices = {0, 1}
  MaxAttempts = 2
  NULL = NULL
INVARIANTS
  QueueTypeOK
  OwnershipConsistent
PROPERTIES
  OwnerChangesOnlyByClaim
  CompletedIsFinal
  HeldUntilApproved
  ImplementsLeasedJobs
SYMMETRY QueueSymmetry
