SPECIFICATION Spec
CONSTANTS
  Jobs = {j1}
  Tenants = {t1}
  Workers = {w1, w2}
  Work = {d0}
  NoWork = d0
  LeaseChoices = {1}
  RetryChoices = {1}
  MaxAttempts = 2
  NULL = NULL
  Requests = {r1, r2}
  CallerEvents = {"status_changed"}
  MaxFaults = 1
INVARIANTS
  ApprovalRecordedBeforeClaim
