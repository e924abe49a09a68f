SPECIFICATION LiveSpec
CONSTANTS
  Jobs = {j1}
  Tenants = {t1}
  Workers = {w1, w2}
  Work <- MCWork
  LeaseChoices = {10}
  RetryChoices = {1}
  MaxAttempts = 3
  NULL = NULL
  LeaseSeconds = 300
  TickThirds = 90
  RetryTicks = 1
  HeartbeatLag = 1
  MaxFaults = 2
INVARIANTS
  LeaseKeptDuringStage
PROPERTIES
  JobsFinish
