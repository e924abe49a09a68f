SPECIFICATION Spec
CONSTANTS
  Jobs = {j1}
  Tenants = {t1}
  Workers = {w1, w2}
  Work = {d0}
  NoWork = d0
  LeaseChoices = {1}
  RetryChoices = {1}
  MaxAttempts = 3
  NULL = NULL
  Requests = {r1, r2, r3}
  CallerEvents = {"status_changed"}
  MaxFaults = 2
INVARIANTS
  ReleasedOnceBeforeClaimed
  RowsAreAudited
  TrailMatchesRows
SYMMETRY ApiSymmetry
