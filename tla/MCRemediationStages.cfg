SPECIFICATION Spec
CONSTANTS
  f = f
  g = g
  outside = outside
  Files = {f, g}
  Checkouts <- MCCheckouts
  Directives <- MCDirectives
  MaxPlan = 2
  Registered = {"read_file", "apply_patch"}
  Commands <- MCCommands
  Allowed = {"lint", "test"}
  MaxAttempts = 3
  MaxFaults = 2
  NULL = NULL
INVARIANTS
  PatchesCompose
  WholePlanVerified
  RetryDoesNotRepeat
  VerifiedMeansPassed
CHECK_DEADLOCK FALSE
