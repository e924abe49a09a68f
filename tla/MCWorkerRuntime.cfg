SPECIFICATION LiveSpec
CONSTANTS
  Signals = {s1}
  Callers = {c1}
  Probes = {p1}
  InitialBackoff = 1
  MaxBackoff = 3
  MaxRuns = 3
  Main = Main
  NULL = NULL
INVARIANTS
  OneLateRunAtMost
  BackoffOfStreak
  CountersAgree
  ExitedIsNotAccepting
PROPERTIES
  StopsUnlessSelfBlocked
CHECK_DEADLOCK FALSE
