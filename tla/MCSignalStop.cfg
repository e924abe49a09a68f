SPECIFICATION LiveSpec
CONSTANTS
  Signals = {s1}
  Callers = {}
  Probes = {}
  InitialBackoff = 1
  MaxBackoff = 3
  MaxRuns = 2
  Main = Main
  NULL = NULL
PROPERTIES
  StopsWhenRequested
CHECK_DEADLOCK FALSE
