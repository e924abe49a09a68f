SPECIFICATION Spec
CONSTANTS
  e1 = e1
  e2 = e2
  e3 = e3
  o1 = o1
  o2 = o2
  Jobs = {j1}
  Repositories = {r1}
  Bases = {b1, b2}
  Threads = {e1, e2, e3}
  Owners = {o1, o2}
  OwnerOf <- MCOwnerOf
  LeaseTicks = 1
  MaxFaults = 1
  NULL = NULL
INVARIANTS
  BegunOnce
  OnePullPerJob
  RecordedPullExists
PROPERTIES
  SettledIsFinal
SYMMETRY DeliverySymmetry
