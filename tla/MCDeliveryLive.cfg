SPECIFICATION LiveSpec
CONSTANTS
  e1 = e1
  e2 = e2
  e3 = e3
  o1 = o1
  o2 = o2
  Jobs = {j1}
  Repositories = {r1, r2}
  Bases = {b1}
  Threads = {e1, e2, e3}
  Owners = {o1, o2}
  OwnerOf <- MCOwnerOf
  LeaseTicks = 1
  MaxFaults = 2
  NULL = NULL
PROPERTIES
  OpenedIsRecorded
