SPECIFICATION LiveSpec
CONSTANTS
  old = old
  new = new
  peer = peer
  Processes = {old, new, peer}
  Listing <- MCListing
  MaxFaults = 2
INVARIANTS
  AppliedOnce
  WholeBuilds
  ReturnedMeansMigrated
  NoCircularWait
PROPERTIES
  EventuallyMigrated
