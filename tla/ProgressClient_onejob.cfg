SPECIFICATION FairSpec
CONSTANTS
  MaxJobs = 1
  MaxDone = 1
  MaxPolls = 2
  MaxReloads = 1
  MaxDrops = 1
  MaxLost = 1
INVARIANTS
  ClientInv
PROPERTIES
  LearnsTheEnd
CHECK_DEADLOCK FALSE
