SPECIFICATION FairSpec
CONSTANTS
  Targets <- MCTargets
  Plan <- MCPlan
  PART_SIZE = 3
  PATTERN_SIZE = 2
  HEADER_SIZE = 2
  Runs = {r1, r2}
  MaxStarts = 2
  MaxAborts = 1
  MaxCrashes = 1
  MaxFailures = 1
INVARIANTS
  BuilderInv
  PublishedIsWhole
PROPERTIES
  YieldedBuildEnds
CHECK_DEADLOCK FALSE
