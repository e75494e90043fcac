SPECIFICATION RangeSpec
CONSTANTS
  ARCHIVE_SIZE = 10
  Calls <- MCCalls
  RETRY_BASE_DELAY = 5
  RETRY_MAX_RECURRENCES = 3
  RETRY_MAX_ELAPSED = 40
  RETRY_AFTER_CAP = 20
  Hints <- MCHints
  Latencies = {0, 9}
  IgnoresRange = FALSE
INVARIANTS
  RangeInv
  BodyIsRange
CHECK_DEADLOCK FALSE
