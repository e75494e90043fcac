SPECIFICATION Spec
CONSTANTS
  Sizes = {0, 3, 4, 5, 6, 9, 10, 11}
  DATA_OFFSET = 7
  MULTIPART_THRESHOLD = 4
  PART_SIZE = 2
  PART_CONCURRENCY = 2
  R2_MIN_PART_BYTES = 2
  R2_MAX_PARTS = 5
  Faults = {"fails", "answerLost"}
INVARIANTS
  NeverPartial
  FlyingBounded
PROPERTIES
  KeepsEntryPromise
CHECK_DEADLOCK FALSE
