SPECIFICATION LoopsSpec
CONSTANTS
  Files = {e1, e2, e3, e4, e5}
  Sizes = {0, 1, 2, 3}
  WorkerLimits = {0, 2, 3}
  FilesPerWorker = {0, 2}
  PlanTargets <- MCTargets
  MB = 2
  MEDIA_SIZES <- MCMediaSizes
  TEXT_SIZES <- MCTextSizes
  MEDIA_FOLDERS = 3
  TEXT_FOLDERS = 4
  TEXT_EVERY = 12
  StoredSizes = {0, 1, 10, 11, 12, 21, 22, 23, 32, 43, 44, 59}
  PATTERN_SIZE = 11
  WORD = 16
SYMMETRY SymmetricFiles
CHECK_DEADLOCK FALSE
INVARIANTS
  ExactlyOnce
  WithinOneEntry
  NearTheOptimum
  PlanIsSound
  ChecksumIsExact
