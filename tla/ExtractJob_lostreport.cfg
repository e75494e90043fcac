SPECIFICATION Spec
CONSTANTS
  Entry = {1, 2}
  Name = {1, 2}
  NameOf <- NameOfDistinct
  MAX_WORKERS = 2
  WORKER_CONCURRENCY = 1
  FILES_PER_WORKER = 1
  LIST_PAGE = 1
  ALARM_TRIES = 2
  Faults = {"loseReport"}
INVARIANTS
  CompletedMeansSettled
