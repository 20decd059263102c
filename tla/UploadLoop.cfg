SPECIFICATION Spec
CONSTANTS
  Inodes = {1, 2}
  Reg = {1}
  MAX_SYNC_CONCURRENCY = 2
  MaxVersion = 2
  MaxFaults = 1
INVARIANTS TypeOK OneUploader SlotsConserved SnapshotPresent
PROPERTY CompletionIsClean
CHECK_DEADLOCK FALSE
