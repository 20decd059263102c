SPECIFICATION Spec
CONSTANTS
  Inodes = {1}
  Reg = {1}
  MAX_SYNC_CONCURRENCY = 1
  MaxVersion = 2
  MaxFaults = 1
PROPERTY ContinueIsClean
CHECK_DEADLOCK FALSE
