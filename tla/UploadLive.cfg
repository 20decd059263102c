SPECIFICATION FairSpec
CONSTANTS
  Inodes = {1, 2}
  Reg = {1}
  MAX_SYNC_CONCURRENCY = 1
  MaxVersion = 1
  MaxFaults = 2
PROPERTY EventuallyClean
CHECK_DEADLOCK FALSE
