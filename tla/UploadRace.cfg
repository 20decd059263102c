SPECIFICATION Spec
CONSTANTS
  Inodes = {1}
  Reg = {}
  MAX_SYNC_CONCURRENCY = 2
  MaxVersion = 3
  MaxFaults = 0
INVARIANT NoLostUpdate
CHECK_DEADLOCK FALSE
