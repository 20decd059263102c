INIT PKInit
NEXT PKNext
CONSTANTS
  PathRoot = 1
  PathDirs = {1, 2}
  PathFiles = {3, 4}
  PathThreads = {"a"}
  NUM_LOOKUP_ENTRY = 1
  MAX_LOOKUP_NODES = 2
  NUM_NODES_DROP = 1
  MaxPathOps = 2
INVARIANT
  CachedPathTrue
CHECK_DEADLOCK FALSE
