SPECIFICATION Spec
CONSTANTS
  CacheFiles = {1, 2}
  PinnedFiles = {1}
  Writers = {"p", "q"}
  CACHE_USAGE_NUM_ENTRIES = 1
  CACHE_SOFT_LIMIT = 1
  CACHE_HARD_LIMIT = 3
  CACHE_DELTA = 1
  InitClean <- CleanBlocks
  InitDirty <- DirtyBlocks
  MaxWrites = 1
  MaxPauses = 1
  MaxDeletes = 0
  Workers = {a, b}
  Roots <- RootDirs
  SubDirs <- DirsIn
  SubFiles <- FilesIn
  Missing = {3}
  NUM_CACHED_INODES = 2
  MaxJobs = 8
  MaxOffline = 1
  MaxRestarts = 0
  CloudBlocks <- BlocksInCloud
  MAX_DSYNC_CONCURRENCY = 2
  MAX_DELETE_CONCURRENCY = 2
  MaxDeleteFails = 1
  MaxDeleteCrashes = 0
PROPERTIES
  SleepersWake
  RebuildEnds
  DeletionEnds
CHECK_DEADLOCK FALSE
