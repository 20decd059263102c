SPECIFICATION Spec
CONSTANTS
  Inodes = {1, 3}
  Parents = {1, 2}
  PLOOKUP_HASH_NUM_ENTRIES = 2
  MAX_PARENTS_PER_PAGE = 1
  MaxPages = 3
  MaxTotal = 4
  MAX_NUM_ENTRY_HANDLE = 2
  MaxCrashes = 2
  Workers = {a, b}
  Roots <- RootDirs
  SubDirs <- DirsIn
  SubFiles <- FilesIn
  Missing = {3}
  NUM_CACHED_INODES = 2
  MaxJobs = 6
  MaxOffline = 1
  MaxRestarts = 1
  MaxNumber = 5
  NUM_SCAN_RECLAIMED = 2
  CacheThreads = {"a", "b"}
  CachedInodes = {1, 2, 3}
  NUM_META_MEM_CACHE_HEADERS = 2
  MAX_META_MEM_CACHE_ENTRIES = 1
  DirPages = {1, 2, 3}
  Contents = {0, 1}
  CloudBlocks <- BlocksInCloud
  MAX_DSYNC_CONCURRENCY = 2
  MAX_DELETE_CONCURRENCY = 2
  MaxDeleteFails = 1
  MaxDeleteCrashes = 1
  RVolumes <- BackedUp
  RKids <- ChildrenOf
  RBlocks <- BlocksOfFile
  RPinned = {14, 17, 41}
  HighPri = {2}
  SmartDirs = {"link1"}
  RCacheLimit = 4
  MaxMissing = 1
  MaxRestoreCrashes = 1
  Vols = {1, 2}
  Sites <- MountSites
  MultiVols = {2}
  VolBounds <- VolumeBounds
  MAX_DIR_ENTRIES_PER_PAGE = 6
  MIN_DIR_ENTRIES_PER_PAGE = 1
  FileNames = {1, 2, 4, 5, 7, 8, 11, 13, 16, 22, 26, 29, 32, 33, 37, 48}
  DirHandles = {"h1", "h2"}
  MaxListed = 3
  DirCases <- Directories
  XNames <- AttributeNames
  XTags = {"x"}
  MAX_KEY_HASH_ENTRY = 2
  MAX_KEY_ENTRY_PER_LIST = 2
  MaxValueBlocks = 2
  SkippedKey = 2
  MaxXattrOps = 4
  EventProducers = {"p", "q"}
  EVENT_QUEUE_SIZE = 2
  MAX_NUM_EVENT_SEND = 2
  MaxEvents = 3
  MaxRefusals = 1
  Notifiers = {"p", "q"}
  Channels = {"c", "d"}
  FUSE_NOTIFY_RINGBUF_MAXLEN = 2
  MaxNotices = 6
  MaxNoMem = 1
  CacheFiles = {1, 2}
  PinnedFiles = {1}
  Writers = {"p", "q"}
  CACHE_USAGE_NUM_ENTRIES = 1
  CACHE_SOFT_LIMIT = 1
  CACHE_HARD_LIMIT = 3
  CACHE_DELTA = 1
  InitClean <- CleanBlocks
  InitDirty <- DirtyBlocks
  MaxWrites = 1
  MaxPauses = 1
  MaxDeletes = 1
  PinFiles = {1, 2}
  PinDirs = {9}
  DirFiles <- FilesInDir
  DirDirs <- DirsInDir
  MinApks = {}
  PinRequests <- PinTargets
  ApiThreads = {"p", "q"}
  MAX_PINNING_FILE_CONCURRENCY = 1
  MAX_PIN_DL_CONCURRENCY = 1
  PinnedLimit = 2
  GrowingFiles = {1}
  PinCacheLimit = 2
  InitCloud <- CloudOnly
  PinBounds <- PinningBounds
  PathRoot = 1
  PathDirs = {1, 2}
  PathFiles = {3, 4}
  PathThreads = {"a", "b"}
  NUM_LOOKUP_ENTRY = 1
  MAX_LOOKUP_NODES = 2
  NUM_NODES_DROP = 1
  MaxPathOps = 4
  POINTERS_PER_PAGE = 2
  MAX_BLOCK_ENTRIES_PER_PAGE = 2
  TreeBlocks = {1, 3, 9}
  TreeThreads = {"a", "b"}
  MaxTreeOps = 3
  MaxTreeFails = 1
  MaxTreeCrashes = 1
  Apks = {0, 2}
  ApkThreads = {"a", "b"}
  MINAPK_TABLE_SIZE = 2
  MaxMinIno = 2
  MaxApkOps = 3
  MaxToggles = 1
  MaxApkNoMem = 1
INVARIANTS
  TypeOK
  SuperBlockRepaired
  CloudSound
  MetadataSound
  TablesSound
  QueuesSound
  CacheSound
PROPERTY
  LookupRefines
CHECK_DEADLOCK FALSE
