SPECIFICATION Spec
CONSTANTS
  Blocks = {1}
  Handles = {h1, h2}
  Loaders = {l1}
  MaxFiles = 4
  MaxMod = 2
  MaxRead = 1
  MaxLoad = 1
  MaxPage = 1
  MaxUpload = 1
  MaxFail = 1
  MaxSleep = 1
  MaxPin = 1
CONSTRAINT Clean
SYMMETRY Symmetry
INVARIANTS TypeOK ReadLatest NoLoss StoredBoth CloudConsistent CacheExact
CHECK_DEADLOCK FALSE
