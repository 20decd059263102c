SPECIFICATION Spec
CONSTANTS
  Blocks = {1}
  Handles = {h1, h2}
  Loaders = {l1}
  MaxFiles = 4
  MaxMod = 3
  MaxRead = 1
  MaxLoad = 0
  MaxPage = 0
  MaxUpload = 0
  MaxFail = 0
  MaxSleep = 0
  MaxPin = 0
SYMMETRY Symmetry
INVARIANT CachedFileValid
CHECK_DEADLOCK FALSE
