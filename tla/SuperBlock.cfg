SPECIFICATION Spec
CONSTANTS
  MaxInode = 4
  RECLAIM_TRIGGER = 2
  SYNC_RETRY_TIMES = 1
INVARIANTS TypeOK QueuesFIFO PinQueueFIFO CountsOK NeverRebuilds SyncPointCovers RemovedIsQuiet ReclaimListExact
