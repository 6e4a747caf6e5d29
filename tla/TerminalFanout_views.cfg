\* One reader, one view: output, attach, lag and reconnection in any order.
SPECIFICATION FairSpec
CONSTANTS
  v1 = v1
  Views = {v1}
  NReaders = 1
  Capacity = 2
  MaxChunks = 3
  MaxLog = 4
INVARIANT NothingMissed
PROPERTY Delivered
