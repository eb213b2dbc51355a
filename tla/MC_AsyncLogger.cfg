SPECIFICATION LoggerFairSpec
CONSTANTS
  Capacity = 2
  FLUSH_BATCH_SIZE = 3
  buffer_size = 3
  HeaderSize = 2
  RowSizes = {1, 2}
  Minutes = {1, 2}
  MaxEntries = 4
INVARIANTS
  PendingLinesIntact
  RowsReachTheDisk
  OutputsAgreeAtEnd
  OutputsInOrder
PROPERTY
  DestructorReturns
