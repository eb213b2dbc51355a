SPECIFICATION LoggerSpec
CONSTANTS
  Capacity = 2
  FLUSH_BATCH_SIZE = 2
  buffer_size = 3
  HeaderSize = 2
  RowSizes = {1, 2}
  Minutes = {1, 2}
  MaxEntries = 3
INVARIANT
  HeaderKept
