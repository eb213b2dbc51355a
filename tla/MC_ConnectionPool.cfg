SPECIFICATION FairSpec
CONSTANTS
  Threads = {m, t1, t2}
  Main = m
  MaxConnections = 2
  BATCH_SIZE = 2
  None = None
INVARIANTS
  EachConnectionOnce
  NullOnlyAtShutdown
PROPERTIES
  NoLostWakeup
  GrowingNeverEnds
