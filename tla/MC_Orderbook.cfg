SPECIFICATION Spec
CONSTANTS
  Ids = {i1, i2}
  FeedPrices = {1, 2, 3}
  FeedSizes = {1, 2}
  MIN = 1
  MAX = 3
  MinAccepted = 2
  MaxAccepted = 3
  MaxOrders = 3
  MaxLimits = 2
  DupAdds = TRUE
SYMMETRY IdSymmetry
VIEW View
INVARIANTS
  MemorySafe
  BestIsTopOfBook
  NothingLeaks
  ReadersSeeTheQueues
PROPERTY
  ImplementsPriceTimeBook
