SPECIFICATION SpecSignals
CONSTANTS
  Ids = {i1, i2, i3}
  FeedPrices = {1, 2, 3}
  FeedSizes = {1}
  MIN = 1
  MAX = 3
  MinAccepted = 1
  MaxAccepted = 3
  MaxOrders = 3
  MaxLimits = 2
  DupAdds = FALSE
  Ct = 2
  Centi = 2
SYMMETRY IdSymmetry
VIEW SignalView
INVARIANTS
  VolsAreDepth
  VoiIsOrderFlow
