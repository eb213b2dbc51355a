SPECIFICATION Spec
CONSTANTS
  Bids = {0, 11}
  Asks = {0, 12}
  Centi = 10
  PointValues = {2}
  Garbage <- AnyPointValue
  MAX_LAG = 1
  max_pos = 1
  Int32Max = 31
  FloatMax = 16
  MaxTrades = 5
INVARIANTS
  PnlExact
  EveryTradeLogged
  
