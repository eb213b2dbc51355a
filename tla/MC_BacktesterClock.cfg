SPECIFICATION Spec
CONSTANTS
  Start = 2
  End = 5
  FORECAST_WINDOW = 1
  MAX_LAG = 1
  max_pos = 1
  Instruments = {1, 2}
  Files <- MCFiles
  Clocks = {FALSE}
  Connections = 4
  Kinds = {"imbalance", "linear"}
  MaxStarts = 1
  MaxStops = 0
INVARIANT
  SessionReachesStrategy
