SPECIFICATION Spec
CONSTANTS
  Start = 2
  End = 5
  FORECAST_WINDOW = 1
  MAX_LAG = 1
  max_pos = 1
  Instruments = {1, 2}
  Files <- MCFiles
  Clocks = {TRUE, FALSE}
  Connections = 3
  Kinds = {"imbalance", "linear"}
  MaxStarts = 2
  MaxStops = 1
INVARIANTS
  PacedBySeconds
  FlatOutsideSession
  NoMessageSkipped
  StopIsPrompt
PROPERTY
  StartReturns
