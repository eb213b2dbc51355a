SPECIFICATION Spec
CONSTANTS
  Lines <- MCLines
  HeaderLines <- MCHeader
  MaxRows = 3
  Int32Max = 7
  Int64Max = 15
  MinConsidered = 1
  MaxConsidered = 6
  MinAccepted = 2
  MaxAccepted = 5
  MaxCalls = 3
INVARIANTS
  ParserExact
  CompletedIsFinal
  OneIngestorThread
  WindowCoversAccepted
PROPERTY
  IngestEnds
