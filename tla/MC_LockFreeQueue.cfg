SPECIFICATION FairSpec
CONSTANTS
  SIZE = 4
  Producers = {p1}
  Consumers = {c1}
  Items = {x, y}
  NullOpt = NullOpt
  Raw = Raw
INVARIANTS
  SlotsExclusive
  NothingLeftBehind
PROPERTIES
  ImplementsFifo
  PublishedIsConsumed
  CallsReturn
