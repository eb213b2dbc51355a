SPECIFICATION ConnectionFairSpec
CONSTANTS
  Capacity = 2
  MaxLines = 5
  MaxCharged = 7
INVARIANTS
  AtMostOnceInOrder
  FaultsBoundLosses
  NoSocketLeak
PROPERTY
  DestructorReturns
