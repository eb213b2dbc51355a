SPECIFICATION Spec
CONSTANTS
  OrderIds = {0, 3, 4, 6, 7, 9}
  Orders = {o1}
  Null = Null
  SLOTS_PER_PAGE = 2
  Preallocated = 2
  MaxPages = 4
  HugePages = TRUE
INVARIANTS
  PagesOwnedOnce
PROPERTY
  ImplementsOrderMap
