SPECIFICATION FairSpec
CONSTANTS
  MaxAttempts = 1
  MaxOrders = 2
  MaxCrashes = 1
CHECK_DEADLOCK FALSE
INVARIANT
  DoubtIsChecked
PROPERTIES
  NoOrderOnUnknown
  EveryPositionEnds
