SPECIFICATION Spec
CONSTANTS
  MaxAttempts = 2
  MaxOrders = 2
  MaxCrashes = 0
CHECK_DEADLOCK FALSE
INVARIANT
  DoubtIsChecked
