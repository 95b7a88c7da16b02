SPECIFICATION Spec
CONSTANTS
  MaxAttempts = 1
  MaxOrders = 2
  MaxCrashes = 0
CHECK_DEADLOCK FALSE
PROPERTY
  MarkedIsGone
