SPECIFICATION Spec
CONSTANTS
  MaxAttempts = 2
  MaxOrders = 3
  MaxCrashes = 1
CHECK_DEADLOCK FALSE
INVARIANTS
  TypeOK
  BookedOnce
  NoBrickedSlot
PROPERTIES
  MarkedWasGone
  KeepsLedger
