SPECIFICATION Spec
CONSTANTS
  Keys = {k1, k2}
  Persist = 2
  Repeat = 2
  MaxClock = 5
INVARIANT
  SeriesIsAlerted
CHECK_DEADLOCK FALSE
