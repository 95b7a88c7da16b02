SPECIFICATION Spec
CONSTANTS
  Pnls <- MCLosses
  DrawdownLimit = 2
  KillPause = 2
  RequestTTL = 1
  DayLength = 3
  MaxTotal = 1
  PanelTicks = {}
  MaxTime = 5
  MaxCloses = 3
  MaxCrashes = 1
CHECK_DEADLOCK FALSE
INVARIANTS
  TypeOK
  DrawdownHalts
  SessionMatchesLedger
PROPERTIES
  HaltedNeverAdmits
  PauseServed
  LiftSurvivesRestart
