SPECIFICATION Spec
CONSTANTS
  Pnls <- MCPnls
  DrawdownLimit = 2
  KillPause = 9
  RequestTTL = 1
  DayLength = 3
  MaxTotal = 1
  PanelTicks = {2}
  MaxTime = 5
  MaxCloses = 3
  MaxCrashes = 1
CHECK_DEADLOCK FALSE
PROPERTY
  HaltSurvivesRestart
