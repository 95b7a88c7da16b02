SPECIFICATION Spec
CONSTANTS
  Pnls <- MCPnls
  DrawdownLimit = 2
  KillPause = 2
  RequestTTL = 1
  DayLength = 10
  MaxTotal = 1
  PanelTicks = {2}
  MaxTime = 5
  MaxCloses = 3
  MaxCrashes = 1
CHECK_DEADLOCK FALSE
PROPERTY
  HydrateRestoresSession
