SPECIFICATION FairSpec
CONSTANTS
  Rechecks = 2
  LagReads = 1
  MaxFaults = 2
  Keys = {k1, k2}
  NoKey = nokey
  FirstKey = k1
  MaxCoins = 1
  MaxPasses = 2
  MaxGrace = 1
  MaxStuck = 1
  MaxCommands = 2
INVARIANTS
  TypeOK
  EveryPositionTracked
PROPERTIES
  OpensOnlyWhenFlat
  SwitchedOffOnlyFlat
  OffBecomesFlat
  LiveDrainsWarming
  CampaignSwitchesOff
