\* The smaller components side by side, one at work in each behaviour.
SPECIFICATION Spec
CONSTANTS
  Unused = Unused
  s1 = s1
  s2 = s2
  p1 = p1
  p2 = p2
  NoPair = NoPair
  t1 = t1
  t2 = t2
  t3 = t3
  l1 = l1
  l2 = l2
  a1 = a1
  a2 = a2
  Gone = Gone
  Unread = Unread
INVARIANTS
  TypeOK
  SpotBooksHold
  ProbeFollowsTariffHalt
  PairKeepsASlot
  ReadyBookIsTrue
  PositionsWithinLimit
  BookedWithItsOwnClose
  LiveSlotsTrade
  StorageHolds
  ConfigFollowsFiles
  ProcessHandsOver
PROPERTIES
  PaidSlotStaysOut
  ThrottleFollowsLimit
  EndlessPauseHolds
  OpeningGapSignals
  TrailCountsEveryPrice
  AccountStopsRightly
CHECK_DEADLOCK FALSE
