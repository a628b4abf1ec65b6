CONSTANTS
  u1 = u1
  u2 = u2
  Users <- MCUsers
  InitAward <- NoAward
  Rates <- FixedRate
  MinRelease = 1
  MallDeltas <- RebateOnly
  MaxMall = 2
  MaxDay = 3
  MaxFaults = 0
  MaxCrashes = 0
SPECIFICATION Spec
PROPERTY
  DueIsReleased
CHECK_DEADLOCK FALSE
