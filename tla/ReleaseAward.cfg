CONSTANTS
  u1 = u1
  u2 = u2
  Users <- MCUsers
  InitAward <- BothHaveAward
  Rates <- EditedRate
  MinRelease = 1
  MallDeltas <- BuyAndRebate
  MaxMall = 2
  MaxDay = 3
  MaxFaults = 1
  MaxCrashes = 1
SPECIFICATION Spec
INVARIANTS
  TypeOK
  ReleaseConserves
  OncePerDayUnlessFailed
PROPERTY
  DueIsReleasedIfAlwaysSome
CHECK_DEADLOCK FALSE
