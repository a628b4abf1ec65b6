CONSTANTS
  u1 = u1
  u2 = u2
  t1 = t1
  t2 = t2
  none = none
  Users <- MCUsers
  Threads <- MCThreads
  Nobody = none
  Page = 2
  MaxActions = 2
  MaxRequests = 3
  MaxFaults = 2
SPECIFICATION FairSpec
INVARIANTS
  TypeOK
  BalanceFollowsRecords
  CursorCovers
  DuplicateNeedsMemo
PROPERTY
  DepositsAreCredited
CHECK_DEADLOCK FALSE
