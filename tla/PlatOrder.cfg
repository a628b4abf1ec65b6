CONSTANTS
  u1 = u1
  u2 = u2
  o1 = o1
  o2 = o2
  o3 = o3
  Users <- MCUsers
  Orders <- MCOrders
  MaxAmount = 2
  InitBalance = 4
SPECIFICATION Spec
INVARIANTS
  TypeOK
  BillsMatchStatus
  BalancesFollowOrders
PROPERTIES
  ClosedIsFinal
  IsEscrow
CHECK_DEADLOCK FALSE
