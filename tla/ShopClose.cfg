CONSTANTS
  b1 = b1
  s = s
  g1 = g1
  o1 = o1
  o2 = o2
  t1 = t1
  none = none
  Nobody = none
  Users <- MCUsers
  Buyers <- OneBuyer
  Goods <- OneGood
  Orders <- MCOrders
  Threads <- OneThread
  Owner <- MCOwner
  Invite <- MCInvite
  Price <- MCPrice
  InitCart <- OneRowCart
  OrderlyClients = TRUE
  BuyRebate = 10
  OneLevel = 20
  TwoLevel = 30
  MaxCount = 1
  InitStock = 2
  InitBalance = 20
  InitAward = 15
  MaxFaults = 1
SYMMETRY Symmetry
SPECIFICATION CloseSpec
INVARIANTS
  CloseTypeOK
  ClosingKeepsBooks
  LedgerFollowsClosings
  FaultCutsOneOrder
  FaultRepeatsOneBooking
PROPERTY
  ClosingLeavesNothingOpen
CHECK_DEADLOCK FALSE
