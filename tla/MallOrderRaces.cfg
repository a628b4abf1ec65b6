CONSTANTS
  b1 = b1
  s = s
  g1 = g1
  o1 = o1
  o2 = o2
  t1 = t1
  t2 = t2
  none = none
  Nobody = none
  Users <- MCUsers
  Buyers <- OneBuyer
  Goods <- OneGood
  Orders <- MCOrders
  Threads <- TwoThreads
  Owner <- MCOwner
  Invite <- MCInvite
  Price <- MCPrice
  InitCart <- OneRowCart
  OrderlyClients = FALSE
  BuyRebate = 10
  OneLevel = 20
  TwoLevel = 30
  MaxCount = 1
  InitStock = 1
  InitBalance = 20
  InitAward = 20
SYMMETRY Symmetry
SPECIFICATION Spec
INVARIANT
  LedgerFollowsConfirmations
CHECK_DEADLOCK FALSE
