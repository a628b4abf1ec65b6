CONSTANTS
  b1 = b1
  s = s
  g1 = g1
  o1 = o1
  o2 = o2
  t1 = t1
  t2 = t2
  none = none
  Nobody = none
  Users <- MCUsers
  Buyers <- MCUsers
  Goods <- OneGood
  Orders <- MCOrders
  Threads <- OneThread
  Owner <- MCOwner
  Invite <- MCInvite
  Price <- MCPrice
  InitCart <- EmptyCart
  OrderlyClients = TRUE
  BuyRebate = 10
  OneLevel = 20
  TwoLevel = 30
  MaxCount = 2
  InitStock = 2
  InitBalance = 50
  InitAward = 40
SPECIFICATION Spec
INVARIANT
  FreezeBacksOrders
CHECK_DEADLOCK FALSE
