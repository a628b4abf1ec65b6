CONSTANTS
  t1 = t1
  t2 = t2
  t3 = t3
  u1 = u1
  u2 = u2
  stranger = stranger
  Txs = {t1, t2, t3}
  Users = {u1, u2}
  Receivers <- MCReceivers
  OutOfGas = {t3}
  Elusive = {t2}
  Services <- MCServices
  Backlog = 4
  MaxCount = 2
  MaxHeight = 4
  MaxPerBlock = 1
  MaxReorgs = 1
  MaxFaults = 1
  MaxCrashes = 1
SPECIFICATION Spec
INVARIANTS
  TypeOK
  CreditedOnce
  CreditedIsOnChain
  CursorCovers
PROPERTY
  DeepIsCredited
CHECK_DEADLOCK FALSE
