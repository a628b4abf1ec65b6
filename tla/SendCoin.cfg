CONSTANTS
  u1 = u1
  u2 = u2
  r1 = r1
  r2 = r2
  BSTS = BSTS
  TOK = TOK
  Users <- MCUsers
  Records <- MCRecords
  Coins <- MCCoins
  FeeCoin = BSTS
  PlatCoin = BSTS
  TokenCoins <- MCTokens
  MaxAmount = 2
  MaxFee = 1
  InitBalance = 2
  MaxCrashes = 1
  MaxPaid = 2
  MaxLost = 1
SYMMETRY Symmetry
SPECIFICATION Spec
INVARIANTS
  TypeOK
  BillsMatchStatus
  PaidAsRecorded
  FreezeBacksRecords
PROPERTIES
  IsEscrow
CHECK_DEADLOCK FALSE
