CONSTANTS
  a1 = a1
  a2 = a2
  Addresses <- MCAddresses
  Amounts <- MCAmounts
  GatherMin = 2
  Remain = 1
  MaxRecords = 3
  MaxGatherFaults = 3
SPECIFICATION GatherFairSpec
INVARIANTS
  GatherTypeOK
  NothingOverlooked
  FuelIsNotPiledUp
PROPERTIES
  GatheredInTheEnd
