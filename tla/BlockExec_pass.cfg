SPECIFICATION ListSpec
CONSTANTS
  A = A
  B = B
  C = C
  D = D
  MaxLen = 4
  MaxFunds = 2
  Account <- mcAccount
  Tx <- mcTx
  From <- mcFrom
  To <- mcTo
  Amount <- mcAmount
  GenesisLedgers <- mcGenesisLedgers
INVARIANTS
  Serializable
  SupplyAccounted
CHECK_DEADLOCK FALSE
