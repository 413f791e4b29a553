SPECIFICATION Spec
CONSTANTS
  A = A
  B = B
  C = C
  Account <- mcAccount
  Tx <- mcTx
  From <- mcFrom
  To <- mcTo
  Amount <- mcAmount
  Funds <- mcFunds
  FreeLimit = 4
  Node = {n1, n2}
  Leaders = {n1, n2}
  HttpPorts = {n2}
  HttpLate = TRUE
  Genesis = g
  Block = {g, b1, b2, b3}
SYMMETRY Symmetry
INVARIANTS
  TypeOK
  LedgerFollowsChain
  OneVotePerHeight
PROPERTIES
  ImplementsChains
CHECK_DEADLOCK FALSE
