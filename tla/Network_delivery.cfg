SPECIFICATION FairSpec
CONSTANTS
  A = A
  B = B
  C = C
  Account <- mcAccount
  Tx <- mcOneTx
  From <- mcFrom
  To <- mcTo
  Amount <- mcAmount
  Funds <- mcFunds
  FreeLimit = 4
  Node = {n1, n2, n3}
  Leaders = {n1}
  HttpPorts = {n2}
  HttpLate = FALSE
  Genesis = g
  Block = {g, b1, b2}
PROPERTIES
  Delivered
CHECK_DEADLOCK FALSE
