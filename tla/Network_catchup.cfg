SPECIFICATION FairSpec
CONSTANTS
  A = A
  B = B
  C = C
  Account <- mcAccount
  Tx <- mcOnce
  From <- mcFrom
  To <- mcTo
  Amount <- mcAmount
  Funds <- mcRich
  FreeLimit = 4
  Node = {n1, n2}
  Leaders = {n1}
  HttpPorts = {}
  HttpLate = FALSE
  Genesis = g
  Block = {g, b1, b2}
PROPERTIES
  CatchUp
CHECK_DEADLOCK FALSE
