SPECIFICATION FairSpec
CONSTANTS
  A = A
  B = B
  C = C
  D = D
  E = E
  MaxLen = 4
  Account <- mcAccount
  Tx <- mcTx
  From <- mcFrom
  To <- mcTo
  Amount <- mcAmount
  Ledgers <- mcLedgers
  Executor = {"slot", "p2p"}
  Works <- mcWorks
INVARIANTS
  TypeOK
  RefusedInRaceOnly
  MatchesExecute
  FormsBatches
PROPERTIES
  FundsKept
  Terminates
CHECK_DEADLOCK FALSE
