SPECIFICATION Spec
CONSTANTS
  Self = s
  Peer = {p, q}
  Block = {b}
  RegisterGap = 1
  Pause = 2
  Retry = 1
  Tolerance = 3
  ActiveWithin = 4
  ForgetAfter = 5
  CandidateLimit = 2
  ManyNodes = 1
  MaxTime = 9
INVARIANTS
  TypeOK
  
  ElectionHinders
PROPERTIES
  InactiveForGood
CHECK_DEADLOCK FALSE
