SPECIFICATION BatchSpec
CONSTANTS
  Connection = {c1, c2}
  Carried = 3
  BatchSize = 2
INVARIANTS
  BatchTypeOK

  
CHECK_DEADLOCK FALSE
