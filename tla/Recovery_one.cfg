SPECIFICATION Spec
CONSTANTS
  Full = {2}
  Window = 2
  MaxHeight = 3
  MaxSnapshots = 2
  MaxRestarts = 1
INVARIANTS
  TypeOK
  AheadByOne
  LedgerMatchesTip
PROPERTIES
  SnapshotBrings
CHECK_DEADLOCK FALSE
