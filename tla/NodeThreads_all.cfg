SPECIFICATION Spec
CONSTANTS
  OwnBlock = {o1}
  PeerBlock = {b1, b2, b3}
  Genesis = genesis
  Slot = slot
  P2P = {c1, c2}
  SeenLimit = 2
  SeenCut = 1
  Api = {api}
  MaxBusy = 2
SYMMETRY Symmetry
INVARIANTS
  TypeOK
  Rooted
  CountNeverAhead
  ExecutedBeforeAdded
  VotesClimb
CONSTRAINTS
  LowBlocks
  FewBusy
CHECK_DEADLOCK FALSE
