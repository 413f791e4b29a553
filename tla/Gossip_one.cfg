SPECIFICATION GossipSpec
CONSTANTS
  Self = 0
  Peer = {1, 2}
  Bootstrap = {1}
  PullLimit = 2
  TargetPeers = 1
  SetMin = 1
  ActiveMin = 1
  BackupPeers = 1
  MaxClock = 2
INVARIANTS
  GossipTypeOK
  PrunedStaysOut
PROPERTIES
  NewestWins
  CrashedLeaves
CHECK_DEADLOCK FALSE
