SPECIFICATION Spec
CONSTANTS
  Updater = {u1, u2}
  Leader <- mcLeader
  Me = "me"
  Schedules <- mcSchedules
  Epochs = {1}
  Starts <- mcStarts
  SlotTicks = 2
  EpochTicks = 5
  Buffer = 1
  MaxTime = 9
  MaxBusy = 2
  MaxEpoch = 3
  MaxProposals = 2
INVARIANTS
  TypeOK
  SkipsBounded
  OneProposalPerSlot
  TablesReady
SYMMETRY Symmetric
CONSTRAINTS FewBusy
CHECK_DEADLOCK FALSE
