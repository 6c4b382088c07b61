SPECIFICATION Spec
CONSTANTS
  Threads = {main, uploader}
  Sampler = main
  MaxUses = 2
  FriendCode = {1}
  Delays = {2, 6, 8}
  MaxBoots = 2
  MaxFaults = 1
CHECK_DEADLOCK FALSE
INVARIANTS
  RowsAreUnique
  RowsTellTheState
  IdleIsFresh
