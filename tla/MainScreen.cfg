SPECIFICATION MainSpec
CONSTANTS
  MaxSlots = 3
  MaxFailures = 2
  MaxLaunches = 3
CHECK_DEADLOCK FALSE
INVARIANTS
  HalfDoneRestarts
  SwitchedIsWhole
  RepairIsRemembered
PROPERTY OnlyAskedIsUnlinked
