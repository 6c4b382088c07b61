SPECIFICATION MainSpec
CONSTANTS
  MaxSlots = 2
  MaxFailures = 1
  MaxLaunches = 1
CHECK_DEADLOCK FALSE
PROPERTY NothingChangesBeforeRestart
