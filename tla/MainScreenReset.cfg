SPECIFICATION MainSpec
CONSTANTS
  MaxSlots = 3
  MaxFailures = 1
  MaxLaunches = 1
CHECK_DEADLOCK FALSE
PROPERTY ResetIsOwn
