SPECIFICATION Spec
CONSTANTS
  MaxFaults = 0
  MaxLaunches = 1
CHECK_DEADLOCK FALSE
PROPERTY NoWorkBeforeReboot
