SPECIFICATION Spec
CONSTANTS
  MaxFaults = 1
  MaxApplies = 2
INVARIANT StateNamesInstalled
