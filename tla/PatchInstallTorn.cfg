SPECIFICATION Spec
CONSTANTS
  MaxFaults = 1
  MaxApplies = 1
INVARIANT NeverHalfWritten
