SPECIFICATION Spec
CONSTANTS
  MaxFaults = 2
  MaxApplies = 1
INVARIANT NoMeansNo
