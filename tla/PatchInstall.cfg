SPECIFICATION Spec
CONSTANTS
  MaxFaults = 2
  MaxApplies = 3
INVARIANTS
  AppliedIsExact
  RememberedIsInstalled
  DeclinedIsGone
