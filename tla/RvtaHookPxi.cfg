SPECIFICATION HookSpec
CONSTANTS
  Faults = {"pxi"}
  MaxFailures = 1
  MaxChanges = 1
INVARIANT RemovedOtherwise
