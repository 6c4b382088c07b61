SPECIFICATION HookSpec
CONSTANTS
  Faults = {"cut"}
  MaxFailures = 1
  MaxChanges = 2
PROPERTY LeftAlone
