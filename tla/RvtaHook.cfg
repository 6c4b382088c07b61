SPECIFICATION HookSpec
CONSTANTS
  Faults = {"write", "cut", "pxi"}
  MaxFailures = 3
  MaxChanges = 3
INVARIANTS
  HookedIfPossible
  NoHookLeftBehind
PROPERTY OthersUntouched
