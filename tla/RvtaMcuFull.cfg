SPECIFICATION Spec
CONSTANTS
  Threads = {t1, t2}
  MaxUses = 2
CHECK_DEADLOCK FALSE
INVARIANTS
  OnlyHeldWhileReading
