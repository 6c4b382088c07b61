SPECIFICATION Spec
CONSTANTS
  act = act
  http = http
  PatchFile = {act, http}
  MaxVersion = 2
  Ships <- ShipsOf
  MaxFaults = 1
INVARIANTS
  FailureKeepsCache
