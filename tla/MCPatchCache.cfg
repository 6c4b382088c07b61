SPECIFICATION Spec
CONSTANTS
  act = act
  http = http
  PatchFile = {act, http}
  MaxVersion = 3
  Ships <- ShipsOf
  MaxFaults = 2
INVARIANTS
  PreparedIsWhole
  FailureKeepsACache
