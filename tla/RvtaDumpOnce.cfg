SPECIFICATION Spec
CONSTANTS
  Dir = {"arm11"}
  TotalChunks = 1
  LargeChunk = 1
  MaxListed = 1
  DoneRead = 2
  MaxDumps = 0
  MaxCrashes = 3
  MaxFaults = 0
INVARIANT ReportedOnce
