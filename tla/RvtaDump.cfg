SPECIFICATION FairSpec
CONSTANTS
  Dir = {"arm11"}
  TotalChunks = 3
  LargeChunk = 2
  MaxListed = 1
  DoneRead = 8
  MaxDumps = 2
  MaxCrashes = 1
  MaxFaults = 2
INVARIANTS
  SavedIsKept
  NeverSendsUnfinished
  NoDumpWaitsForTimer
  BuffersFit
PROPERTY EventuallySent
