SPECIFICATION Spec
CONSTANTS
  f1 = f1
  f2 = f2
  FC = {f1, f2}
  MaxRows = 2
  MaxLog = 2
  ChunkRows = 2
  MaxListed = 4
  MaxFaults = 1
  ReadErrors = TRUE
SYMMETRY Symmetry
INVARIANT EveryChunkConfirmed
