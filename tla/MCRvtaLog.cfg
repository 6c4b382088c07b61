SPECIFICATION FairSpec
CONSTANTS
  f1 = f1
  f2 = f2
  FC = {f1, f2}
  MaxRows = 4
  MaxLog = 2
  ChunkRows = 2
  MaxListed = 2
  MaxFaults = 1
  ReadErrors = TRUE
INVARIANTS
  NoRowLost
  InOrder
  DeleteOnlyConfirmed
PROPERTIES
  EventuallyUploaded
  ImplementsDelivery
