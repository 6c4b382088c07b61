SPECIFICATION UpdateSpec
CONSTANTS
  Tag <- Versions
  Built <- BuiltAs
  kAttempts = 3
  CiaChunks = 2
  MaxReleases = 2
  MaxFailures = 3
INVARIANTS
  InstalledIsNewest
  OfferedForCertificate
PROPERTY NeverOlder
