SPECIFICATION Spec
CONSTANTS
  MaxFaults = 1
  MaxLaunches = 2
CHECK_DEADLOCK FALSE
INVARIANTS
  TrustedBeforeDownload
PROPERTIES
  UnverifiedOnlyAfterCertificate
  RetryRunsTheSame
