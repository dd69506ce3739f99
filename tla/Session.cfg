SPECIFICATION Spec
CONSTANTS
  Absent = Absent
  Alphabet = {"a", "b"}
  SafeEncodings = {"cp1252"}
  Order <- MCOrder
  KeyRange <- MCKeyRange
  MaxExactValues = 3
  MaxNumericValues = 3
  StagingFactor = 1
  SpoolReserve = 1
  VaultFactor = 2
  VaultReserve = 1
  BackendId = "vfp"
  Starts <- MCStarts
  Edits <- MCEdits
  Outputs <- MCOutputs
  Disks <- MCDisks
  Rebuilds <- MCRebuilds
  Verifications <- MCVerifications
  Associations <- MCAssociations
  MaxCalls = 3
  MaxEdits = 2
INVARIANTS PublishedCoversTheSource IndexEvidenceIsTrue PreflightIsRight CompletedRetryReturns TruthfulEnd
CHECK_DEADLOCK FALSE
