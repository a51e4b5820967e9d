SPECIFICATION UpdateSpec
CONSTANTS
  Sections <- TwoSections
  Base <- Addresses
  PktLines = 2
  QueryLen = 3
  MaxRetry = 2
  MaxMode = 2
  MaxQueries = 1
  MaxUpdates = 2
INVARIANTS SuccessMissesOnlyLost CleanUpdateSucceeds
PROPERTIES UpdateEndsBeforeLoadPc
CHECK_DEADLOCK FALSE
