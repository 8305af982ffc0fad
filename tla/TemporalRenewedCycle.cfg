SPECIFICATION FairHSpec
CONSTANTS
  Files <- RenewedFiles
  RegistryIn <- RenewedLineage
PROPERTY HReturns
CHECK_DEADLOCK FALSE
