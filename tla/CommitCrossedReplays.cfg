SPECIFICATION HSpec
CONSTANTS
  Files <- ReplayFiles
  RegistryIn <- CrossedReplays
INVARIANT ReplayStaysInOperation
CHECK_DEADLOCK FALSE
