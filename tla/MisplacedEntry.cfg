SPECIFICATION Spec
CONSTANTS
  Files <- HistoryFiles
  RegistryIn <- HistoryRegistry
INVARIANT IncludedAtItsIndex
CHECK_DEADLOCK FALSE
