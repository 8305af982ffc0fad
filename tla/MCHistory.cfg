SPECIFICATION Spec
CONSTANTS
  Files <- HistoryFiles
  RegistryIn <- HistoryRegistry
INVARIANTS
  OneHistory
  AuthenticationIsSigned
  AnchorsAreCommitted
CHECK_DEADLOCK FALSE
