SPECIFICATION HSpec
CONSTANTS
  Files <- ReopeningFiles
  RegistryIn <- ReopeningRegistry
INVARIANT ClosurePreserved
CHECK_DEADLOCK FALSE
