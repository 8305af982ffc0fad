SPECIFICATION Spec
CONSTANTS
  Files <- ContinuityFiles
  RegistryIn <- ContinuityRegistry
INVARIANTS
  ClosureIsEarned
  ConvergenceIsComplete
  EveryCapabilitySupplied
PROPERTY FactsInOrder
CHECK_DEADLOCK FALSE
