SPECIFICATION FairHSpec
CONSTANTS
  Files <- TemporalFiles
  RegistryIn <- TemporalRegistry
INVARIANTS
  TypeOK
  SureOfEveryInstant
  PositiveIsSupported
  AcyclicLineage
  OneRevision
  LineageGrows
  OneLine
PROPERTY BaselineReturns
CHECK_DEADLOCK FALSE
