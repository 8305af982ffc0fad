SPECIFICATION HSpec
CONSTANTS
  Files <- PolicyFiles
  RegistryIn <- PolicyRegistry
INVARIANTS
  TypeOK
  PermissionIsDerived
  OneSubject
  ObligationsMet
  NothingIsBypassed
CHECK_DEADLOCK FALSE
