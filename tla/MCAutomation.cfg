SPECIFICATION HSpec
CONSTANTS
  Files <- AutomationFiles
  RegistryIn <- AutomationRegistry
INVARIANTS
  TypeOK
  AuthorityHasRoot
  QuorumOfPrincipals
  ContextIsAdmitted
  TraceIsComplete
  OnlyNegativesAreAdded
  OneBoundaryPerProposal
CHECK_DEADLOCK FALSE
