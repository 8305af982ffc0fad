SPECIFICATION HSpec
CONSTANTS
  Files <- CommitFiles
  RegistryIn <- CommitRegistry
INVARIANTS
  TypeOK
  UseFollowsCheck
  AtMostOneCommit
  TokenSpentOnce
  RetryHasNoEffect
  EvidenceBacked
  SecondLookAtClock
  OneAtomicDomain
PROPERTY LedgerSpec
CHECK_DEADLOCK FALSE
