SPECIFICATION HSpec
CONSTANTS
  Files <- TokenFiles
  RegistryIn <- CrossedTokens
INVARIANT CommitOwnsItsToken
CHECK_DEADLOCK FALSE
