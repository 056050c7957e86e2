SPECIFICATION FairSpec
CONSTANTS
  MaxOps = 5
  MaxPackings = 2
INVARIANTS
  TokensAccounted
PROPERTIES
  SavedIsShown
  NeverBusyForever
CHECK_DEADLOCK FALSE
