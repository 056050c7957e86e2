SPECIFICATION Spec
CONSTANTS
  MaxCount = 2
  MaxSpan = 1
  MaxKey = 1
  MaxOps = 2
INVARIANTS
  BestNotLost
PROPERTIES
  NoMismatch
  IsShowcase
CHECK_DEADLOCK FALSE
