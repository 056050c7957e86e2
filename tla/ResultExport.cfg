SPECIFICATION ExportSpec
CONSTANTS
  Exporters = {e1, e2}
  Solutions = {s1, s2}
  Assets = {a1}
  Foreign = Foreign
  None = None
  MaxAttempts = 2
  MaxTouches = 1
INVARIANTS
  ResultComplete
PROPERTIES
  CommitNamesCertified
CHECK_DEADLOCK FALSE
