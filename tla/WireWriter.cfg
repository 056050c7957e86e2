SPECIFICATION WireFairSpec
CONSTANTS
  QueueLimit = 1
  MaxOps = 2
  MaxRevision = 2
  MaxPhases = 1
  MaxReports = 2
  MaxRejects = 1
INVARIANTS
  TerminalLast
  LatestDelivered
PROPERTIES
  Answered
