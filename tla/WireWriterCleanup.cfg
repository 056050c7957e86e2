SPECIFICATION WireFairSpec
CONSTANTS
  QueueLimit = 2
  MaxOps = 1
  MaxRevision = 1
  MaxPhases = 0
  MaxReports = 1
  MaxRejects = 0
PROPERTY
  CleanupEnds
