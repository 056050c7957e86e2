SPECIFICATION Spec
CONSTANTS
  Copies = 3
  SourceBytes = 2
  ReaderBytes = 1
  ImportBytes = 5
  AcceptedBytes = 1
  PlacedBytes = 2
  WallBytes = 1
  CompareBytes = 8
  FreshTests = 1
  FreshWork = 5
  Scenes <- MCScenes
  Limits <- MCLimits
  Requests <- MCRequests
  MaxFound = 1
INVARIANTS
  AnswerNamesResult
  MonitorFailureTold
  CacheNeverRejects
PROPERTIES
  CommandEnds
