CONSTANTS
  Scenes <- MCScenes
  Length = 8
  Pitch = 2
  Batch = 2
  Sweeps = 2
  Rounds = 2
  FewCopies = 2
  Depths = 3
  Tries = 2
  Part = 2
  Headroom = 1
  PageSize = 1
  Grants = 1
SPECIFICATION FairSpec
INVARIANTS GridIsGreedy FreeIsClear PagesAreFresh TrialMaximal BestKept
PROPERTY SearchReturns
CHECK_DEADLOCK FALSE
