SPECIFICATION FairSpec
CONSTANTS
  Count = 3
  Lower = 4
  Upper = 2
  GroupLimit = 2
  MaxRuns = 2
INVARIANTS
  SuccessComplete
PROPERTIES
  IsForkJoin
  CallReturns
