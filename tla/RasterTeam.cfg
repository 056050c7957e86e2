SPECIFICATION FairSpec
CONSTANTS
  Count = 3
  Faces = {1, 2, 3, 4}
  Batch <- MCBatch
  Box <- MCBox
  Touch <- MCTouch
  FaceWork = 1
  LookupWork = 1
  TestWork = 3
  WorkLimits = {11, 22}
  VisitLimits = {5, 6}
  Generations = 2
  MaxRuns = 2
INVARIANTS
  NeverOverspends
  CapsAreExact
PROPERTIES
  RasterIsForkJoin
  RasterReturns
