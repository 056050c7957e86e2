SPECIFICATION Spec
CONSTANTS
  Scenes <- MCScenes
  Ids = {1, 2}
  BlockSize = 2
  Layers = 4
INVARIANTS
  VerdictsAreTrue
  OffersAreAccepted
  OccupancyIsFresh
