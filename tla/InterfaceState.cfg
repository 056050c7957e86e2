SPECIFICATION FairWindowSpec
CONSTANTS
  MaxOps = 4
  MaxPackings = 2
PROPERTIES
  NeverGoesBack
  Settles
