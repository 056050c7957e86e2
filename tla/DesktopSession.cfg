SPECIFICATION FairSpec
CONSTANTS
  i1 = i1
  i2 = i2
  Ids <- MCIds
  Bits <- MCBits
  Probes <- MCProbes
  Solids = {s1, s2}
  MaxToken = 2
INVARIANTS
  NeverRerun
  OneAnswer
  GrantsHonoured
  RunKeepsAsset
  RetainedOwned
  EndsAnswered
PROPERTY
  SessionEnds
