SPECIFICATION FairSpec
CONSTANTS
  d1 = d1
  d2 = d2
  NSECACHS = 3
  Dev <- TwoDevs
  Driven <- TwoDevs
  Block <- TwoAndOne
  Reachable <- TwoAndOne
  MaxVersion = 1
INVARIANTS ClistsSorted
PROPERTIES CallsReturn Transparent CommitSavesChanges
