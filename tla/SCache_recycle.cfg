SPECIFICATION Spec
CONSTANTS
  d1 = d1
  d2 = d2
  NSECACHS = 2
  Dev <- TwoDevs
  Driven <- OneDev
  Block <- ThreeAndNoDriver
  Reachable <- ThreeDriven
  MaxVersion = 1
INVARIANTS BuffersHoldTheirBlock  SyncFinds
