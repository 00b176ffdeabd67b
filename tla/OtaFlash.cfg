CONSTANTS
  NChunks = 5
  ByteMod = 256
  Me = me
  Sisters = {s1}
  WireBound = 3
  MaxRetries = 5
  MaxFlashRetries = 10
  Hazards <- AllHazards
SPECIFICATION FairSpec
INVARIANT TypeOK
INVARIANT DoneMeansCommitted
INVARIANT CommittedImageIsWhole
INVARIANT IInv
PROPERTY PromiseKept
PROPERTY EndsUnlessNodeKeepsAsking
CHECK_DEADLOCK FALSE
