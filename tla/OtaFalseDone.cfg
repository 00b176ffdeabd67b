CONSTANTS
  NChunks = 257
  ByteMod = 256
  Me = me
  Sisters = {s1}
  WireBound = 2
  MaxRetries = 5
  MaxFlashRetries = 10
  Hazards <- OnlySlow
SPECIFICATION Spec
INVARIANT DoneMeansCommitted
CHECK_DEADLOCK FALSE
