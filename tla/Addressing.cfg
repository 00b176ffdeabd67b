CONSTANTS
  Bridges <- OneBridge
  Nodes <- TwoNodes
  Home <- SameBridge
  MaxAddr = 2
  Given <- OneAndTwo
  MaxClicks = 1
  MaxFaults = 1
  BusBound = 1
  PollBound = 2
SPECIFICATION FairSpec
INVARIANT TypeOK
INVARIANT DupsAreFlagged
PROPERTY RegistryHeals
PROPERTY PolledAgain
CHECK_DEADLOCK FALSE
