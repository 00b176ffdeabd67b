CONSTANTS
  Bridges <- TwoBridges
  Nodes <- ThreeNodes
  Home <- HomeThree
  MaxAddr = 4
  TempBase = 3
  MaxSurprises = 1
SPECIFICATION FairSpec
INVARIANT TypeOK
PROPERTY NumberedOnce
PROPERTY TouchedIsNumbered
CHECK_DEADLOCK FALSE
