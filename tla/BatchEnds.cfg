CONSTANTS
  b1 = b1
  b2 = b2
  n1 = n1
  n2 = n2
  n3 = n3
  Bridges <- OneBridge
  Nodes <- TwoNodes
  Home <- HomeTwo
  ProgressBound = 1
  MaxOrders = 2
  Disturbances <- ManualAndLinks
SPECIFICATION FairSpec
PROPERTY BatchEnds
CHECK_DEADLOCK FALSE
