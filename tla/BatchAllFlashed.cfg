CONSTANTS
  b1 = b1
  b2 = b2
  n1 = n1
  n2 = n2
  n3 = n3
  Bridges <- TwoBridges
  Nodes <- TwoNodes
  Home <- HomeApart
  ProgressBound = 1
  MaxOrders = 1
  Disturbances <- Nothing
SPECIFICATION Spec
INVARIANT AllFlashedIsTrue
CHECK_DEADLOCK FALSE
