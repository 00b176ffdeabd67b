CONSTANTS
  b1 = b1
  b2 = b2
  n1 = n1
  n2 = n2
  n3 = n3
  Bridges <- TwoBridges
  Nodes <- ThreeNodes
  Home <- HomeThree
  ProgressBound = 1
  MaxOrders = 2
  Disturbances <- AllDisturbances
SPECIFICATION Spec
INVARIANT TypeOK
INVARIANT NoOrphanSession
INVARIANT OncePerOrder
INVARIANT CountsAreRight
INVARIANT VerdictsAreTrue
INVARIANT NobodyLeftWaiting
CONSTRAINT SmallOrders
CHECK_DEADLOCK FALSE
