CONSTANTS
  Bridges <- OneBridge
  Nodes <- TwoNodes
  Home <- HomeTwo
  MaxAddr = 4
  TempBase = 3
  MaxSurprises = 0
SPECIFICATION Spec
INVARIANT AllNumbered
CHECK_DEADLOCK FALSE
