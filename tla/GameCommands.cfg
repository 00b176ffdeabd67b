CONSTANTS
  MaxBridges = 2
  Requests <- AnyAndRival
  Addrs <- Nodes
  MaxActivations = 1
  Ready = 1
  MaxRequests = 2
  MaxSurprises = 1
SPECIFICATION FairSpec
INVARIANT TypeOK
INVARIANT StageColouredOnce
INVARIANT OkMeansSent
INVARIANT TokensReachAll
PROPERTY EveryRequestAnswered
CHECK_DEADLOCK FALSE
