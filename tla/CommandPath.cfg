CONSTANTS
  c1 = c1
  c2 = c2
  key = key
  Commands <- TwoCommands
  Keys <- OneKey
  KeyOf <- SameKey
  Priority <- GamePriority
  Awaited <- TwoCommands
  MaxResends = 1
  Troubles <- AllTroubles
SPECIFICATION FairSpec
INVARIANT TypeOK
INVARIANT OneVerdict
INVARIANT AnswersUsedOnce
PROPERTY EveryCommandConcluded
CHECK_DEADLOCK FALSE
