CONSTANT MaxFrames = 4
SPECIFICATION FairSpec
INVARIANT TypeOK
INVARIANT OneEngineAtATime
INVARIANT EffectsAreOwned
INVARIANT ResultsAgree
PROPERTY PlaysEnd
CHECK_DEADLOCK FALSE
