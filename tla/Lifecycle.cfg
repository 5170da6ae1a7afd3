SPECIFICATION FairSpec
CONSTANTS
  Workers = {w1, w2}
  Loop = Loop
  None = None
INVARIANTS
  LoadedOnce
  RefusedBeforeUse
PROPERTIES
  EmbedReturns
  RecoversFromOutage
