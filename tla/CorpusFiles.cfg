SPECIFICATION FairSpec
CONSTANTS
  NumDocs = 2
  MaxAborts = 1
INVARIANTS
  JunkExplained
  SuccessMeansPresent
PROPERTIES
  CompleteIsKept
  EndsComplete
