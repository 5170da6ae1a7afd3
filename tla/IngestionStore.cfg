SPECIFICATION FairSpec
CONSTANTS
  Runs = {r1, r2, r3}
  Api = {r1, r2}
  NumDocs = 1
  Versions = {v1, v2, bad}
  NumChunks <- MCNumChunks
  Corrupt = {bad}
  None = None
  MaxFaults = 1
  MaxCrashes = 1
  MaxReplaced = 0
  v1 = v1
  v2 = v2
  scan = scan
INVARIANT
  ChunksWhole
PROPERTIES
  ImplementsStore
  EveryRunEnds
