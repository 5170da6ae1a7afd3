SPECIFICATION Spec
CONSTANTS
  Runs = {r1, r2}
  Api = {r1}
  NumDocs = 1
  Versions = {v1}
  NumChunks <- MCNumChunks
  Corrupt = {}
  None = None
  MaxFaults = 0
  MaxCrashes = 1
  MaxReplaced = 0
  v1 = v1
  v2 = v2
  scan = scan
INVARIANT
  CleanAfterFailure
