SPECIFICATION Spec
CONSTANTS
  Runs = {r1, r2}
  Api = {r1}
  NumDocs = 2
  Versions = {v2, scan}
  NumChunks <- MCNumChunks
  Corrupt = {}
  None = None
  MaxFaults = 1
  MaxCrashes = 1
  MaxReplaced = 1
  v1 = v1
  v2 = v2
  scan = scan
INVARIANTS
  EmptyDocumentExplained
  SuccessAccountsForAll
  ChunkCountExact
