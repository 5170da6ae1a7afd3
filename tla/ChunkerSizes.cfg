SPECIFICATION Spec
CONSTANTS
  Sizes <- SmallSizes
  MaxLine = 3
  MaxWords = 7
  MaxPages = 3
INVARIANTS
  NothingLost
  OverlapExact
  SizeBounded
  NoTinyChunk
  LabelsFit
  EveryChunkAdds
