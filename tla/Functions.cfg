SPECIFICATION Spec
CONSTANTS
  K = 2
  MaxRank = 3
  Unit = 60
  MaxPreview = 6
  MinPreview = 2
  Whole = 12
  Words <- SmallWords
  Numbers <- SmallNumbers
  PageMarks <- SmallPageMarks
  Ids = {"a", "b", "c", "d"}
  Rankings <- SmallRankings
  Cuts <- SmallCuts
  Reads <- SmallReads
  PageLists <- SmallPageLists
  NumberedPages <- SmallNumberedPages
  Flats <- SmallFlats
  ChunkLists <- SmallChunkLists
  GoldLists <- SmallGoldLists
  ResultLists <- SmallResultLists
  ItemCounts <- SmallItemCounts
INVARIANTS
  FusedInOrder
  ReadableNotEmpty
  TextKept
  MajorityHeaderGone
  NumbersKept
  PreviewReadable
  FiguresConsistent
CHECK_DEADLOCK FALSE
