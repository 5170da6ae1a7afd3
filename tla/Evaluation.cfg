SPECIFICATION FairSpec
CONSTANTS
  Runs = {r1, r2}
  Watched = r1
  None = None
  NumItems = 3
  Limit = 0
  Concurrency = 2
  TopK = 2
  RecallDepth = 1
  UseJudge = TRUE
  Answerable <- MCAnswerable
  Gold <- MCGold
  Docs = {d1, d2, d3}
  Found <- MCFound
  MaxCorpus = 2
  MaxClock = 2
  d1 = d1
  d2 = d2
  d3 = d3
INVARIANTS
  PermitsAddUp
  MissedCitationExplained
  AggregatesAccount
  PageShowsNewestRun
PROPERTY
  RunEnds
CHECK_DEADLOCK FALSE
