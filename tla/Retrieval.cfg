SPECIFICATION FairSpec
CONSTANTS
  Requests = {q1, q2}
  CallersInvalidate = TRUE
  None = None
  MaxCommits = 2
  MaxFaults = 2
  MaxRestarts = 1
INVARIANTS
  OneIndexPerEpoch
  StaleOnlyByRace
PROPERTY
  SearchAnswered
