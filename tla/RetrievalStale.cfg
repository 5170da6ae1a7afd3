SPECIFICATION FairSpec
CONSTANTS
  Requests = {q1}
  CallersInvalidate = FALSE
  None = None
  MaxCommits = 1
  MaxFaults = 0
  MaxRestarts = 1
PROPERTY
  IndexCatchesUp
