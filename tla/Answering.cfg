SPECIFICATION FairSpec
CONSTANTS
  Passages = {p1, p2, p3}
  Unknown = Unknown
  Remarks = {"no_relevant_context", "llm_unavailable", "caution"}
  None = None
  TopK = 2
  Providers = {"local", "cohere"}
INVARIANTS
  CitedWasShown
  RefusalIsFree
PROPERTIES
  ImplementsContract
  EveryRequestAnswered
