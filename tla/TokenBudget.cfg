SPECIFICATION FairBudgetSpec
CONSTANTS
  Candidates = {c1, c2, c3}
  Reservations = {2, 3}
  Usages = {2, 4}
  MaxConcurrency = 2
  MaxRetries = 1
  MaxRequests = 5
  MaxTotalTokens = 7
  MaxCalls = 4
INVARIANTS ReservedIsHeld BudgetHeld
PROPERTIES CandidatesEnd
CHECK_DEADLOCK FALSE
