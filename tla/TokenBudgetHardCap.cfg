SPECIFICATION BudgetSpec
CONSTANTS
  Candidates = {c1, c2, c3}
  Reservations = {3}
  Usages = {3}
  MaxConcurrency = 3
  MaxRetries = 0
  MaxRequests = 0
  MaxTotalTokens = 4
  MaxCalls = 3
SYMMETRY Symmetry
INVARIANTS HardCap
CHECK_DEADLOCK FALSE
