CONSTANTS
  StaticSteps = 2
  MaxDynamicSteps = 2
  Durations = {0, 1, 3}
  Quotas = {0, 1, 2}
  Horizon = 4
  MaxRequests = 3
  Unlimited = Unlimited
SPECIFICATION BudgetSpec
INVARIANTS
  ComputeWithinBudget
  QuotaExact
PROPERTY
  ChainEnds
