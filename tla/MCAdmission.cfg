CONSTANTS
  c1 = c1
  c2 = c2
  c3 = c3
  None = None
  Creators = {c1, c2, c3}
  MaxQueueSize = 1
  Costs = {1, 2}
  MaxCost = 2
  Budgets = {0, 2}
  MaxBatch = 2
  MaxCalls = 3
  MaxTakes = 1
  MaxCuts = 1
SPECIFICATION Spec
SYMMETRY CreatorSymmetry
INVARIANTS QueueBounded OverdraftBounded PaidIsStored
CHECK_DEADLOCK FALSE
