CONSTANTS
  w1 = w1
  w2 = w2
  w3 = w3
  x = x
  y = y
  None = None
  Disagree = Disagree
  Workers = {w1, w2, w3}
  Results = {x, y}
  Errors = {}
  Quorum = 3
  Strategies = {"all", "majority"}
  Weight <- EqualWeights
  Slow = TRUE
  MaxTakes = 2
  MaxCrashes = 1
  MaxRecoveries = 1
SPECIFICATION Spec
SYMMETRY Symmetry
INVARIANT QuorumAgrees
CHECK_DEADLOCK FALSE
