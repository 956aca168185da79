CONSTANTS
  w1 = w1
  w2 = w2
  w3 = w3
  w4 = w4
  x = x
  y = y
  e = e
  None = None
  Disagree = Disagree
  Workers = {w1, w2, w3, w4}
  Results = {x, y}
  Errors = {e}
  Quorum = 3
  Strategies = {"all", "majority"}
  Weight <- EqualWeights
  Slow = FALSE
  MaxTakes = 1
  MaxCrashes = 0
  MaxRecoveries = 0
SPECIFICATION FairSpec
INVARIANTS OneOutcome NotOverDispatched FailsOnlyOnDisagreement
PROPERTY TaskDecided
CHECK_DEADLOCK FALSE
